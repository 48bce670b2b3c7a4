---------------------------- MODULE MemoryProofs ----------------------------
(***************************************************************************)
(* What search sees is what is on disk: the cache and the index, kept       *)
(* incrementally from the first use on, are after every step those that a   *)
(* new process would load from the files.  For any keys, values, words and  *)
(* requests.                                                                *)
(* The two tiers agree: between operations the session holds of an outcome  *)
(* what its file holds, and the last health check leaves no probe.          *)
(* And the corpus-wide counts are those of a recount, so that the whole     *)
(* index is the one of the files.                                           *)
(***************************************************************************)
EXTENDS Memory, Sums

\* An index agrees with a set of entries, the corpus-wide counts aside.
Matches(i, es) ==
    /\ i.postings = [t \in Tokens |-> [k \in Keys |-> i.postings[t][k]]]
    /\ i.docTermFreq = [k \in Keys |-> i.docTermFreq[k]]
    /\ i.docLen = [k \in Keys |-> i.docLen[k]]
    /\ \A k \in Keys :
         /\ \A t \in Tokens : i.postings[t][k] = IF Indexed(es, k) THEN Freq(es[k])[t] ELSE 0
         /\ i.docTermFreq[k] = IF Indexed(es, k) THEN Freq(es[k]) ELSE Nothing
         /\ i.docLen[k] = LengthIn(es, k)

Entries == [Keys -> Entry \cup {Nothing}]

\* Every file holds an entry of the key it is named for.
InPlace(f) ==
    /\ f \in [Paths -> Entry \cup {Nothing}]
    /\ \A p \in Paths : f[p] # Nothing => f[p].key \in Stored /\ PathOf[f[p].key] = p

\* FromFiles, of any files.
Contents(f) == [k \in Keys |-> IF f[PathOf[k]] # Nothing /\ f[PathOf[k]].key = k
                               THEN f[PathOf[k]] ELSE Nothing]

\* The operations in progress are ones that were begun.
OpsOK ==
    /\ op \in [Actors -> Op]
    /\ op["runner"].pc = "store" => op["runner"].key \in Outcomes /\ op["runner"].value \in Values
    /\ \A a \in Actors : op[a].pc = "recall" => op[a].key \in Keys

\* The part of the invariant about long-term memory.
LInv ==
    /\ InPlace(files)
    /\ loaded \in BOOLEAN
    /\ entries \in Entries
    /\ SearchSeesFiles

MInv == LInv /\ OpsOK

-----------------------------------------------------------------------------
(* The operators of the index.                                              *)

\* The word counts of an entry, and that they are not Nothing.
LEMMA FreqType ==
    ASSUME NEW e \in Entry
    PROVE  Freq(e) \in [Tokens -> Nat] /\ Freq(e) # Nothing
  BY MemoryAssumption DEF Freq, Entry

\* An entry is not Nothing.
LEMMA EntryIsNot ==
    ASSUME NEW k \in Keys, NEW v \in Values
    PROVE  MemoryEntry(k, v) \in Entry /\ MemoryEntry(k, v) # Nothing /\ MemoryEntry(k, v).key = k
  BY MemoryAssumption DEF MemoryEntry, Entry

\* To agree with entries is to be their index, the corpus-wide counts aside.
LEMMA MatchesIs ==
    ASSUME NEW i, NEW es
    PROVE  Matches(i, es) <=> /\ i.postings = IndexOf(es).postings
                              /\ i.docTermFreq = IndexOf(es).docTermFreq
                              /\ i.docLen = IndexOf(es).docLen
<1> DEFINE p == [t \in Tokens |-> [k \in Keys |-> IF Indexed(es, k) THEN Freq(es[k])[t] ELSE 0]]
           f == [k \in Keys |-> IF Indexed(es, k) THEN Freq(es[k]) ELSE Nothing]
           l == [k \in Keys |-> LengthIn(es, k)]
<1>1. IndexOf(es).postings = p /\ IndexOf(es).docTermFreq = f /\ IndexOf(es).docLen = l
  BY DEF IndexOf
<1>2. (i.postings = [t \in Tokens |-> [k \in Keys |-> i.postings[t][k]]] /\
       \A k \in Keys, t \in Tokens :
          i.postings[t][k] = IF Indexed(es, k) THEN Freq(es[k])[t] ELSE 0) <=> i.postings = p
  OBVIOUS
<1>3. (i.docTermFreq = [k \in Keys |-> i.docTermFreq[k]] /\
       \A k \in Keys : i.docTermFreq[k] = IF Indexed(es, k) THEN Freq(es[k]) ELSE Nothing)
         <=> i.docTermFreq = f
  OBVIOUS
<1>4. (i.docLen = [k \in Keys |-> i.docLen[k]] /\ \A k \in Keys : i.docLen[k] = LengthIn(es, k))
         <=> i.docLen = l
  OBVIOUS
<1> HIDE DEF p, f, l
<1> QED BY <1>1, <1>2, <1>3, <1>4 DEF Matches

\* Removing a document gives the index of the entries without it.
LEMMA RemoveExact ==
    ASSUME NEW es \in Entries, NEW k \in Keys, NEW i, Matches(i, es)
    PROVE  Matches(RemoveDoc(i, k), [es EXCEPT ![k] = Nothing])
<1> DEFINE rest == [es EXCEPT ![k] = Nothing]
           n == RemoveDoc(i, k)
<1>1. \A j \in Keys : j # k => /\ rest[j] = es[j]
                              /\ Indexed(rest, j) = Indexed(es, j)
                              /\ LengthIn(rest, j) = LengthIn(es, j)
  BY DEF Entries, Indexed, LengthIn
<1>2. ~Indexed(rest, k) /\ LengthIn(rest, k) = 0
  BY DEF Entries, Indexed, LengthIn
<1>3. CASE ~Indexed(es, k)
  <2>1. n = i
    BY <1>3 DEF RemoveDoc, Matches
  <2>2. LengthIn(es, k) = 0
    BY <1>3 DEF Indexed, LengthIn
  <2> HIDE DEF rest, n
  <2>3. ASSUME NEW j \in Keys
        PROVE  /\ \A t \in Tokens : i.postings[t][j] = IF Indexed(rest, j) THEN Freq(rest[j])[t] ELSE 0
               /\ i.docTermFreq[j] = IF Indexed(rest, j) THEN Freq(rest[j]) ELSE Nothing
               /\ i.docLen[j] = LengthIn(rest, j)
    <3>1. CASE j = k
      BY <3>1, <1>2, <1>3, <2>2 DEF Matches
    <3>2. CASE j # k
      BY <3>2, <1>1 DEF Matches
    <3> QED BY <3>1, <3>2
  <2>4. Matches(i, rest)
    BY <2>3 DEF Matches
  <2> QED BY <2>1, <2>4 DEF rest, n
<1>4. CASE Indexed(es, k)
  <2>1. es[k] \in Entry
    BY <1>4 DEF Entries, Indexed
  <2> DEFINE freq == Freq(es[k])
  <2>2. freq \in [Tokens -> Nat] /\ i.docTermFreq[k] = freq /\ freq # Nothing
    BY <1>4, <2>1, FreqType DEF Matches
  <2>3. \A t \in Tokens : i.postings[t][k] = freq[t]
    BY <1>4 DEF Matches
  <2> HIDE DEF freq
  <2>4. /\ n.postings = [t \in Tokens |-> IF freq[t] > 0 THEN [i.postings[t] EXCEPT ![k] = 0]
                                          ELSE i.postings[t]]
        /\ n.docTermFreq = [i.docTermFreq EXCEPT ![k] = Nothing]
        /\ n.docLen = [i.docLen EXCEPT ![k] = 0]
    BY <2>2 DEF RemoveDoc
  <2> HIDE DEF rest, n
  <2>5. \A t \in Tokens : i.postings[t] = [j \in Keys |-> i.postings[t][j]]
    BY DEF Matches
  <2>6. ASSUME NEW t \in Tokens
        PROVE  /\ n.postings[t] = [j \in Keys |-> n.postings[t][j]]
               /\ n.postings[t][k] = 0
               /\ \A j \in Keys : j # k => n.postings[t][j] = i.postings[t][j]
    <3>1. CASE freq[t] > 0
      <4>1. n.postings[t] = [i.postings[t] EXCEPT ![k] = 0]
        BY <2>4, <3>1
      <4> QED BY <4>1, <2>5
    <3>2. CASE ~(freq[t] > 0)
      <4>1. n.postings[t] = i.postings[t] /\ freq[t] = 0
        BY <2>2, <2>4, <3>2
      <4> QED BY <4>1, <2>3, <2>5
    <3> QED BY <3>1, <3>2
  <2>7. n.postings = [t \in Tokens |-> [j \in Keys |-> n.postings[t][j]]]
    BY <2>4, <2>6
  <2>8. /\ n.docTermFreq = [j \in Keys |-> n.docTermFreq[j]] /\ n.docTermFreq[k] = Nothing
        /\ \A j \in Keys : j # k => n.docTermFreq[j] = i.docTermFreq[j]
    BY <2>4 DEF Matches
  <2>9. /\ n.docLen = [j \in Keys |-> n.docLen[j]] /\ n.docLen[k] = 0
        /\ \A j \in Keys : j # k => n.docLen[j] = i.docLen[j]
    BY <2>4 DEF Matches
  <2>10. ASSUME NEW j \in Keys
         PROVE  /\ \A t \in Tokens : n.postings[t][j] = IF Indexed(rest, j) THEN Freq(rest[j])[t] ELSE 0
                /\ n.docTermFreq[j] = IF Indexed(rest, j) THEN Freq(rest[j]) ELSE Nothing
                /\ n.docLen[j] = LengthIn(rest, j)
    <3>1. CASE j = k
      BY <3>1, <1>2, <2>6, <2>8, <2>9
    <3>2. CASE j # k
      <4>1. /\ \A t \in Tokens : i.postings[t][j] = IF Indexed(es, j) THEN Freq(es[j])[t] ELSE 0
            /\ i.docTermFreq[j] = IF Indexed(es, j) THEN Freq(es[j]) ELSE Nothing
            /\ i.docLen[j] = LengthIn(es, j)
        BY DEF Matches
      <4>2. rest[j] = es[j] /\ Indexed(rest, j) = Indexed(es, j) /\ LengthIn(rest, j) = LengthIn(es, j)
        BY <3>2, <1>1
      <4>3. /\ \A t \in Tokens : n.postings[t][j] = i.postings[t][j]
            /\ n.docTermFreq[j] = i.docTermFreq[j] /\ n.docLen[j] = i.docLen[j]
        BY <3>2, <2>6, <2>8, <2>9
      <4> QED BY <4>1, <4>2, <4>3
    <3> QED BY <3>1, <3>2
  <2>11. Matches(n, rest)
    BY <2>7, <2>8, <2>9, <2>10 DEF Matches
  <2> QED BY <2>11 DEF rest, n
<1> QED BY <1>3, <1>4

\* Adding a document that is not there gives the index of the entries with it.
LEMMA AddExact ==
    ASSUME NEW es \in Entries, NEW k \in Keys, NEW i, Matches(i, es), es[k] = Nothing,
           NEW e \in Entry
    PROVE  Matches(AddDoc(i, k, Freq(e)), [es EXCEPT ![k] = e])
<1> DEFINE more == [es EXCEPT ![k] = e]
           freq == Freq(e)
           n == AddDoc(i, k, freq)
<1>1. \A j \in Keys : j # k => /\ more[j] = es[j]
                              /\ Indexed(more, j) = Indexed(es, j)
                              /\ LengthIn(more, j) = LengthIn(es, j)
  BY DEF Entries, Indexed, LengthIn
<1>2. /\ more[k] = e /\ LengthIn(more, k) = Size(freq)
      /\ Indexed(more, k) <=> Size(freq) # 0
  <2>1. e # Nothing
    BY MemoryAssumption DEF Entry
  <2>2. more[k] = e
    BY DEF Entries
  <2> QED BY <2>1, <2>2 DEF Indexed, LengthIn
<1>3. freq \in [Tokens -> Nat]
  BY FreqType
<1>4. /\ i.docLen[k] = 0 /\ i.docTermFreq[k] = Nothing
      /\ \A t \in Tokens : i.postings[t][k] = 0
  BY DEF Matches, Indexed, LengthIn
<1>5. CASE Size(freq) = 0
  <2>1. n = i
    BY <1>5 DEF AddDoc
  <2> HIDE DEF more, n, freq
  <2>2. ASSUME NEW j \in Keys
        PROVE  /\ \A t \in Tokens : i.postings[t][j] = IF Indexed(more, j) THEN Freq(more[j])[t] ELSE 0
               /\ i.docTermFreq[j] = IF Indexed(more, j) THEN Freq(more[j]) ELSE Nothing
               /\ i.docLen[j] = LengthIn(more, j)
    <3>1. CASE j = k
      BY <3>1, <1>2, <1>4, <1>5
    <3>2. CASE j # k
      BY <3>2, <1>1 DEF Matches
    <3> QED BY <3>1, <3>2
  <2>3. Matches(i, more)
    BY <2>2 DEF Matches
  <2> QED BY <2>1, <2>3 DEF more, n, freq
<1>6. CASE Size(freq) # 0
  <2>1. /\ n.postings = [t \in Tokens |-> IF freq[t] > 0 THEN [i.postings[t] EXCEPT ![k] = freq[t]]
                                          ELSE i.postings[t]]
        /\ n.docTermFreq = [i.docTermFreq EXCEPT ![k] = freq]
        /\ n.docLen = [i.docLen EXCEPT ![k] = Size(freq)]
    BY <1>6 DEF AddDoc
  <2>2. Freq(more[k]) = freq
    BY <1>2
  <2> HIDE DEF more, n, freq
  <2>3. \A t \in Tokens : i.postings[t] = [j \in Keys |-> i.postings[t][j]]
    BY DEF Matches
  <2>4. ASSUME NEW t \in Tokens
        PROVE  /\ n.postings[t] = [j \in Keys |-> n.postings[t][j]]
               /\ n.postings[t][k] = freq[t]
               /\ \A j \in Keys : j # k => n.postings[t][j] = i.postings[t][j]
    <3>1. CASE freq[t] > 0
      <4>1. n.postings[t] = [i.postings[t] EXCEPT ![k] = freq[t]]
        BY <2>1, <3>1
      <4> QED BY <4>1, <2>3
    <3>2. CASE ~(freq[t] > 0)
      <4>1. n.postings[t] = i.postings[t] /\ freq[t] = 0
        BY <1>3, <2>1, <3>2
      <4> QED BY <4>1, <1>4, <2>3
    <3> QED BY <3>1, <3>2
  <2>5. n.postings = [t \in Tokens |-> [j \in Keys |-> n.postings[t][j]]]
    BY <2>1, <2>4
  <2>6. /\ n.docTermFreq = [j \in Keys |-> n.docTermFreq[j]] /\ n.docTermFreq[k] = freq
        /\ \A j \in Keys : j # k => n.docTermFreq[j] = i.docTermFreq[j]
    BY <2>1 DEF Matches
  <2>7. /\ n.docLen = [j \in Keys |-> n.docLen[j]] /\ n.docLen[k] = Size(freq)
        /\ \A j \in Keys : j # k => n.docLen[j] = i.docLen[j]
    BY <2>1 DEF Matches
  <2>8. ASSUME NEW j \in Keys
        PROVE  /\ \A t \in Tokens : n.postings[t][j] = IF Indexed(more, j) THEN Freq(more[j])[t] ELSE 0
               /\ n.docTermFreq[j] = IF Indexed(more, j) THEN Freq(more[j]) ELSE Nothing
               /\ n.docLen[j] = LengthIn(more, j)
    <3>1. CASE j = k
      BY <3>1, <1>2, <1>6, <2>2, <2>4, <2>6, <2>7
    <3>2. CASE j # k
      <4>1. /\ \A t \in Tokens : i.postings[t][j] = IF Indexed(es, j) THEN Freq(es[j])[t] ELSE 0
            /\ i.docTermFreq[j] = IF Indexed(es, j) THEN Freq(es[j]) ELSE Nothing
            /\ i.docLen[j] = LengthIn(es, j)
        BY DEF Matches
      <4>2. more[j] = es[j] /\ Indexed(more, j) = Indexed(es, j) /\ LengthIn(more, j) = LengthIn(es, j)
        BY <3>2, <1>1
      <4>3. /\ \A t \in Tokens : n.postings[t][j] = i.postings[t][j]
            /\ n.docTermFreq[j] = i.docTermFreq[j] /\ n.docLen[j] = i.docLen[j]
        BY <3>2, <2>4, <2>6, <2>7
      <4> QED BY <4>1, <4>2, <4>3
    <3> QED BY <3>1, <3>2
  <2>9. Matches(n, more)
    BY <2>5, <2>6, <2>7, <2>8 DEF Matches
  <2> QED BY <2>9 DEF more, n, freq
<1> QED BY <1>5, <1>6

\* Replacing a document gives the index of the changed entries.
LEMMA UpdateExact ==
    ASSUME NEW es \in Entries, NEW k \in Keys, NEW i, Matches(i, es),
           NEW e \in Entry
    PROVE  Matches(UpdateDoc(i, k, Freq(e)), [es EXCEPT ![k] = e])
<1> DEFINE rest == [es EXCEPT ![k] = Nothing]
<1>1. rest \in Entries /\ rest[k] = Nothing /\ [rest EXCEPT ![k] = e] = [es EXCEPT ![k] = e]
  BY DEF Entries
<1>2. Matches(RemoveDoc(i, k), rest)
  BY RemoveExact
<1> HIDE DEF rest
<1>3. Matches(AddDoc(RemoveDoc(i, k), k, Freq(e)), [rest EXCEPT ![k] = e])
  BY <1>1, <1>2, AddExact
<1> QED BY <1>1, <1>3 DEF UpdateDoc

-----------------------------------------------------------------------------
(* The files.                                                               *)

LEMMA FromFilesIs == FromFiles = Contents(files)
  BY DEF FromFiles, Contents

\* What files in place hold is a set of entries, and a file of a stored key
\* holds an entry of that key if it holds any.
LEMMA ContentsType ==
    ASSUME NEW f, InPlace(f)
    PROVE  /\ Contents(f) \in Entries
           /\ \A k \in Stored : Contents(f)[k] = f[PathOf[k]]
<1>1. \A k \in Keys : PathOf[k] \in Paths
  BY MemoryAssumption
<1>2. Stored \subseteq Keys
  BY DEF Keys
<1>3. Contents(f) \in Entries
  BY <1>1 DEF InPlace, Contents, Entries
<1>4. ASSUME NEW k \in Stored
      PROVE  Contents(f)[k] = f[PathOf[k]]
  <2>1. Contents(f)[k] = IF f[PathOf[k]] # Nothing /\ f[PathOf[k]].key = k
                         THEN f[PathOf[k]] ELSE Nothing
    BY <1>2 DEF Contents
  <2>2. CASE f[PathOf[k]] = Nothing
    BY <2>1, <2>2
  <2>3. CASE f[PathOf[k]] # Nothing
    BY <2>1, <2>3, <1>1, <1>2, MemoryAssumption DEF InPlace
  <2> QED BY <2>2, <2>3
<1> QED BY <1>3, <1>4

\* Writing or removing the file of a stored key changes what the files hold at
\* that key alone: a key that is only looked up may share the file, but no file
\* holds an entry of it.
LEMMA FileChange ==
    ASSUME NEW f, InPlace(f), NEW k \in Stored, NEW e \in Entry \cup {Nothing},
           e # Nothing => e.key = k
    PROVE  /\ InPlace([f EXCEPT ![PathOf[k]] = e])
           /\ Contents([f EXCEPT ![PathOf[k]] = e]) = [Contents(f) EXCEPT ![k] = e]
<1> DEFINE g == [f EXCEPT ![PathOf[k]] = e]
<1>1. k \in Keys /\ \A j \in Keys : PathOf[j] \in Paths
  BY MemoryAssumption DEF Keys
<1>2. f \in [Paths -> Entry \cup {Nothing}]
  BY DEF InPlace
<1>3. g \in [Paths -> Entry \cup {Nothing}] /\ g[PathOf[k]] = e
      /\ \A p \in Paths : p # PathOf[k] => g[p] = f[p]
  BY <1>1, <1>2
<1> HIDE DEF g
<1>4. InPlace(g)
  BY <1>1, <1>3 DEF InPlace
<1>5. ASSUME NEW j \in Keys, j # k
      PROVE  Contents(g)[j] = Contents(f)[j]
  <2>1. /\ Contents(g)[j] = IF g[PathOf[j]] # Nothing /\ g[PathOf[j]].key = j
                            THEN g[PathOf[j]] ELSE Nothing
        /\ Contents(f)[j] = IF f[PathOf[j]] # Nothing /\ f[PathOf[j]].key = j
                            THEN f[PathOf[j]] ELSE Nothing
    BY DEF Contents
  <2>2. CASE PathOf[j] # PathOf[k]
    BY <2>1, <2>2, <1>1, <1>3
  <2>3. CASE PathOf[j] = PathOf[k]
    <3>1. j \notin Stored
      BY <2>3, <1>5, MemoryAssumption
    <3>2. f[PathOf[j]] # Nothing => f[PathOf[j]].key # j
      BY <3>1, <1>1 DEF InPlace
    <3>3. g[PathOf[j]] # Nothing => g[PathOf[j]].key # j
      BY <2>3, <1>3, <1>5
    <3> QED BY <2>1, <3>2, <3>3
  <2> QED BY <2>2, <2>3
<1>6. Contents(g)[k] = e
  BY <1>4, <1>3, ContentsType
<1>7. Contents(g) \in Entries /\ Contents(f) \in Entries
  BY <1>4, ContentsType
<1>8. Contents(g) = [Contents(f) EXCEPT ![k] = e]
  BY <1>5, <1>6, <1>7, <1>1 DEF Entries
<1> QED BY <1>4, <1>8 DEF g

-----------------------------------------------------------------------------
(* The operations of long-term memory.                                      *)

\* SearchSeesFiles, in terms of Contents and Matches.
LEMMA Seen ==
    SearchSeesFiles <=> (loaded => /\ \A k \in Stored : entries[k] = Contents(files)[k]
                                   /\ Matches(idx, Contents(files)))
  BY FromFilesIs, MatchesIs DEF SearchSeesFiles

LEMMA SeenNext ==
    SearchSeesFiles' <=> (loaded' => /\ \A k \in Stored : entries'[k] = Contents(files')[k]
                                     /\ Matches(idx', Contents(files')))
<1>1. FromFiles' = Contents(files')
  BY DEF FromFiles, Contents
<1>2. Matches(idx', FromFiles') <=> /\ idx'.postings = IndexOf(FromFiles').postings
                                   /\ idx'.docTermFreq = IndexOf(FromFiles').docTermFreq
                                   /\ idx'.docLen = IndexOf(FromFiles').docLen
  BY MatchesIs
<1>3. IndexOf(FromFiles)' = IndexOf(FromFiles')
  BY DEF IndexOf, Indexed, LengthIn, Freq, Size
<1> QED BY <1>1, <1>2, <1>3 DEF SearchSeesFiles

\* Loaded or about to be loaded, cache and index are those of the files.
LEMMA Loaded ==
    ASSUME LInv
    PROVE  /\ LoadedEntries \in Entries
           /\ \A k \in Stored : LoadedEntries[k] = Contents(files)[k]
           /\ Matches(LoadedIdx, Contents(files))
<1>1. Contents(files) \in Entries
  BY ContentsType DEF LInv
<1>2. CASE loaded
  BY <1>2, Seen DEF LInv, LoadedEntries, LoadedIdx
<1>3. CASE ~loaded
  <2>1. LoadedEntries = Contents(files) /\ LoadedIdx = IndexOf(Contents(files))
    BY <1>3, FromFilesIs DEF LoadedEntries, LoadedIdx
  <2>2. Matches(IndexOf(Contents(files)), Contents(files))
    BY MatchesIs
  <2> QED BY <1>1, <2>1, <2>2
<1> QED BY <1>2, <1>3

\* A first use that changes nothing leaves cache and index those of the files.
LEMMA LoadKeeps ==
    ASSUME LInv, files' = files, loaded' = TRUE, entries' = LoadedEntries, idx' = LoadedIdx
    PROVE  LInv'
<1>1. (\A k \in Stored : entries'[k] = Contents(files')[k]) /\ Matches(idx', Contents(files'))
  BY Loaded
<1>2. SearchSeesFiles'
  BY <1>1, SeenNext
<1> QED BY <1>2, Loaded DEF LInv

LEMMA StoreKeeps ==
    ASSUME LInv, NEW k \in Stored, NEW v \in Values, NEW w \in BOOLEAN, Store(k, v, w)
    PROVE  LInv'
<1> DEFINE e == MemoryEntry(k, v)
<1>1. k \in Keys
  BY DEF Keys
<1>2. e \in Entry /\ e # Nothing /\ e.key = k
  BY <1>1, EntryIsNot
<1>3. CASE ~w
  BY <1>3, LoadKeeps DEF Store
<1>4. CASE w
  <2>1. /\ files' = [files EXCEPT ![PathOf[k]] = e]
        /\ entries' = [LoadedEntries EXCEPT ![k] = e]
        /\ idx' = UpdateDoc(LoadedIdx, k, Freq(e))
        /\ loaded' = TRUE
    BY <1>4 DEF Store
  <2> HIDE DEF e
  <2>2. InPlace(files') /\ Contents(files') = [Contents(files) EXCEPT ![k] = e]
    BY <2>1, <1>2, FileChange DEF LInv
  <2>3. Contents(files) \in Entries
    BY ContentsType DEF LInv
  <2>4. Matches(idx', Contents(files'))
    BY <1>1, <1>2, <2>1, <2>2, <2>3, Loaded, UpdateExact
  <2>5. \A j \in Stored : entries'[j] = Contents(files')[j]
    BY <1>1, <2>1, <2>2, <2>3, Loaded DEF Entries, Keys
  <2>6. SearchSeesFiles'
    BY <2>4, <2>5, SeenNext
  <2>7. entries' \in Entries
    BY <1>1, <1>2, <2>1, Loaded DEF Entries
  <2> QED BY <2>1, <2>2, <2>6, <2>7 DEF LInv, InPlace
<1> QED BY <1>3, <1>4

LEMMA ForgetKeeps ==
    ASSUME LInv, NEW k \in Stored, NEW w \in BOOLEAN, Forget(k, w)
    PROVE  LInv'
<1>1. k \in Keys
  BY DEF Keys
<1>2. CASE ~(w /\ files[PathOf[k]] # Nothing)
  BY <1>2, LoadKeeps DEF Forget
<1>3. CASE w /\ files[PathOf[k]] # Nothing
  <2>1. /\ files' = [files EXCEPT ![PathOf[k]] = Nothing]
        /\ entries' = [LoadedEntries EXCEPT ![k] = Nothing]
        /\ idx' = RemoveDoc(LoadedIdx, k)
        /\ loaded' = TRUE
    BY <1>3 DEF Forget
  <2>2. InPlace(files') /\ Contents(files') = [Contents(files) EXCEPT ![k] = Nothing]
    BY <2>1, FileChange DEF LInv
  <2>3. Contents(files) \in Entries
    BY ContentsType DEF LInv
  <2>4. Matches(idx', Contents(files'))
    BY <1>1, <2>1, <2>2, <2>3, Loaded, RemoveExact
  <2>5. \A j \in Stored : entries'[j] = Contents(files')[j]
    BY <1>1, <2>1, <2>2, <2>3, Loaded DEF Entries, Keys
  <2>6. SearchSeesFiles'
    BY <2>4, <2>5, SeenNext
  <2>7. entries' \in Entries
    BY <1>1, <2>1, Loaded DEF Entries
  <2> QED BY <2>1, <2>2, <2>6, <2>7 DEF LInv, InPlace
<1> QED BY <1>2, <1>3

\* Recall caches what is in the file under the key asked for, which a stored
\* key has to itself.
LEMMA RecallKeeps ==
    ASSUME LInv, NEW k \in Keys, CanRecall(k), Recall(k)
    PROVE  LInv'
<1>1. files[PathOf[k]] \in Entry /\ files' = files /\ loaded' = loaded /\ idx' = idx
  BY MemoryAssumption DEF LInv, InPlace, CanRecall, Recall
<1>2. CASE ~loaded
  <2>1. entries' = entries
    BY <1>2 DEF Recall
  <2> QED BY <1>1, <1>2, <2>1 DEF LInv, SearchSeesFiles, InPlace
<1>3. CASE loaded
  <2>1. entries' = [entries EXCEPT ![k] = files[PathOf[k]]]
    BY <1>3 DEF Recall
  <2>2. \A j \in Stored : Contents(files)[j] = files[PathOf[j]] /\ entries[j] = Contents(files)[j]
    BY <1>3, ContentsType, Seen DEF LInv
  <2>3. \A j \in Stored : entries'[j] = Contents(files')[j]
    BY <1>1, <2>1, <2>2 DEF LInv, Entries, Keys
  <2>4. Matches(idx', Contents(files'))
    BY <1>1, <1>3, Seen DEF LInv
  <2>5. SearchSeesFiles'
    BY <2>3, <2>4, SeenNext
  <2> QED BY <1>1, <2>1, <2>5 DEF LInv, InPlace, Entries
<1> QED BY <1>2, <1>3

LEMMA NewProcessKeeps ==
    ASSUME LInv, NewProcess, UNCHANGED files
    PROVE  LInv'
  BY DEF LInv, NewProcess, NoEntries, Entries, SearchSeesFiles, InPlace

-----------------------------------------------------------------------------
(* The server's use of it.                                                  *)

\* Beginning and ending an operation of actor a.
LEMMA BeginOK ==
    ASSUME OpsOK, NEW a \in Actors, NEW pc \in {"idle", "store", "recall", "warm", "probe"},
           NEW k \in Keys \cup {Nothing}, NEW v \in Values \cup {Nothing}, Begin(a, pc, k, v),
           pc = "store" => k \in Outcomes /\ v \in Values,
           pc = "recall" => k \in Keys
    PROVE  OpsOK'
<1>1. op' = [op EXCEPT ![a] = [pc |-> pc, key |-> k, value |-> v]] /\ op \in [Actors -> Op]
  BY DEF Begin, OpsOK
<1>2. [pc |-> pc, key |-> k, value |-> v] \in Op
  BY DEF Op
<1>3. op' \in [Actors -> Op] /\ op'[a] = [pc |-> pc, key |-> k, value |-> v]
      /\ \A b \in Actors : b # a => op'[b] = op[b]
  BY <1>1, <1>2
<1>4. "runner" \in Actors
  BY DEF Actors
<1>5. op'["runner"].pc = "store" => op'["runner"].key \in Outcomes /\ op'["runner"].value \in Values
  BY <1>3, <1>4 DEF OpsOK
<1>6. ASSUME NEW b \in Actors, op'[b].pc = "recall"
      PROVE  op'[b].key \in Keys
  BY <1>3, <1>6 DEF OpsOK
<1> QED BY <1>3, <1>5, <1>6 DEF OpsOK

LEMMA EndOK ==
    ASSUME OpsOK, NEW a \in Actors, End(a)
    PROVE  OpsOK'
<1>1. Begin(a, "idle", Nothing, Nothing)
  BY DEF End, Begin, NoOp
<1> QED BY <1>1, BeginOK

\* Init starts with no file, nothing loaded and no operation in progress.
LEMMA MInit == Init => MInv
<1> SUFFICES ASSUME Init PROVE MInv
  OBVIOUS
<1>1. LInv
  BY DEF Init, LongTermInit, LInv, InPlace, NoEntries, Entries, SearchSeesFiles
<1>2. OpsOK
  BY DEF Init, OpsOK, NoOp, Op, Actors
<1> QED BY <1>1, <1>2 DEF MInv

\* Every step keeps the invariant.
LEMMA MStep == MInv /\ [Next]_vars => MInv'
<1> SUFFICES ASSUME MInv, [Next]_vars PROVE MInv'
  OBVIOUS
<1> USE DEF MInv
<1> DEFINE Same == UNCHANGED longTermVars
<1>1. Same => LInv'
  BY DEF longTermVars, LInv, InPlace, SearchSeesFiles, FromFiles
<1>2. UNCHANGED op => OpsOK'
  BY DEF OpsOK
<1>3. Outcomes \subseteq Stored /\ Directives \subseteq Stored /\ Probe \in Stored
      /\ Stored \subseteq Keys /\ "runner" \in Actors /\ Requests \subseteq Actors
      /\ Healthy \in Values
  BY UseAssumption DEF Keys, Actors
<1>4. ASSUME NEW k \in Outcomes, NEW v \in Values, StoreSession(k, v)
      PROVE  MInv'
  <2>1. Begin("runner", "store", k, v) /\ Same
    BY <1>4 DEF StoreSession
  <2>2. OpsOK'
    BY <2>1, <1>3, BeginOK
  <2> QED BY <2>1, <2>2, <1>1
<1>5. ASSUME NEW w \in BOOLEAN, StoreLongTerm(w)
      PROVE  MInv'
  <2>1. op["runner"].key \in Stored /\ op["runner"].value \in Values
        /\ Store(op["runner"].key, op["runner"].value, w) /\ End("runner")
    BY <1>3, <1>5 DEF StoreLongTerm, OpsOK
  <2>2. LInv'
    BY <2>1, StoreKeeps
  <2>3. OpsOK'
    BY <2>1, <1>3, EndOK
  <2> QED BY <2>2, <2>3
<1>6. ASSUME NEW a \in Requests, NEW k \in Keys, RecallMisses(a, k)
      PROVE  MInv'
  <2>1. Begin(a, "recall", k, Nothing) /\ Same
    BY <1>6 DEF RecallMisses
  <2>2. OpsOK'
    BY <2>1, <1>3, BeginOK
  <2> QED BY <2>1, <2>2, <1>1
<1>7. ASSUME NEW a \in Requests, RecallLongTerm(a)
      PROVE  MInv'
  <2> DEFINE k == op[a].key
  <2>1. k \in Keys /\ a \in Actors
    BY <1>3, <1>7 DEF RecallLongTerm, OpsOK
  <2>2. CASE CanRecall(k)
    <3>1. Recall(k) /\ Begin(a, "warm", k, Recalled(k))
      BY <1>7, <2>2 DEF RecallLongTerm
    <3>2. Recalled(k) \in Values
      BY <2>1, <2>2, MemoryAssumption DEF CanRecall, Recalled, LInv, InPlace, Entry
    <3> HIDE DEF k
    <3>3. OpsOK'
      BY <2>1, <3>1, <3>2, BeginOK
    <3>4. LInv'
      BY <2>1, <2>2, <3>1, RecallKeeps
    <3> QED BY <3>3, <3>4
  <2>3. CASE ~CanRecall(k)
    <3>1. End(a) /\ Same
      BY <1>7, <2>3 DEF RecallLongTerm
    <3>2. OpsOK'
      BY <2>1, <3>1, EndOK
    <3> QED BY <3>1, <3>2, <1>1
  <2> QED BY <2>2, <2>3
<1>8. ASSUME NEW a \in Requests, Warm(a)
      PROVE  MInv'
  <2>1. End(a) /\ Same
    BY <1>8 DEF Warm
  <2>2. OpsOK'
    BY <2>1, <1>3, EndOK
  <2> QED BY <2>1, <2>2, <1>1
<1>9. ASSUME NEW d \in Directives, NEW w \in BOOLEAN, RemoveDirective(d, w)
      PROVE  MInv'
  BY <1>2, <1>3, <1>9, ForgetKeeps DEF RemoveDirective
<1>10. ASSUME NEW d \in Directives, NEW v \in Values, NEW w \in BOOLEAN, AddDirective(d, v, w)
       PROVE  MInv'
  BY <1>2, <1>3, <1>10, StoreKeeps DEF AddDirective
<1>11. ASSUME NEW a \in Requests, NEW w \in BOOLEAN, StoreProbe(a, w)
       PROVE  MInv'
  <2>1. Store(Probe, Healthy, w)
        /\ IF w THEN Begin(a, "probe", Probe, Nothing) ELSE UNCHANGED op
    BY <1>11 DEF StoreProbe
  <2>2. LInv'
    BY <2>1, <1>3, StoreKeeps
  <2>3. CASE w
    BY <2>1, <2>2, <2>3, <1>3, BeginOK
  <2>4. CASE ~w
    BY <2>1, <2>2, <2>4, <1>2
  <2> QED BY <2>3, <2>4
<1>12. ASSUME NEW a \in Requests, NEW w \in BOOLEAN, ForgetProbe(a, w)
       PROVE  MInv'
  <2>1. Forget(Probe, w) /\ End(a)
    BY <1>12 DEF ForgetProbe
  <2>2. LInv'
    BY <2>1, <1>3, ForgetKeeps
  <2>3. OpsOK'
    BY <2>1, <1>3, EndOK
  <2> QED BY <2>2, <2>3
<1>13. ASSUME SearchContext
       PROVE  MInv'
  BY <1>2, <1>13, LoadKeeps DEF SearchContext, Search
<1>14. ASSUME Restart
       PROVE  MInv'
  <2>1. LInv'
    BY <1>14, NewProcessKeeps DEF Restart
  <2>2. OpsOK'
    BY <1>14 DEF Restart, OpsOK, NoOp, Op, Actors
  <2> QED BY <2>1, <2>2
<1>15. ASSUME UNCHANGED vars
       PROVE  MInv'
  BY <1>1, <1>2, <1>15 DEF vars, longTermVars
<1> QED BY <1>4, <1>5, <1>6, <1>7, <1>8, <1>9, <1>10, <1>11, <1>12, <1>13, <1>14, <1>15 DEF Next, HandleDirective

\* The invariant holds in every reachable state.
THEOREM MemoryInvariant == Spec => []MInv
<1> QED BY MInit, MStep, PTL DEF Spec

\* What search sees is what is on disk: after any sequence of stores, forgets,
\* failed writes, recalls, health checks and restarts the cache and the index
\* are those a new process would load.
THEOREM SearchIsCurrent == Spec => []SearchSeesFiles
<1>1. MInv => SearchSeesFiles
  BY DEF MInv, LInv
<1> QED BY MemoryInvariant, <1>1, PTL

-----------------------------------------------------------------------------
(* The two tiers, and the probe.                                            *)

\* Where the operations in progress come from: the runner stores, requests recall,
\* warm the session and probe.
PlacesOK ==
    /\ session \in [Keys -> Values \cup {Nothing}]
    /\ op["runner"].pc \in {"idle", "store"}
    /\ \A a \in Requests : op[a].pc # "store"
    /\ \A a \in Requests : op[a].pc = "warm" => op[a].key \in Keys /\ op[a].value \in Values
    /\ \A a \in Requests : op[a].pc = "probe" => op[a].key = Probe

Storing(k) == op["runner"].pc = "store" /\ op["runner"].key = k

\* While an outcome is being stored no request is using it; otherwise the session
\* holds what the file holds, and what a request is about to put there is that too.
Tier(k) ==
    /\ Storing(k) => /\ session[k] = op["runner"].value
                     /\ \A a \in Requests : op[a].pc # "idle" => op[a].key # k
    /\ ~Storing(k) /\ session[k] # Nothing => FromFiles[k] = MemoryEntry(k, session[k])
    /\ \A a \in Requests : op[a].pc = "warm" /\ op[a].key = k =>
           FromFiles[k] = MemoryEntry(k, op[a].value)

TiersOK == \A k \in Outcomes \ apart : Tier(k)

TInv == MInv /\ PlacesOK /\ TiersOK /\ ProbeIsGone

LEMMA ActorsAre ==
  /\ "runner" \in Actors /\ Requests \subseteq Actors /\ "runner" \notin Requests
  /\ Actors = {"runner"} \cup Requests
  /\ Outcomes \subseteq Stored /\ Directives \subseteq Stored /\ Probe \in Stored /\ Stored \subseteq Keys
  /\ Outcomes \cap Directives = {} /\ Probe \notin Outcomes \cup Directives
  /\ Healthy \in Values /\ Nothing \notin Values
BY UseAssumption, MemoryAssumption DEF Actors, Keys

\* An operation on one stored key leaves the files of the others alone.
LEMMA OthersStay ==
  ASSUME LInv, NEW k \in Stored,
         \/ UNCHANGED files
         \/ \E v \in Values, w \in BOOLEAN : Store(k, v, w)
         \/ \E w \in BOOLEAN : Forget(k, w)
  PROVE  \A j \in Stored : j # k => FromFiles'[j] = FromFiles[j]
<1>1. FromFiles' = Contents(files') /\ FromFiles = Contents(files)
  BY DEF FromFiles, Contents
<1>2. CASE files' = files
  BY <1>1, <1>2
<1>3. ASSUME NEW e \in Entry \cup {Nothing}, e # Nothing => e.key = k,
             files' = [files EXCEPT ![PathOf[k]] = e]
      PROVE  \A j \in Stored : j # k => FromFiles'[j] = FromFiles[j]
  <2>1. Contents(files') = [Contents(files) EXCEPT ![k] = e]
    BY <1>3, FileChange DEF LInv
  <2>2. Contents(files) \in [Keys -> Entry \cup {Nothing}]
    BY ContentsType DEF LInv, Entries
  <2> QED BY <1>1, <2>1, <2>2, ActorsAre
<1>4. ASSUME NEW v \in Values, NEW w \in BOOLEAN, Store(k, v, w)
      PROVE  \A j \in Stored : j # k => FromFiles'[j] = FromFiles[j]
  <2>1. MemoryEntry(k, v) \in Entry /\ MemoryEntry(k, v).key = k
    BY ActorsAre, EntryIsNot
  <2>2. files' = files \/ files' = [files EXCEPT ![PathOf[k]] = MemoryEntry(k, v)]
    BY <1>4 DEF Store
  <2> QED BY <1>2, <1>3, <2>1, <2>2
<1>5. ASSUME NEW w \in BOOLEAN, Forget(k, w)
      PROVE  \A j \in Stored : j # k => FromFiles'[j] = FromFiles[j]
  <2>1. files' = files \/ files' = [files EXCEPT ![PathOf[k]] = Nothing]
    BY <1>5 DEF Forget
  <2> QED BY <1>2, <1>3, <2>1
<1> QED BY <1>2, <1>4, <1>5

\* What a write leaves in the file, and a remove.
LEMMA StoredIs ==
  ASSUME LInv, NEW k \in Stored, NEW v \in Values
  PROVE  /\ Store(k, v, TRUE) => FromFiles'[k] = MemoryEntry(k, v)
         /\ Store(k, v, FALSE) => files' = files
         /\ Forget(k, TRUE) => FromFiles'[k] = Nothing
         /\ Forget(k, FALSE) => files' = files
<1>1. FromFiles' = Contents(files') /\ k \in Keys
  BY ActorsAre DEF FromFiles, Contents
<1>2. MemoryEntry(k, v) \in Entry /\ MemoryEntry(k, v) # Nothing /\ MemoryEntry(k, v).key = k
  BY <1>1, EntryIsNot
<1>3. Contents(files) \in [Keys -> Entry \cup {Nothing}]
  BY ContentsType DEF LInv, Entries
<1>4. ASSUME Store(k, v, TRUE) PROVE FromFiles'[k] = MemoryEntry(k, v)
  <2>1. files' = [files EXCEPT ![PathOf[k]] = MemoryEntry(k, v)]
    BY <1>4 DEF Store
  <2>2. Contents(files') = [Contents(files) EXCEPT ![k] = MemoryEntry(k, v)]
    BY <1>2, <2>1, FileChange DEF LInv
  <2> QED BY <1>1, <1>3, <2>2
<1>5. ASSUME Forget(k, TRUE) PROVE FromFiles'[k] = Nothing
  <2>1. CASE files[PathOf[k]] = Nothing
    <3>1. files' = files
      BY <1>5, <2>1 DEF Forget
    <3> QED BY <1>1, <2>1, <3>1 DEF Contents
  <2>2. CASE files[PathOf[k]] # Nothing
    <3>1. files' = [files EXCEPT ![PathOf[k]] = Nothing]
      BY <1>5, <2>2 DEF Forget
    <3>2. Contents(files') = [Contents(files) EXCEPT ![k] = Nothing]
      BY <3>1, FileChange DEF LInv
    <3> QED BY <1>1, <1>3, <3>2
  <2> QED BY <2>1, <2>2
<1> QED BY <1>4, <1>5 DEF Store, Forget

\* The file a stored key recalls is its own.
LEMMA RecalledIs ==
  ASSUME LInv, NEW k \in Stored, CanRecall(k)
  PROVE  FromFiles[k] = MemoryEntry(k, Recalled(k)) /\ Recalled(k) \in Values
<1>1. FromFiles[k] = files[PathOf[k]] /\ k \in Keys
  BY ContentsType, FromFilesIs, ActorsAre DEF LInv
<1>2. files[PathOf[k]] \in Entry
  BY <1>1, MemoryAssumption DEF LInv, InPlace, CanRecall
<1>3. files[PathOf[k]].key = k
  BY <1>1, <1>2 DEF FromFiles, CanRecall
<1> QED BY <1>1, <1>2, <1>3 DEF Entry, MemoryEntry, Recalled

\* The parts of the invariant that a step may disturb, one key or one actor at a time.
LEMMA TierSame ==
  ASSUME NEW k \in Outcomes, Tier(k), FromFiles'[k] = FromFiles[k], session'[k] = session[k],
         op'["runner"] = op["runner"],
         \A a \in Requests : \/ op'[a] = op[a]
                             \/ op'[a].pc # "warm" /\ (op'[a].pc = "idle" \/ op'[a].key # k)
  PROVE  Tier(k)'
BY DEF Tier, Storing

LEMMA GoneSame ==
  ASSUME ProbeIsGone, FromFiles'[Probe] = FromFiles[Probe], Probe \in apart => Probe \in apart',
         \A a \in Actors : op[a].pc = "probe" => op'[a].pc = "probe"
  PROVE  ProbeIsGone'
BY DEF ProbeIsGone

LEMMA SameFiles == longTermVars' = longTermVars \/ files' = files => FromFiles' = FromFiles
BY DEF FromFiles, longTermVars

LEMMA BeginIs ==
  ASSUME OpsOK, NEW a \in Actors, NEW pc, NEW k, NEW v, Begin(a, pc, k, v)
  PROVE  /\ op'[a] = [pc |-> pc, key |-> k, value |-> v]
         /\ \A b \in Actors : b # a => op'[b] = op[b]
BY DEF Begin, OpsOK

LEMMA EndIs ==
  ASSUME OpsOK, NEW a \in Actors, End(a)
  PROVE  /\ op'[a] = NoOp /\ op'[a].pc = "idle" /\ \A b \in Actors : b # a => op'[b] = op[b]
BY DEF End, OpsOK, NoOp

LEMMA TInit == Init => TInv
<1> SUFFICES ASSUME Init PROVE TInv
  OBVIOUS
<1>1. \A a \in Actors : op[a].pc = "idle"
  BY DEF Init, NoOp
<1>2. \A k \in Keys : session[k] = Nothing
  BY DEF Init
<1>3. PlacesOK
  BY <1>1, ActorsAre DEF Init, PlacesOK
<1>4. TiersOK
  BY <1>1, <1>2, ActorsAre DEF TiersOK, Tier, Storing
<1>5. \A k \in Keys : FromFiles[k] = Nothing
  BY MemoryAssumption DEF Init, LongTermInit, FromFiles
<1>6. ProbeIsGone
  BY <1>5, ActorsAre DEF ProbeIsGone
<1> QED BY <1>3, <1>4, <1>6, MInit DEF TInv

LEMMA TStoreSession ==
  ASSUME TInv, NEW j \in Outcomes, NEW v \in Values, StoreSession(j, v)
  PROVE  PlacesOK' /\ TiersOK' /\ ProbeIsGone'
<1>0. /\ OpsOK /\ Begin("runner", "store", j, v) /\ op["runner"].pc = "idle"
      /\ session' = [session EXCEPT ![j] = v] /\ session \in [Keys -> Values \cup {Nothing}]
      /\ j \in Keys /\ Apart(j, Using(j) # {}) /\ FromFiles' = FromFiles
  BY ActorsAre, SameFiles DEF StoreSession, TInv, MInv, PlacesOK, NoOp
<1>1. /\ op'["runner"] = [pc |-> "store", key |-> j, value |-> v]
      /\ \A a \in Requests : op'[a] = op[a]
  BY <1>0, BeginIs, ActorsAre
<1>2. PlacesOK'
  BY <1>0, <1>1 DEF PlacesOK, TInv
<1>3. ASSUME NEW k \in Outcomes \ apart' PROVE Tier(k)'
  <2>0. k \in Outcomes \ apart /\ Tier(k)
    BY <1>0, <1>3 DEF Apart, TInv, TiersOK
  <2>1. CASE k = j
    <3>1. \A a \in Requests : op[a].key # k
      BY <1>0, <1>3, <2>1, ActorsAre DEF Apart, Using
    <3>2. session'[k] = v
      BY <1>0, <2>1
    <3> QED BY <1>1, <2>1, <3>1, <3>2 DEF Tier, Storing
  <2>2. CASE k # j
    <3>1. session'[k] = session[k] /\ ~Storing(k) /\ ~Storing(k)'
      BY <1>0, <1>1, <2>2, ActorsAre DEF Storing
    <3> QED BY <1>0, <1>1, <2>0, <3>1 DEF Tier
  <2> QED BY <2>1, <2>2
<1>4. ProbeIsGone'
  BY <1>0, <1>1, GoneSame, ActorsAre DEF TInv, Apart
<1> QED BY <1>2, <1>3, <1>4 DEF TiersOK

LEMMA TStoreLongTerm ==
  ASSUME TInv, NEW w \in BOOLEAN, StoreLongTerm(w)
  PROVE  PlacesOK' /\ TiersOK' /\ ProbeIsGone'
<1> DEFINE j == op["runner"].key
           v == op["runner"].value
<1>0. /\ OpsOK /\ LInv /\ op["runner"].pc = "store" /\ j \in Outcomes /\ v \in Values
      /\ End("runner") /\ Apart(j, ~w) /\ Store(j, v, w) /\ session' = session
  BY DEF StoreLongTerm, TInv, MInv, OpsOK
<1>1. op'["runner"].pc = "idle" /\ \A a \in Requests : op'[a] = op[a]
  BY <1>0, EndIs, ActorsAre
<1>2. \A k \in Stored : k # j => FromFiles'[k] = FromFiles[k]
  BY <1>0, OthersStay, ActorsAre
<1>3. w => FromFiles'[j] = MemoryEntry(j, v)
  BY <1>0, StoredIs, ActorsAre
<1>4. ASSUME NEW k \in Outcomes \ apart' PROVE Tier(k)'
  <2>0. k \in Outcomes \ apart /\ Tier(k)
    BY <1>0, <1>4 DEF Apart, TInv, TiersOK
  <2>1. CASE k = j
    <3>1. w /\ Storing(k) /\ ~Storing(k)'
      BY <1>0, <1>1, <1>4, <2>1 DEF Apart, Storing
    <3>2. session'[k] = v /\ \A a \in Requests : op[a].pc # "idle" => op[a].key # k
      BY <1>0, <2>0, <3>1 DEF Tier
    <3> QED BY <1>1, <1>3, <2>1, <3>1, <3>2 DEF Tier
  <2>2. CASE k # j
    <3>1. ~Storing(k) /\ ~Storing(k)' /\ FromFiles'[k] = FromFiles[k]
      BY <1>1, <1>2, <2>0, <2>2, ActorsAre DEF Storing
    <3> QED BY <1>0, <1>1, <2>0, <3>1 DEF Tier
  <2> QED BY <2>1, <2>2
<1>5. PlacesOK'
  BY <1>0, <1>1 DEF PlacesOK, TInv
<1>6. ProbeIsGone'
  <2>1. FromFiles'[Probe] = FromFiles[Probe]
    BY <1>0, <1>2, ActorsAre
  <2>2. \A a \in Actors : op[a].pc = "probe" => op'[a].pc = "probe"
    BY <1>0, <1>1, ActorsAre
  <2> QED BY <1>0, <2>1, <2>2, GoneSame DEF TInv, Apart
<1> QED BY <1>4, <1>5, <1>6 DEF TiersOK

LEMMA TRecallMisses ==
  ASSUME TInv, NEW a \in Requests, NEW j \in Keys, RecallMisses(a, j)
  PROVE  PlacesOK' /\ TiersOK' /\ ProbeIsGone'
<1>0. /\ OpsOK /\ a \in Actors /\ a # "runner" /\ Begin(a, "recall", j, Nothing)
      /\ op[a].pc = "idle" /\ session[j] = Nothing /\ session' = session /\ apart' = apart
      /\ FromFiles' = FromFiles
  BY ActorsAre, SameFiles DEF RecallMisses, TInv, MInv, NoOp
<1>1. /\ op'[a] = [pc |-> "recall", key |-> j, value |-> Nothing]
      /\ \A b \in Actors : b # a => op'[b] = op[b]
  BY <1>0, BeginIs
<1>2. PlacesOK'
  BY <1>0, <1>1, ActorsAre DEF PlacesOK, TInv
<1>3. ASSUME NEW k \in Outcomes \ apart' PROVE Tier(k)'
  <2>0. Tier(k)
    BY <1>0, <1>3 DEF TInv, TiersOK
  <2>1. CASE k # j
    BY <1>0, <1>1, <2>0, <2>1, TierSame, ActorsAre
  <2>2. CASE k = j
    <3>1. ~Storing(k)
      BY <1>0, <2>0, <2>2, ActorsAre DEF Tier, Storing, OpsOK
    <3> QED BY <1>0, <1>1, <2>0, <3>1, ActorsAre DEF Tier, Storing
  <2> QED BY <2>1, <2>2
<1>4. ProbeIsGone'
  BY <1>0, <1>1, GoneSame DEF TInv
<1> QED BY <1>2, <1>3, <1>4 DEF TiersOK

LEMMA TRecallLongTerm ==
  ASSUME TInv, NEW a \in Requests, RecallLongTerm(a)
  PROVE  PlacesOK' /\ TiersOK' /\ ProbeIsGone'
<1> DEFINE j == op[a].key
<1>0. /\ OpsOK /\ LInv /\ a \in Actors /\ a # "runner" /\ op[a].pc = "recall" /\ j \in Keys
      /\ session' = session /\ apart' = apart
  BY ActorsAre DEF RecallLongTerm, TInv, MInv, OpsOK
<1>1. FromFiles' = FromFiles
  BY SameFiles DEF RecallLongTerm, Recall, longTermVars
<1>2. \A b \in Actors : b # a => op'[b] = op[b]
  BY <1>0, BeginIs, EndIs DEF RecallLongTerm
<1>3. \/ op'[a].pc = "idle"
      \/ CanRecall(j) /\ op'[a] = [pc |-> "warm", key |-> j, value |-> Recalled(j)]
  BY <1>0, BeginIs, EndIs DEF RecallLongTerm
<1>4. CanRecall(j) => Recalled(j) \in Values
  BY <1>0, MemoryAssumption DEF CanRecall, Recalled, LInv, InPlace, Entry
<1>5. PlacesOK'
  BY <1>0, <1>2, <1>3, <1>4, ActorsAre DEF PlacesOK, TInv
<1>6. ASSUME NEW k \in Outcomes \ apart' PROVE Tier(k)'
  <2>0. Tier(k) /\ k \in Stored
    BY <1>0, <1>6, ActorsAre DEF TInv, TiersOK
  <2>1. CASE op'[a].pc = "idle"
    BY <1>0, <1>1, <1>2, <2>0, <2>1, TierSame, ActorsAre
  <2>2. CASE CanRecall(j) /\ op'[a] = [pc |-> "warm", key |-> j, value |-> Recalled(j)]
    <3>1. k = j => FromFiles[k] = MemoryEntry(k, Recalled(j))
      BY <1>0, <2>0, <2>2, RecalledIs
    <3>2. k = j => ~Storing(k)
      BY <1>0, <2>0 DEF Tier
    <3> QED BY <1>0, <1>1, <1>2, <2>0, <2>2, <3>1, <3>2, ActorsAre DEF Tier, Storing
  <2> QED BY <1>3, <2>1, <2>2
<1>7. ProbeIsGone'
  BY <1>0, <1>1, <1>2, GoneSame DEF TInv
<1> QED BY <1>5, <1>6, <1>7 DEF TiersOK

LEMMA TWarm ==
  ASSUME TInv, NEW a \in Requests, Warm(a)
  PROVE  PlacesOK' /\ TiersOK' /\ ProbeIsGone'
<1> DEFINE j == op[a].key
<1>0. /\ OpsOK /\ a \in Actors /\ a # "runner" /\ op[a].pc = "warm" /\ End(a)
      /\ j \in Keys /\ op[a].value \in Values /\ session \in [Keys -> Values \cup {Nothing}]
      /\ session' = [session EXCEPT ![j] = op[a].value] /\ apart' = apart /\ FromFiles' = FromFiles
  BY ActorsAre, SameFiles DEF Warm, TInv, MInv, PlacesOK
<1>1. op'[a].pc = "idle" /\ \A b \in Actors : b # a => op'[b] = op[b]
  BY <1>0, EndIs
<1>2. PlacesOK'
  BY <1>0, <1>1, ActorsAre DEF PlacesOK, TInv
<1>3. ASSUME NEW k \in Outcomes \ apart' PROVE Tier(k)'
  <2>0. Tier(k) /\ k \in Keys
    BY <1>0, <1>3, ActorsAre DEF TInv, TiersOK
  <2>1. CASE k # j
    <3>1. session'[k] = session[k]
      BY <1>0, <2>0, <2>1
    <3> QED BY <1>0, <1>1, <2>0, <3>1, TierSame, ActorsAre
  <2>2. CASE k = j
    <3>1. /\ ~Storing(k) /\ session'[k] = op[a].value
          /\ FromFiles[k] = MemoryEntry(k, op[a].value)
      BY <1>0, <2>0, <2>2 DEF Tier
    <3> QED BY <1>0, <1>1, <2>0, <3>1, ActorsAre DEF Tier, Storing
  <2> QED BY <2>1, <2>2
<1>4. ProbeIsGone'
  BY <1>0, <1>1, GoneSame DEF TInv
<1> QED BY <1>2, <1>3, <1>4 DEF TiersOK

\* Directives and searches are elsewhere, and the probe is no outcome.
LEMMA TElsewhere ==
  ASSUME TInv, UNCHANGED <<session, op, apart>>,
         \/ \E w \in BOOLEAN : HandleDirective(w)
         \/ SearchContext
         \/ UNCHANGED vars
  PROVE  PlacesOK' /\ TiersOK' /\ ProbeIsGone'
<1>1. \A k \in Outcomes \cup {Probe} : FromFiles'[k] = FromFiles[k]
  <2>1. ASSUME NEW w \in BOOLEAN, NEW d \in Directives,
               Forget(d, w) \/ \E v \in Values : Store(d, v, w)
        PROVE  \A k \in Outcomes \cup {Probe} : FromFiles'[k] = FromFiles[k]
    BY <2>1, OthersStay, ActorsAre DEF TInv, MInv
  <2>2. ASSUME files' = files PROVE FromFiles' = FromFiles
    BY <2>2, SameFiles
  <2> QED BY <2>1, <2>2 DEF HandleDirective, AddDirective, RemoveDirective, SearchContext, Search, vars
<1>2. \A k \in Outcomes \ apart' : Tier(k)'
  BY <1>1, TierSame, ActorsAre DEF TInv, TiersOK
<1>3. ProbeIsGone'
  BY <1>1, GoneSame DEF TInv
<1> QED BY <1>2, <1>3 DEF TiersOK, PlacesOK, TInv

LEMMA TProbe ==
  ASSUME TInv, NEW a \in Requests, NEW w \in BOOLEAN, StoreProbe(a, w) \/ ForgetProbe(a, w)
  PROVE  PlacesOK' /\ TiersOK' /\ ProbeIsGone'
<1>0. /\ OpsOK /\ LInv /\ a \in Actors /\ a # "runner" /\ session' = session /\ apart \subseteq apart'
      /\ \/ Store(Probe, Healthy, w)
         \/ Forget(Probe, w)
  BY ActorsAre DEF StoreProbe, ForgetProbe, TInv, MInv, Apart
<1>1. \A k \in Outcomes : FromFiles'[k] = FromFiles[k]
  BY <1>0, OthersStay, ActorsAre
<1>2. /\ \A b \in Actors : b # a => op'[b] = op[b]
      /\ \/ op'[a].pc = "idle" \/ op'[a] = op[a]
         \/ op'[a] = [pc |-> "probe", key |-> Probe, value |-> Nothing]
  BY <1>0, BeginIs, EndIs DEF StoreProbe, ForgetProbe
<1>3. PlacesOK'
  BY <1>0, <1>2, ActorsAre DEF PlacesOK, TInv
<1>4. ASSUME NEW k \in Outcomes \ apart' PROVE Tier(k)'
  <2>1. Tier(k) /\ k # Probe
    BY <1>0, <1>4, ActorsAre DEF TInv, TiersOK
  <2> QED BY <1>0, <1>1, <1>2, <2>1, TierSame, ActorsAre
<1>5. ProbeIsGone'
  <2>1. CASE StoreProbe(a, w) /\ w
    <3>0. Begin(a, "probe", Probe, Nothing)
      BY <2>1 DEF StoreProbe
    <3>1. op'[a] = [pc |-> "probe", key |-> Probe, value |-> Nothing]
      BY <1>0, <3>0, BeginIs
    <3>2. op'[a].pc = "probe"
      BY <3>1
    <3> QED BY <1>0, <3>2 DEF ProbeIsGone
  <2>2. CASE StoreProbe(a, w) /\ ~w
    <3>1. files' = files /\ op' = op /\ apart' = apart
      BY <2>2, StoredIs, ActorsAre DEF StoreProbe, Store
    <3> QED BY <3>1, SameFiles, GoneSame DEF TInv
  <2>3. CASE ForgetProbe(a, w) /\ w
    <3>1. FromFiles'[Probe] = Nothing
      BY <1>0, <2>3, StoredIs, ActorsAre DEF ForgetProbe
    <3> QED BY <3>1 DEF ProbeIsGone
  <2>4. CASE ForgetProbe(a, w) /\ ~w
    BY <2>4 DEF ForgetProbe, Apart, ProbeIsGone
  <2> QED BY <2>1, <2>2, <2>3, <2>4
<1> QED BY <1>3, <1>4, <1>5 DEF TiersOK

LEMMA TRestart == ASSUME TInv, Restart PROVE PlacesOK' /\ TiersOK' /\ ProbeIsGone'
<1>1. /\ \A a \in Actors : op'[a].pc = "idle"
      /\ \A k \in Keys : session'[k] = Nothing
      /\ FromFiles' = FromFiles
  BY SameFiles DEF Restart, NoOp
<1>2. PlacesOK'
  BY <1>1, ActorsAre DEF Restart, PlacesOK
<1>3. TiersOK'
  BY <1>1, ActorsAre DEF TiersOK, Tier, Storing
<1>4. ProbeIsGone'
  BY <1>1 DEF Restart, TInv, ProbeIsGone
<1> QED BY <1>2, <1>3, <1>4

LEMMA TStep == TInv /\ [Next]_vars => TInv'
<1> SUFFICES ASSUME TInv, [Next]_vars PROVE PlacesOK' /\ TiersOK' /\ ProbeIsGone'
  BY MStep DEF TInv
<1>1. ASSUME NEW w \in BOOLEAN, HandleDirective(w) PROVE UNCHANGED <<session, op, apart>>
  BY <1>1 DEF HandleDirective, AddDirective, RemoveDirective
<1>2. SearchContext \/ UNCHANGED vars => UNCHANGED <<session, op, apart>>
  BY DEF SearchContext, vars
<1> QED BY <1>1, <1>2, TStoreSession, TStoreLongTerm, TRecallMisses, TRecallLongTerm, TWarm, TElsewhere,
           TProbe, TRestart DEF Next

\* Between operations an outcome in the session is the one in its file, for any
\* keys and any number of requests that recall while the run loop stores.
THEOREM TiersAgree == Spec => []SessionIsCurrent
<1>1. TInv => SessionIsCurrent
  <2> SUFFICES ASSUME TInv, NEW k \in Outcomes \ apart, session[k] # Nothing, Using(k) = {}
               PROVE  FromFiles[k] = MemoryEntry(k, session[k])
    BY DEF SessionIsCurrent
  <2>1. ~Storing(k)
    BY ActorsAre DEF Using, Storing
  <2> QED BY <2>1 DEF TInv, TiersOK, Tier
<1> QED BY TInit, TStep, <1>1, PTL DEF Spec

\* However many health checks overlap, the last one to end leaves no probe, unless
\* one could not remove it or was cut short.
THEOREM ProbesAreGone == Spec => []ProbeIsGone
<1>1. TInv => ProbeIsGone
  BY DEF TInv
<1> QED BY TInit, TStep, <1>1, PTL DEF Spec

-----------------------------------------------------------------------------
(* The corpus-wide counts.                                                  *)

LengthsOf(es) == [k \in Keys |-> LengthIn(es, k)]
DocsIn(es) == {k \in Keys : Indexed(es, k)}

\* An index is one whole record with the counts of a set of entries.
Counted(i, es) ==
    /\ i.totalLen = SumFunction(LengthsOf(es))
    /\ i.docCount = Cardinality(DocsIn(es))
    /\ i = [postings |-> i.postings, docTermFreq |-> i.docTermFreq, docLen |-> i.docLen,
            totalLen |-> i.totalLen, docCount |-> i.docCount]

LEMMA WholeIndex == ASSUME NEW es PROVE Matches(IndexOf(es), es) /\ Counted(IndexOf(es), es)
<1>1. Matches(IndexOf(es), es)
  BY MatchesIs
<1>2. /\ IndexOf(es).totalLen = SumFunction(LengthsOf(es))
      /\ IndexOf(es).docCount = Cardinality(DocsIn(es))
  BY DEF IndexOf, LengthsOf, DocsIn
<1>3. IndexOf(es) = [postings |-> IndexOf(es).postings, docTermFreq |-> IndexOf(es).docTermFreq,
                     docLen |-> IndexOf(es).docLen, totalLen |-> IndexOf(es).totalLen,
                     docCount |-> IndexOf(es).docCount]
  BY DEF IndexOf
<1> QED BY <1>1, <1>2, <1>3 DEF Counted

LEMMA WholeIs == ASSUME NEW i, NEW es, Matches(i, es), Counted(i, es) PROVE i = IndexOf(es)
<1> DEFINE j == IndexOf(es)
<1>1. Counted(j, es)
  BY WholeIndex
<1>2. i.postings = j.postings /\ i.docTermFreq = j.docTermFreq /\ i.docLen = j.docLen
  BY MatchesIs
<1> HIDE DEF j
<1>3. i.totalLen = j.totalLen /\ i.docCount = j.docCount
  BY <1>1 DEF Counted
<1>4. i = j
  BY <1>1, <1>2, <1>3 DEF Counted
<1> QED BY <1>4 DEF j

\* The length of a document is a number.
LEMMA SizeIs == ASSUME NEW freq \in [Tokens -> Nat] PROVE Size(freq) \in Nat
<1>1. IsFiniteSet(Tokens)
  BY MemoryAssumption
<1> QED BY <1>1, SumType DEF Size

LEMMA LengthsAre ==
    ASSUME NEW es \in Entries
    PROVE  /\ LengthsOf(es) \in [Keys -> Nat] /\ SumFunction(LengthsOf(es)) \in Nat
           /\ IsFiniteSet(DocsIn(es)) /\ Cardinality(DocsIn(es)) \in Nat
<1>1. IsFiniteSet(Keys)
  BY MemoryAssumption
<1>2. ASSUME NEW k \in Keys PROVE LengthIn(es, k) \in Nat
  <2>1. CASE es[k] = Nothing
    BY <2>1 DEF LengthIn
  <2>2. CASE es[k] # Nothing
    <3>1. es[k] \in Entry
      BY <2>2 DEF Entries
    <3>2. Size(Freq(es[k])) \in Nat
      BY <3>1, FreqType, SizeIs
    <3> QED BY <2>2, <3>2 DEF LengthIn
  <2> QED BY <2>1, <2>2
<1>3. LengthsOf(es) \in [Keys -> Nat]
  BY <1>2 DEF LengthsOf
<1>4. DocsIn(es) \in SUBSET Keys
  BY DEF DocsIn
<1> QED BY <1>1, <1>3, <1>4, SumType, FS_Subset, FS_CardinalityType

\* What a change of the entry of one key does to the counts.
LEMMA CountsChange ==
    ASSUME NEW es \in Entries, NEW k \in Keys, NEW e \in Entry \cup {Nothing}
    PROVE  LET new == [es EXCEPT ![k] = e]
           IN  /\ new \in Entries
               /\ SumFunction(LengthsOf(new)) = SumFunction(LengthsOf(es)) - LengthIn(es, k) + LengthIn(new, k)
               /\ DocsIn(new) = IF Indexed(new, k) THEN DocsIn(es) \cup {k} ELSE DocsIn(es) \ {k}
               /\ LengthIn(new, k) = IF e = Nothing THEN 0 ELSE Size(Freq(e))
               /\ Indexed(new, k) <=> e # Nothing /\ Size(Freq(e)) # 0
<1> DEFINE new == [es EXCEPT ![k] = e]
<1>1. new \in Entries /\ new[k] = e /\ \A j \in Keys : j # k => new[j] = es[j]
  BY DEF Entries
<1> HIDE DEF new
<1>2. \A j \in Keys : j # k => LengthIn(new, j) = LengthIn(es, j) /\ Indexed(new, j) = Indexed(es, j)
  BY <1>1 DEF LengthIn, Indexed
<1>3. LengthsOf(es) \in [Keys -> Nat] /\ LengthsOf(new) \in [Keys -> Nat]
  BY <1>1, LengthsAre
<1>4. \A j \in Keys : LengthsOf(es)[j] = LengthIn(es, j) /\ LengthsOf(new)[j] = LengthIn(new, j)
  BY DEF LengthsOf
<1>5. \A j \in Keys : j # k => LengthsOf(new)[j] = LengthsOf(es)[j]
  BY <1>2, <1>4
<1>6. IsFiniteSet(Keys)
  BY MemoryAssumption
<1>7. SumFunction(LengthsOf(new)) = SumFunction(LengthsOf(es)) - LengthsOf(es)[k] + LengthsOf(new)[k]
  BY <1>3, <1>5, <1>6, SumChanges
<1>8. DocsIn(new) = IF Indexed(new, k) THEN DocsIn(es) \cup {k} ELSE DocsIn(es) \ {k}
  BY <1>2 DEF DocsIn
<1>9. /\ LengthIn(new, k) = IF e = Nothing THEN 0 ELSE Size(Freq(e))
      /\ Indexed(new, k) <=> e # Nothing /\ Size(Freq(e)) # 0
  BY <1>1 DEF LengthIn, Indexed
<1> QED BY <1>1, <1>4, <1>7, <1>8, <1>9 DEF new

\* Removing a document leaves the counts of the entries without it.
LEMMA RemoveCounts ==
    ASSUME NEW es \in Entries, NEW k \in Keys, NEW i, Matches(i, es), Counted(i, es)
    PROVE  Counted(RemoveDoc(i, k), [es EXCEPT ![k] = Nothing])
<1> DEFINE rest == [es EXCEPT ![k] = Nothing]
           n == RemoveDoc(i, k)
<1>1. /\ rest \in Entries
      /\ SumFunction(LengthsOf(rest)) = SumFunction(LengthsOf(es)) - LengthIn(es, k) + LengthIn(rest, k)
      /\ DocsIn(rest) = IF Indexed(rest, k) THEN DocsIn(es) \cup {k} ELSE DocsIn(es) \ {k}
      /\ LengthIn(rest, k) = 0 /\ ~Indexed(rest, k)
  BY CountsChange
<1>2. /\ i.docTermFreq[k] = IF Indexed(es, k) THEN Freq(es[k]) ELSE Nothing
      /\ i.docLen[k] = LengthIn(es, k)
  BY DEF Matches
<1>3. SumFunction(LengthsOf(es)) \in Nat /\ LengthIn(es, k) \in Nat
  BY LengthsAre DEF LengthsOf
<1>4. CASE ~Indexed(es, k)
  <2>1. n = i
    BY <1>2, <1>4 DEF RemoveDoc
  <2>2. LengthIn(es, k) = 0 /\ k \notin DocsIn(es)
    BY <1>4 DEF Indexed, LengthIn, DocsIn
  <2> HIDE DEF rest, n
  <2>3. DocsIn(rest) = DocsIn(es) /\ SumFunction(LengthsOf(rest)) = SumFunction(LengthsOf(es))
    BY <1>1, <1>3, <2>2
  <2>4. Counted(n, rest)
    BY <2>1, <2>3 DEF Counted
  <2> QED BY <2>4 DEF rest, n
<1>5. CASE Indexed(es, k)
  <2>1. es[k] \in Entry
    BY <1>5 DEF Entries, Indexed
  <2>2. i.docTermFreq[k] # Nothing
    BY <1>2, <1>5, <2>1, FreqType
  <2>3. /\ n.totalLen = i.totalLen - i.docLen[k] /\ n.docCount = i.docCount - 1
        /\ n = [postings |-> n.postings, docTermFreq |-> n.docTermFreq, docLen |-> n.docLen,
                totalLen |-> n.totalLen, docCount |-> n.docCount]
    BY <2>2 DEF RemoveDoc
  <2>4. Cardinality(DocsIn(es) \ {k}) = Cardinality(DocsIn(es)) - 1
    <3>1. k \in DocsIn(es)
      BY <1>5 DEF DocsIn
    <3> QED BY <3>1, LengthsAre, FS_RemoveElement
  <2> HIDE DEF rest, n
  <2>5. n.totalLen = SumFunction(LengthsOf(rest))
    BY <1>1, <1>2, <1>3, <2>3 DEF Counted
  <2>6. n.docCount = Cardinality(DocsIn(rest))
    BY <1>1, <2>3, <2>4 DEF Counted
  <2>7. Counted(n, rest)
    BY <2>3, <2>5, <2>6 DEF Counted
  <2> QED BY <2>7 DEF rest, n
<1> QED BY <1>4, <1>5

\* Adding one that is not there leaves the counts of the entries with it.
LEMMA AddCounts ==
    ASSUME NEW es \in Entries, NEW k \in Keys, NEW i, Counted(i, es), es[k] = Nothing, NEW e \in Entry
    PROVE  Counted(AddDoc(i, k, Freq(e)), [es EXCEPT ![k] = e])
<1> DEFINE more == [es EXCEPT ![k] = e]
           n == AddDoc(i, k, Freq(e))
<1>1. e # Nothing
  BY MemoryAssumption DEF Entry
<1>2. /\ more \in Entries
      /\ SumFunction(LengthsOf(more)) = SumFunction(LengthsOf(es)) - LengthIn(es, k) + LengthIn(more, k)
      /\ DocsIn(more) = IF Indexed(more, k) THEN DocsIn(es) \cup {k} ELSE DocsIn(es) \ {k}
      /\ LengthIn(more, k) = Size(Freq(e))
      /\ Indexed(more, k) <=> Size(Freq(e)) # 0
  BY <1>1, CountsChange
<1>3. LengthIn(es, k) = 0 /\ k \notin DocsIn(es)
  BY DEF LengthIn, DocsIn, Indexed
<1>4. SumFunction(LengthsOf(es)) \in Nat /\ Size(Freq(e)) \in Nat
  BY LengthsAre, FreqType, SizeIs
<1>5. CASE Size(Freq(e)) = 0
  <2>1. n = i
    BY <1>5 DEF AddDoc
  <2> HIDE DEF more, n
  <2>2. DocsIn(more) = DocsIn(es) /\ SumFunction(LengthsOf(more)) = SumFunction(LengthsOf(es))
    BY <1>2, <1>3, <1>4, <1>5
  <2>3. Counted(n, more)
    BY <2>1, <2>2 DEF Counted
  <2> QED BY <2>3 DEF more, n
<1>6. CASE Size(Freq(e)) # 0
  <2>1. /\ n.totalLen = i.totalLen + Size(Freq(e)) /\ n.docCount = i.docCount + 1
        /\ n = [postings |-> n.postings, docTermFreq |-> n.docTermFreq, docLen |-> n.docLen,
                totalLen |-> n.totalLen, docCount |-> n.docCount]
    BY <1>6 DEF AddDoc
  <2>2. Cardinality(DocsIn(es) \cup {k}) = Cardinality(DocsIn(es)) + 1
    BY <1>3, LengthsAre, FS_AddElement
  <2> HIDE DEF more, n
  <2>3. n.totalLen = SumFunction(LengthsOf(more))
    BY <1>2, <1>3, <1>4, <2>1 DEF Counted
  <2>4. n.docCount = Cardinality(DocsIn(more))
    BY <1>2, <1>6, <2>1, <2>2 DEF Counted
  <2>5. Counted(n, more)
    BY <2>1, <2>3, <2>4 DEF Counted
  <2> QED BY <2>5 DEF more, n
<1> QED BY <1>5, <1>6

\* The operators of the index, exactly: adding, replacing and removing a document of the
\* index of some entries gives the index of the entries after the change.
LEMMA IndexFollows ==
    ASSUME NEW es \in Entries, NEW k \in Keys
    PROVE  /\ RemoveDoc(IndexOf(es), k) = IndexOf([es EXCEPT ![k] = Nothing])
           /\ \A e \in Entry : UpdateDoc(IndexOf(es), k, Freq(e)) = IndexOf([es EXCEPT ![k] = e])
<1> DEFINE i == IndexOf(es)
           rest == [es EXCEPT ![k] = Nothing]
<1>1. Matches(i, es) /\ Counted(i, es)
  BY WholeIndex
<1>2. rest \in Entries /\ rest[k] = Nothing
  BY DEF Entries
<1> HIDE DEF i
<1>3. Matches(RemoveDoc(i, k), rest) /\ Counted(RemoveDoc(i, k), rest)
  BY <1>1, RemoveExact, RemoveCounts
<1>4. RemoveDoc(i, k) = IndexOf(rest)
  BY <1>3, WholeIs
<1>5. ASSUME NEW e \in Entry
      PROVE  UpdateDoc(i, k, Freq(e)) = IndexOf([es EXCEPT ![k] = e])
  <2>1. [rest EXCEPT ![k] = e] = [es EXCEPT ![k] = e]
    BY DEF Entries
  <2> HIDE DEF rest
  <2>2. Counted(AddDoc(RemoveDoc(i, k), k, Freq(e)), [rest EXCEPT ![k] = e])
    BY <1>2, <1>3, AddCounts
  <2>3. Matches(UpdateDoc(i, k, Freq(e)), [es EXCEPT ![k] = e])
    BY <1>1, UpdateExact
  <2>4. Counted(UpdateDoc(i, k, Freq(e)), [es EXCEPT ![k] = e])
    BY <2>1, <2>2 DEF UpdateDoc
  <2> QED BY <2>3, <2>4, WholeIs
<1> QED BY <1>4, <1>5 DEF i, rest

LEMMA IndexTyped == ASSUME NEW es \in Entries PROVE IndexOf(es) \in Index
<1>1. ASSUME NEW k \in Keys, Indexed(es, k) PROVE Freq(es[k]) \in [Tokens -> Nat]
  <2>1. es[k] \in Entry
    BY <1>1 DEF Entries, Indexed
  <2> QED BY <2>1, FreqType
<1>2. IndexOf(es).postings \in [Tokens -> [Keys -> Nat]]
  <2>1. \A t \in Tokens, k \in Keys : (IF Indexed(es, k) THEN Freq(es[k])[t] ELSE 0) \in Nat
    BY <1>1
  <2> QED BY <2>1 DEF IndexOf
<1>3. IndexOf(es).docTermFreq \in [Keys -> [Tokens -> Nat] \cup {Nothing}]
  BY <1>1 DEF IndexOf
<1>4. IndexOf(es).docLen \in [Keys -> Nat] /\ IndexOf(es).totalLen \in Nat
  BY LengthsAre DEF IndexOf, LengthsOf
<1>5. IndexOf(es).docCount \in Nat
  BY LengthsAre DEF IndexOf, DocsIn
<1>6. Counted(IndexOf(es), es)
  BY WholeIndex
<1> QED BY <1>2, <1>3, <1>4, <1>5, <1>6 DEF Counted, Index

-----------------------------------------------------------------------------
(* The index is the one of the files, counts included.                      *)

IndexOK == idx = IndexOf(IF loaded THEN Contents(files) ELSE NoEntries)

LEMMA IndexLoaded == ASSUME IndexOK PROVE LoadedIdx = IndexOf(Contents(files))
  BY FromFilesIs DEF IndexOK, LoadedIdx

\* The index after a step, of the files after it.
LEMMA IndexNext ==
    ASSUME loaded' = TRUE, idx' = IndexOf(Contents(files'))
    PROVE  IndexOK'
<1>1. IndexOf(Contents(files))' = IndexOf(Contents(files'))
  BY DEF IndexOf, Contents, Indexed, LengthIn, Freq, Size
<1> QED BY <1>1 DEF IndexOK

LEMMA StoreCounts ==
    ASSUME LInv, IndexOK, NEW k \in Stored, NEW v \in Values, NEW w \in BOOLEAN, Store(k, v, w)
    PROVE  IndexOK'
<1> DEFINE e == MemoryEntry(k, v)
<1>1. k \in Keys
  BY DEF Keys
<1>2. e \in Entry /\ e # Nothing /\ e.key = k
  BY <1>1, EntryIsNot
<1>3. loaded' = TRUE /\ LoadedIdx = IndexOf(Contents(files)) /\ Contents(files) \in Entries
  BY IndexLoaded, ContentsType DEF Store, LInv
<1>4. CASE ~w
  <2>1. files' = files /\ idx' = LoadedIdx
    BY <1>4 DEF Store
  <2> QED BY <1>3, <2>1, IndexNext
<1>5. CASE w
  <2>1. files' = [files EXCEPT ![PathOf[k]] = e] /\ idx' = UpdateDoc(LoadedIdx, k, Freq(e))
    BY <1>5 DEF Store
  <2> HIDE DEF e
  <2>2. Contents(files') = [Contents(files) EXCEPT ![k] = e]
    BY <1>2, <2>1, FileChange DEF LInv
  <2>3. \A c \in Entry : UpdateDoc(IndexOf(Contents(files)), k, Freq(c))
                            = IndexOf([Contents(files) EXCEPT ![k] = c])
    BY <1>1, <1>3, IndexFollows
  <2>4. UpdateDoc(IndexOf(Contents(files)), k, Freq(e)) = IndexOf([Contents(files) EXCEPT ![k] = e])
    BY <1>2, <2>3
  <2>5. idx' = IndexOf(Contents(files'))
    BY <1>3, <2>1, <2>2, <2>4
  <2> QED BY <1>3, <2>5, IndexNext
<1> QED BY <1>4, <1>5

LEMMA ForgetCounts ==
    ASSUME LInv, IndexOK, NEW k \in Stored, NEW w \in BOOLEAN, Forget(k, w)
    PROVE  IndexOK'
<1>1. k \in Keys
  BY DEF Keys
<1>2. loaded' = TRUE /\ LoadedIdx = IndexOf(Contents(files)) /\ Contents(files) \in Entries
  BY IndexLoaded, ContentsType DEF Forget, LInv
<1>3. CASE ~(w /\ files[PathOf[k]] # Nothing)
  <2>1. files' = files /\ idx' = LoadedIdx
    BY <1>3 DEF Forget
  <2> QED BY <1>2, <2>1, IndexNext
<1>4. CASE w /\ files[PathOf[k]] # Nothing
  <2>1. files' = [files EXCEPT ![PathOf[k]] = Nothing] /\ idx' = RemoveDoc(LoadedIdx, k)
    BY <1>4 DEF Forget
  <2>2. Contents(files') = [Contents(files) EXCEPT ![k] = Nothing]
    BY <2>1, FileChange DEF LInv
  <2>3. RemoveDoc(IndexOf(Contents(files)), k) = IndexOf([Contents(files) EXCEPT ![k] = Nothing])
    BY <1>1, <1>2, IndexFollows
  <2>4. idx' = IndexOf(Contents(files'))
    BY <1>2, <2>1, <2>2, <2>3
  <2> QED BY <1>2, <2>4, IndexNext
<1> QED BY <1>3, <1>4

\* A step that changes none of them.
LEMMA IndexSame == ASSUME IndexOK, UNCHANGED <<files, loaded, idx>> PROVE IndexOK'
<1>1. UNCHANGED Contents(files)
  BY DEF Contents
<1>2. CASE loaded
  <2>1. IndexOf(Contents(files))' = IndexOf(Contents(files'))
    BY DEF IndexOf, Contents, Indexed, LengthIn, Freq, Size
  <2> QED BY <1>1, <1>2, <2>1 DEF IndexOK
<1>3. CASE ~loaded
  BY <1>3 DEF IndexOK
<1> QED BY <1>2, <1>3

LEMMA IndexStep == ASSUME MInv, IndexOK, [Next]_vars PROVE IndexOK'
<1>1. LInv /\ OpsOK
  BY DEF MInv
<1>2. CASE UNCHANGED longTermVars
  BY <1>2, IndexSame DEF longTermVars
<1>3. ASSUME NEW w \in BOOLEAN, StoreLongTerm(w) PROVE IndexOK'
  <2>1. op["runner"].key \in Stored /\ op["runner"].value \in Values
        /\ Store(op["runner"].key, op["runner"].value, w)
    BY <1>1, <1>3, ActorsAre DEF StoreLongTerm, OpsOK
  <2> QED BY <1>1, <2>1, StoreCounts
<1>4. ASSUME NEW a \in Requests, RecallLongTerm(a) PROVE IndexOK'
  BY <1>2, <1>4, IndexSame DEF RecallLongTerm, Recall
<1>5. ASSUME NEW w \in BOOLEAN, HandleDirective(w) PROVE IndexOK'
  <2>1. PICK d \in Directives : Forget(d, w) \/ \E v \in Values : Store(d, v, w)
    BY <1>5 DEF HandleDirective, RemoveDirective, AddDirective
  <2> QED BY <1>1, <2>1, ActorsAre, StoreCounts, ForgetCounts
<1>6. ASSUME NEW w \in BOOLEAN, NEW a \in Requests, StoreProbe(a, w) \/ ForgetProbe(a, w) PROVE IndexOK'
  BY <1>1, <1>6, ActorsAre, StoreCounts, ForgetCounts DEF StoreProbe, ForgetProbe
<1>7. CASE SearchContext
  <2>1. loaded' = TRUE /\ files' = files /\ idx' = LoadedIdx
    BY <1>7 DEF SearchContext, Search
  <2> QED BY <2>1, IndexLoaded, IndexNext
<1>8. CASE Restart
  BY <1>8 DEF Restart, NewProcess, IndexOK
<1>9. ASSUME NEW k \in Outcomes, NEW v \in Values, StoreSession(k, v) PROVE IndexOK'
  BY <1>2, <1>9 DEF StoreSession
<1>10. ASSUME NEW a \in Requests, NEW k \in Keys, RecallMisses(a, k) PROVE IndexOK'
  BY <1>2, <1>10 DEF RecallMisses
<1>11. ASSUME NEW a \in Requests, Warm(a) PROVE IndexOK'
  BY <1>2, <1>11 DEF Warm
<1>12. CASE UNCHANGED vars
  BY <1>2, <1>12 DEF vars, longTermVars
<1> QED BY <1>3, <1>4, <1>5, <1>6, <1>7, <1>8, <1>9, <1>10, <1>11, <1>12 DEF Next

LEMMA IndexInvariant == Spec => [](TInv /\ IndexOK /\ apart \subseteq Keys)
<1>1. Init => TInv /\ IndexOK /\ apart \subseteq Keys
  BY TInit DEF Init, LongTermInit, IndexOK
<1>2. ASSUME TInv, IndexOK, apart \subseteq Keys, [Next]_vars PROVE (TInv /\ IndexOK /\ apart \subseteq Keys)'
  <2>1. TInv' /\ IndexOK'
    BY <1>2, TStep, IndexStep DEF TInv
  <2>2. apart' \subseteq Keys
    <3>1. ASSUME NEW w \in BOOLEAN, StoreLongTerm(w) PROVE apart' \subseteq Keys
      <4>1. op["runner"].key \in Keys
        BY <1>2, <3>1, ActorsAre DEF StoreLongTerm, TInv, MInv, OpsOK
      <4> QED BY <1>2, <3>1, <4>1 DEF StoreLongTerm, Apart
    <3> QED
      BY <1>2, <3>1, ActorsAre
      DEF Next, vars, StoreSession, RecallMisses, RecallLongTerm, Warm, HandleDirective, AddDirective,
          RemoveDirective, StoreProbe, ForgetProbe, SearchContext, Restart, Apart
  <2> QED BY <2>1, <2>2
<1> QED BY <1>1, <1>2, PTL DEF Spec

\* The corpus-wide counts never drift from a recount of what is on disk, after any
\* sequence of stores, overwrites, forgets, failed writes and restarts and for documents
\* of any length (index.go add and remove add to them and subtract from them).
THEOREM CountsAreKept == Spec => []CountsDoNotDrift
<1>1. ASSUME IndexOK PROVE CountsDoNotDrift
  <2>1. CASE loaded
    <3>1. idx = IndexOf(FromFiles)
      BY <1>1, <2>1, FromFilesIs DEF IndexOK
    <3> QED BY <3>1 DEF CountsDoNotDrift, IndexOf
  <2> QED BY <2>1 DEF CountsDoNotDrift
<1> QED BY <1>1, IndexInvariant, PTL

\* Types; that no count falls below 0, although documents are subtracted from it, is
\* because it is the count of the documents there are.
THEOREM TypeCorrect == Spec => []TypeOK
<1>1. ASSUME TInv, IndexOK, apart \subseteq Keys PROVE TypeOK
  <2>1. Contents(files) \in Entries /\ NoEntries \in Entries
    BY <1>1, ContentsType DEF TInv, MInv, LInv, NoEntries, Entries
  <2>2. idx \in Index
    BY <1>1, <2>1, IndexTyped DEF IndexOK
  <2>3. LongTermTypeOK
    BY <1>1, <2>2 DEF LongTermTypeOK, TInv, MInv, LInv, InPlace, Entries
  <2> QED BY <1>1, <2>3 DEF TypeOK, TInv, MInv, OpsOK, PlacesOK
<1> QED BY <1>1, IndexInvariant, PTL

-----------------------------------------------------------------------------
(* Loading.                                                                 *)

\* The entries of the first n keys of an order.
FirstOf(es, order, n) ==
    [k \in Keys |-> IF \E i \in 1 .. n : order[i] = k THEN es[k] ELSE Nothing]

\* The index after each of the files of an order has been added.
LoadedBy(load, es, order, n) ==
    /\ load[0] = IndexOf(NoEntries)
    /\ \A i \in 1 .. n : load[i] = AddDoc(load[i - 1], order[i], Freq(es[order[i]]))

LEMMA AddFollows ==
    ASSUME NEW es \in Entries, NEW k \in Keys, es[k] = Nothing, NEW e \in Entry
    PROVE  AddDoc(IndexOf(es), k, Freq(e)) = IndexOf([es EXCEPT ![k] = e])
<1> DEFINE i == IndexOf(es)
<1>1. Matches(i, es) /\ Counted(i, es)
  BY WholeIndex
<1> HIDE DEF i
<1>2. Matches(AddDoc(i, k, Freq(e)), [es EXCEPT ![k] = e])
  BY <1>1, AddExact
<1>3. Counted(AddDoc(i, k, Freq(e)), [es EXCEPT ![k] = e])
  BY <1>1, AddCounts
<1>4. AddDoc(i, k, Freq(e)) = IndexOf([es EXCEPT ![k] = e])
  BY <1>2, <1>3, WholeIs
<1> QED BY <1>4 DEF i

\* loadAll adds the files one by one in the order the directory lists them, each once;
\* the index comes out the same whatever that order is, and it is the one of the entries
\* (long_term.go ensureLoadedLocked, loadAll), for any number of files.
THEOREM LoadOrderDoesNotMatter ==
    ASSUME NEW es \in Entries, NEW n \in Nat, NEW order \in [1 .. n -> Keys],
           \A i, j \in 1 .. n : order[i] = order[j] => i = j,
           \A k \in Keys : es[k] # Nothing <=> \E i \in 1 .. n : order[i] = k,
           NEW load, LoadedBy(load, es, order, n)
    PROVE  load[n] = IndexOf(es)
<1> DEFINE T == {i \in 0 .. n : load[i] # IndexOf(FirstOf(es, order, i))}
<1>1. T = {}
  <2>1. SUFFICES ASSUME T # {} PROVE FALSE
    OBVIOUS
  <2>2. PICK i \in T : \A j \in T : ~(j < i)
    <3>1. T \in SUBSET Nat
      OBVIOUS
    <3> HIDE DEF T
    <3> QED BY <2>1, <3>1, LeastOf
  <2>3. i \in 0 .. n /\ load[i] # IndexOf(FirstOf(es, order, i))
    OBVIOUS
  <2>4. CASE i = 0
    <3>1. FirstOf(es, order, 0) = NoEntries
      BY DEF FirstOf, NoEntries
    <3> QED BY <2>3, <2>4, <3>1 DEF LoadedBy
  <2>5. CASE i # 0
    <3>1. PICK m \in 0 .. n : m = i - 1 /\ i = m + 1 /\ i \in 1 .. n
      BY <2>3, <2>5
    <3>2. load[m] = IndexOf(FirstOf(es, order, m))
      <4>1. m < i
        BY <3>1
      <4> QED BY <2>2, <3>1, <4>1
    <3> DEFINE before == FirstOf(es, order, m)
               k == order[i]
    <3>3. k \in Keys /\ es[k] # Nothing
      BY <3>1
    <3>4. es[k] \in Entry
      BY <3>3 DEF Entries
    <3>5. before \in Entries
      BY DEF FirstOf, Entries
    <3>6. before[k] = Nothing
      <4>1. ~ \E j \in 1 .. m : order[j] = k
        BY <3>1
      <4> QED BY <3>3, <4>1 DEF FirstOf
    <3>7. FirstOf(es, order, i) = [before EXCEPT ![k] = es[k]]
      <4>1. ASSUME NEW l \in Keys, l # k
            PROVE  (\E j \in 1 .. i : order[j] = l) <=> (\E j \in 1 .. m : order[j] = l)
        BY <3>1, <4>1
      <4>2. \E j \in 1 .. i : order[j] = k
        BY <3>1
      <4> DEFINE after == FirstOf(es, order, i)
      <4>3. \A l \in Keys : after[l] = IF \E j \in 1 .. i : order[j] = l THEN es[l] ELSE Nothing
        BY DEF FirstOf
      <4>4. \A l \in Keys : before[l] = IF \E j \in 1 .. m : order[j] = l THEN es[l] ELSE Nothing
        BY DEF FirstOf
      <4>5. after = [l \in Keys |-> after[l]] /\ before = [l \in Keys |-> before[l]]
        BY DEF FirstOf
      <4> HIDE DEF after, before, k
      <4>6. \A l \in Keys : after[l] = IF l = k THEN es[k] ELSE before[l]
        BY <4>1, <4>2, <4>3, <4>4
      <4>7. after = [before EXCEPT ![k] = es[k]]
        BY <3>3, <4>5, <4>6
      <4> QED BY <4>7 DEF after
    <3>8. load[i] = AddDoc(load[m], k, Freq(es[k]))
      BY <3>1 DEF LoadedBy
    <3> HIDE DEF before, k
    <3>9. AddDoc(IndexOf(before), k, Freq(es[k])) = IndexOf([before EXCEPT ![k] = es[k]])
      BY <3>3, <3>4, <3>5, <3>6, AddFollows
    <3>10. load[m] = IndexOf(before)
      BY <3>2 DEF before
    <3> QED BY <2>3, <3>7, <3>8, <3>9, <3>10
  <2> QED BY <2>4, <2>5
<1>2. load[n] = IndexOf(FirstOf(es, order, n))
  BY <1>1
<1>3. FirstOf(es, order, n) = es
  BY DEF FirstOf, Entries
<1> QED BY <1>2, <1>3
=============================================================================
