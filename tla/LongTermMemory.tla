--------------------------- MODULE LongTermMemory ---------------------------
(***************************************************************************)
(* Long-term memory: one JSON file per entry, and a cache of the entries    *)
(* with an inverted index over their words, loaded from the files on first  *)
(* use and kept up to date from then on.  Every operation runs under the    *)
(* one lock and writes by rename, so each is one step here; the index is    *)
(* what a search answers from.                                              *)
(***************************************************************************)
EXTENDS Naturals, FiniteSets, Functions, FiniteSetsExt

CONSTANTS
    Stored,         \* the keys the server stores entries under
    Asked,          \* other keys it looks up: the descriptions of goals
    Values,         \* values, their tags included
    Tokens,         \* words, after tokenize
    Words,          \* per key and value, how often each word is in the document
    Paths, PathOf,  \* file names, and sanitiseKey: the one used for a key
    Nothing         \* no entry, no file, no value

Keys == Stored \cup Asked

ASSUME MemoryAssumption ==
    /\ IsFiniteSet(Keys) /\ IsFiniteSet(Tokens) /\ Stored \cap Asked = {}
    /\ Words \in [Keys -> [Values -> [Tokens -> Nat]]]
    /\ PathOf \in [Keys -> Paths]
    /\ \A j, k \in Stored : PathOf[j] = PathOf[k] => j = k
    /\ Nothing \notin Values \cup [key : Keys, value : Values] \cup [Tokens -> Nat]

VARIABLES
    files,      \* per file name, the entry in that file
    loaded,     \* whether the files have been read in
    entries,    \* the cache: per key, an entry
    idx         \* the inverted index

longTermVars == <<files, loaded, entries, idx>>

Entry == [key : Keys, value : Values]
MemoryEntry(k, v) == [key |-> k, value |-> v]

-----------------------------------------------------------------------------
(* invertedIndex.  A document without words is not indexed at all.          *)

\* Number of words of a document, repetitions included.
Size(freq) == SumFunction(freq)
Freq(e) == Words[e.key][e.value]

Index == [postings : [Tokens -> [Keys -> Nat]],
          docTermFreq : [Keys -> [Tokens -> Nat] \cup {Nothing}],
          docLen : [Keys -> Nat], totalLen : Nat, docCount : Nat]

AddDoc(i, k, freq) ==
    IF Size(freq) = 0 THEN i
    ELSE [postings |-> [t \in Tokens |-> IF freq[t] > 0
                                         THEN [i.postings[t] EXCEPT ![k] = freq[t]]
                                         ELSE i.postings[t]],
          docTermFreq |-> [i.docTermFreq EXCEPT ![k] = freq],
          docLen |-> [i.docLen EXCEPT ![k] = Size(freq)],
          totalLen |-> i.totalLen + Size(freq),
          docCount |-> i.docCount + 1]

\* A removal that counts a document less even when there was none.
MutRemoveDoc(i, k) ==
    IF i.docTermFreq[k] = Nothing THEN [i EXCEPT !.docCount = @ - 1]
    ELSE [postings |-> [t \in Tokens |-> [i.postings[t] EXCEPT ![k] = 0]],
          docTermFreq |-> [i.docTermFreq EXCEPT ![k] = Nothing],
          docLen |-> [i.docLen EXCEPT ![k] = 0],
          totalLen |-> i.totalLen - i.docLen[k],
          docCount |-> i.docCount - 1]

RemoveDoc(i, k) ==
    IF i.docTermFreq[k] = Nothing THEN i
    ELSE [postings |-> [t \in Tokens |-> IF i.docTermFreq[k][t] > 0
                                         THEN [i.postings[t] EXCEPT ![k] = 0]
                                         ELSE i.postings[t]],
          docTermFreq |-> [i.docTermFreq EXCEPT ![k] = Nothing],
          docLen |-> [i.docLen EXCEPT ![k] = 0],
          totalLen |-> i.totalLen - i.docLen[k],
          docCount |-> i.docCount - 1]

\* An update that adds without removing what was indexed before.
MutUpdateDoc(i, k, freq) == AddDoc(i, k, freq)

UpdateDoc(i, k, freq) == AddDoc(RemoveDoc(i, k), k, freq)

\* The index of a set of entries as it should be, entry by entry.
Indexed(es, k) == es[k] # Nothing /\ Size(Freq(es[k])) # 0

LengthIn(es, k) == IF es[k] = Nothing THEN 0 ELSE Size(Freq(es[k]))

IndexOf(es) ==
    [postings |-> [t \in Tokens |-> [k \in Keys |-> IF Indexed(es, k) THEN Freq(es[k])[t] ELSE 0]],
     docTermFreq |-> [k \in Keys |-> IF Indexed(es, k) THEN Freq(es[k]) ELSE Nothing],
     docLen |-> [k \in Keys |-> LengthIn(es, k)],
     totalLen |-> SumFunction([k \in Keys |-> LengthIn(es, k)]),
     docCount |-> Cardinality({k \in Keys : Indexed(es, k)})]

NoEntries == [k \in Keys |-> Nothing]

\* loadAll: the files in the order of the directory, each added to the index.
\* The order makes no difference, so this is the index of what they hold.
FromFiles == [k \in Keys |-> LET e == files[PathOf[k]]
                             IN  IF e # Nothing /\ e.key = k THEN e ELSE Nothing]

\* ensureLoadedLocked: what cache and index are once they have been loaded.
LoadedEntries == IF loaded THEN entries ELSE FromFiles
LoadedIdx == IF loaded THEN idx ELSE IndexOf(FromFiles)

-----------------------------------------------------------------------------
(* The operations, each with the lock held throughout.  A write that fails  *)
(* fails before the rename: the file is as it was.                          *)

Store(k, v, written) ==
    LET e == MemoryEntry(k, v)
    IN  /\ loaded' = TRUE
        /\ IF written
           THEN /\ files' = [files EXCEPT ![PathOf[k]] = e]
                /\ entries' = [LoadedEntries EXCEPT ![k] = e]
                /\ idx' = UpdateDoc(LoadedIdx, k, Freq(e))
           ELSE files' = files /\ entries' = LoadedEntries /\ idx' = LoadedIdx

\* A Forget that leaves the index alone.
MutForget(k, removed) ==
    /\ loaded' = TRUE
    /\ files' = [files EXCEPT ![PathOf[k]] = Nothing]
    /\ entries' = [LoadedEntries EXCEPT ![k] = Nothing]
    /\ idx' = LoadedIdx

Forget(k, removed) ==
    /\ loaded' = TRUE
    /\ IF removed /\ files[PathOf[k]] # Nothing
       THEN /\ files' = [files EXCEPT ![PathOf[k]] = Nothing]
            /\ entries' = [LoadedEntries EXCEPT ![k] = Nothing]
            /\ idx' = RemoveDoc(LoadedIdx, k)
       ELSE files' = files /\ entries' = LoadedEntries /\ idx' = LoadedIdx

\* Recall reads the file whatever the cache says, and caches what it has read
\* under the key it was asked for.
CanRecall(k) == files[PathOf[k]] # Nothing
Recalled(k) == files[PathOf[k]].value

Recall(k) ==
    /\ entries' = IF loaded THEN [entries EXCEPT ![k] = files[PathOf[k]]] ELSE entries
    /\ UNCHANGED <<files, loaded, idx>>

\* Search, SearchByTag and ListDirectives change nothing but load on first use.
Search ==
    /\ ~loaded
    /\ loaded' = TRUE /\ entries' = LoadedEntries /\ idx' = LoadedIdx
    /\ UNCHANGED files

\* A new process over the same files.
NewProcess == loaded' = FALSE /\ entries' = NoEntries /\ idx' = IndexOf(NoEntries)

LongTermInit ==
    /\ files = [p \in Paths |-> Nothing]
    /\ loaded = FALSE /\ entries = NoEntries /\ idx = IndexOf(NoEntries)

-----------------------------------------------------------------------------
LongTermTypeOK ==
    /\ files \in [Paths -> Entry \cup {Nothing}]
    /\ loaded \in BOOLEAN
    /\ entries \in [Keys -> Entry \cup {Nothing}]
    /\ idx \in Index

\* What search sees is what is on disk: once loaded, and after any sequence of
\* stores, overwrites, forgets, failed writes and recalls, cache and postings
\* are those a process that starts now would load, for every key the server
\* stores (ensureLoadedLocked: "no need to ever rescan").
SearchSeesFiles ==
    loaded =>
        /\ \A k \in Stored : entries[k] = FromFiles[k]
        /\ LET fresh == IndexOf(FromFiles)
           IN  /\ idx.postings = fresh.postings
               /\ idx.docTermFreq = fresh.docTermFreq
               /\ idx.docLen = fresh.docLen

\* The corpus-wide counts behind the average document length are kept by adding
\* and subtracting, and never drift from a recount.
CountsDoNotDrift ==
    loaded => /\ idx.totalLen = SumFunction([k \in Keys |-> LengthIn(FromFiles, k)])
              /\ idx.docCount = Cardinality({k \in Keys : Indexed(FromFiles, k)})
=============================================================================
