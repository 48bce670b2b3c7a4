------------------------------ MODULE MCMemory ------------------------------
(* An outcome, a directive, the probe, and a goal whose description becomes *)
(* the file name of the directive.                                          *)
EXTENDS Memory, SequencesExt, TLC

CONSTANTS outcome, rule, alike, good, bad, disk, nginx, r1, r2

MCStored == {outcome, rule, Probe}
MCPathOf == [k \in MCStored \cup {alike} |-> IF k = alike THEN rule ELSE k]

\* Key and value add to a word's count; a document may have few words or none.
MCWords == [k \in MCStored \cup {alike} |-> [v \in {good, bad} |-> [t \in {disk, nginx} |->
    (IF k \in {outcome, rule} /\ t = disk THEN 1 ELSE 0)
  + (IF v = good /\ t = nginx THEN 1 ELSE 0)
  + (IF v = bad /\ k = rule /\ t = disk THEN 1 ELSE 0)]]]

RequestSymmetry == Permutations({r1, r2})

\* Loading adds the files one by one, in the order the directory lists them;
\* the index comes out the same whatever that order is.
Loads(es) ==
    LET keys == {k \in Stored : es[k] # Nothing}
    IN  \A order \in SetToSeqs(keys) :
            FoldLeft(LAMBDA i, k : AddDoc(i, k, Freq(es[k])), IndexOf(NoEntries), order) = IndexOf(es)

ASSUME LoadOrderIsImmaterial ==
    \A f \in [Stored -> Values \cup {Nothing}] :
        Loads([k \in Keys |-> IF k \in Stored /\ f[k] # Nothing THEN MemoryEntry(k, f[k]) ELSE Nothing])
=============================================================================
