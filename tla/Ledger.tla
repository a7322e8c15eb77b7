------------------------------- MODULE Ledger -------------------------------
(***************************************************************************)
(* The append-only JSONL ledger (store.py, FabricLedger) shared by several  *)
(* processes through its lock file.  Every operation holds the lock from    *)
(* verification to its last byte, so it is one step here; what remains is   *)
(* that a write can stop after any byte.                                    *)
(*                                                                          *)
(* A line is whole, whole but for its newline, or torn.  An entry's number  *)
(* stands for its hash linkage too: both come from the count and the last   *)
(* entry that verification returns.  Verification is memoized on the file's *)
(* size and time, which every write changes, so it is the same as reading   *)
(* the file.  A record the ledger has already is not written again; the     *)
(* records of the components modelled here carry the time of the operation  *)
(* or fresh random material, and are always new.  Compaction is an          *)
(* operator's maintenance of the rendezvous ledger and is left out.         *)
(***************************************************************************)
EXTENDS Integers, Sequences

VARIABLE lines      \* the file

Whole == "whole"
NoNewline == "nonewline"
Torn == "torn"
Undecodable == [type |-> "none"]
Ends == {Whole, NoNewline, Torn}

LedgerInit == lines = <<>>

\* The lines a reader can decode (_stream_unlocked skips the others).
Entries == {i \in DOMAIN lines : lines[i].end # Torn}
Records == {lines[i].rec : i \in Entries}

\* No diagnostics: the last line is whole.
Clean == \A i \in DOMAIN lines : i = Len(lines) => lines[i].end = Whole

\* _validate_entry_fast for every line: numbered 1, 2, 3...
Valid == \A i \in DOMAIN lines : lines[i].seq = i

\* Mutant: the diagnostics of a torn tail are not looked at.
VerifiedChainOnly == Valid

\* _verify_unlocked raises on a broken chain, its caller on a damaged tail.
Verified == Clean /\ Valid

\* The lines of a batch of records
NewLines(batch) ==
    [n \in DOMAIN batch |-> [seq |-> Len(lines) + n, rec |-> batch[n], end |-> Whole]]

\* append, append_if, append_many_if once the precondition holds
Write(batch) ==
    /\ Verified
    /\ lines' = lines \o NewLines(batch)

\* The write stops: some lines are in the file, and the last of them is torn,
\* lacks its newline, or is whole.
WriteStops(batch) ==
    /\ Verified
    /\ \E n \in 1..Len(batch), end \in Ends :
          lines' = lines \o [SubSeq(NewLines(batch), 1, n)
                              EXCEPT ![n].end = end,
                                     ![n].rec = IF end = Torn THEN Undecodable ELSE @]

\* recover(repair_truncated_tail=True): a missing newline is added, a torn line
\* is cut off.
Recover ==
    /\ Valid /\ ~Clean
    /\ LET last == Len(lines) IN
       lines' = IF lines[last].end = NoNewline
                THEN [lines EXCEPT ![last].end = Whole]
                ELSE SubSeq(lines, 1, last - 1)

(***************************************************************************)
(* Properties of the file                                                   *)
(***************************************************************************)

\* Whatever writes stopped half way and were repaired, the file verifies: the
\* entries are numbered without a gap and only the last line may be damaged, so
\* that Recover is always enough (store.py:113-183, 250-277).
ChainVerifies ==
    /\ Valid
    /\ \A i \in DOMAIN lines : i < Len(lines) => lines[i].end = Whole

\* "Append immutable records; repair is explicit and only applies to a tail"
\* (store.py:96): an entry that was once readable keeps its place and content.
AppendOnly ==
    [][\A i \in Entries : i \in Entries' /\ lines'[i].rec = lines[i].rec]_lines
=============================================================================
