--------------------------- MODULE Lifecycle_proofs ---------------------------
(***************************************************************************)
(* Theorems of Ledger and Lifecycle, for any processes, authorizations,     *)
(* workers, keys, time to live and file length, and, below, of what becomes *)
(* of an enrolled worker: FleetManager (F).                                 *)
(***************************************************************************)
EXTENDS Lifecycle, LedgerFacts, SequenceTheorems, SequencesExt

AuthorizationSet == [type : {"authorization"}, auth : Auths, expected : Expected, at : Times]
RevokedSet == [type : {"revoked"}, auth : Auths]
ConsumedSet == [type : {"consumed"}, auth : Auths, worker : Workers, req : Requests \cup {None}, at : Times]
RequestSet == [type : {"request"}, req : Requests]
DecisionSet == [type : {"decision"}, req : Requests, worker : Names, verdict : Verdicts, at : Times]
MemberSet ==
    [type : {"member"}, worker : Names, key : Keys, status : {"ENROLLED", "REVOKED"}, req : Requests \cup {None}]
LedgerRecords ==
    AuthorizationSet \cup RevokedSet \cup ConsumedSet \cup RequestSet \cup DecisionSet \cup MemberSet
LineSet == [seq : Nat, rec : LedgerRecords \cup {Undecodable}, end : Ends]

SubmitSet == [kind : {"submit"}, req : Requests, at : Times]
ConsumeSet == [kind : {"consume"}, auth : Auths, worker : Workers, at : Times]
DecideSet == [kind : {"decide"}, req : Requests, worker : Names, verdict : Verdicts, at : Times]
RevokeAuthSet == [kind : {"revoke_authorization"}, auth : Auths]
RevokeWorkerSet == [kind : {"revoke_worker"}, worker : Names, key : Keys]
OpSet == SubmitSet \cup ConsumeSet \cup DecideSet \cup RevokeAuthSet \cup RevokeWorkerSet

-----------------------------------------------------------------------------
(* The invariant.                                                            *)

LedgerTypes ==
    /\ lines \in Seq(LineSet)
    /\ \A i \in DOMAIN lines : lines[i].rec = Undecodable <=> lines[i].end = Torn

ProcTypes == now \in Times /\ op \in [Procs -> OpSet \cup {Idle}]

\* An authorization's identity is new when it is created.
CreatedOnce == \A i, j \in OfType("authorization") : lines[i].rec.auth = lines[j].rec.auth => i = j

\* Only submitted requests are decided, so that their authorization exists.
OpsKnown == \A p \in Procs : op[p].kind = "decide" => op[p].req \in Submitted
DecidedKnown == \A i \in OfType("decision") : lines[i].rec.req \in Submitted

Story == CreatedOnce /\ SingleUse /\ DecisionsAgree /\ OneKey /\ EnrollmentTrail

LedgerInv == LedgerTypes /\ ChainVerifies /\ DecidedKnown /\ Story
Inv == LedgerInv /\ ProcTypes /\ OpsKnown

-----------------------------------------------------------------------------
(* Sequences.                                                                *)

\* A function on 1..n is a sequence of length n.
LEMMA FunctionIsSeq ==
    ASSUME NEW S, NEW n \in Nat, NEW f \in [1..n -> S]
    PROVE  f \in Seq(S) /\ Len(f) = n
<1>1. f \in Seq(S)
    BY SeqDef
<1>2. Len(f) \in Nat /\ DOMAIN f = 1..Len(f) /\ DOMAIN f = 1..n
    BY <1>1, LenProperties
<1> QED BY <1>1, <1>2

\* The entries of a concatenation are those of its parts, in order.
LEMMA ConcatFacts ==
    ASSUME NEW S, NEW s \in Seq(S), NEW t \in Seq(S), NEW c, c = s \o t
    PROVE  /\ c \in Seq(S) /\ Len(s) \in Nat /\ Len(t) \in Nat
           /\ Len(c) = Len(s) + Len(t) /\ DOMAIN c = 1..(Len(s) + Len(t))
           /\ \A i \in 1..Len(s) : c[i] = s[i]
           /\ \A k \in 1..Len(t) : c[Len(s) + k] = t[k]
<1>1. /\ c \in Seq(S) /\ Len(c) = Len(s) + Len(t)
      /\ \A i \in 1..(Len(s) + Len(t)) : c[i] = IF i <= Len(s) THEN s[i] ELSE t[i - Len(s)]
    BY ConcatProperties
<1>2. Len(s) \in Nat /\ Len(t) \in Nat
    BY LenProperties
<1>3. DOMAIN c = 1..Len(c)
    BY <1>1, LenProperties
<1>4. \A i \in 1..Len(s) : c[i] = s[i]
    BY <1>1, <1>2
<1>5. ASSUME NEW k \in 1..Len(t) PROVE c[Len(s) + k] = t[k]
  <2>1. Len(s) + k \in 1..(Len(s) + Len(t)) /\ ~(Len(s) + k <= Len(s)) /\ (Len(s) + k) - Len(s) = k
      BY <1>2
  <2> QED BY <1>1, <2>1
<1> QED BY <1>1, <1>2, <1>3, <1>4, <1>5

-----------------------------------------------------------------------------
(* The file: what a write and a repair do to it.                             *)

NewLine(k, r, e) == [seq |-> k, rec |-> r, end |-> e]

\* The fields of a line, and its type.
LEMMA LineFacts ==
    /\ \A k, r, e : NewLine(k, r, e).seq = k /\ NewLine(k, r, e).rec = r /\ NewLine(k, r, e).end = e
    /\ \A k \in Nat, r \in LedgerRecords \cup {Undecodable}, e \in Ends : NewLine(k, r, e) \in LineSet
BY DEF NewLine, LineSet

\* The lines of b, up to the n-th, are in the file; the n-th ends with e.
Written(b, n, e) ==
    /\ lines' \in Seq(LineSet)
    /\ DOMAIN lines' = 1..(Len(lines) + n) /\ Len(lines') = Len(lines) + n
    /\ \A i \in DOMAIN lines : lines'[i] = lines[i]
    /\ \A k \in 1..n : k # n => lines'[Len(lines) + k] = NewLine(Len(lines) + k, b[k], Whole)
    /\ lines'[Len(lines) + n] = NewLine(Len(lines) + n, IF e = Torn THEN Undecodable ELSE b[n], e)

\* A write, whole or stopped, needs a verified file and adds a prefix of the batch.
LEMMA WriteFacts ==
    ASSUME LedgerTypes, NEW b \in Seq(LedgerRecords), b # <<>>, Write(b) \/ WriteStops(b)
    PROVE  Clean /\ Valid /\ \E n \in 1..Len(b), e \in Ends : Written(b, n, e)
<1> DEFINE L == Len(lines)
           new == NewLines(b)
<1>0. lines \in Seq(LineSet) /\ L \in Nat /\ DOMAIN lines = 1..L
    BY LenProperties DEF LedgerTypes
<1>1. Len(b) \in Nat /\ DOMAIN b = 1..Len(b) /\ Len(b) \in 1..Len(b) /\ \A k \in 1..Len(b) : b[k] \in LedgerRecords
  <2>1. Len(b) \in Nat /\ DOMAIN b = 1..Len(b) /\ b \in [1..Len(b) -> LedgerRecords] /\ Len(b) \in Nat \ {0}
      BY LenProperties, EmptySeq
  <2> QED BY <2>1
<1>2. new = [k \in 1..Len(b) |-> NewLine(L + k, b[k], Whole)]
    BY <1>1 DEF NewLines, NewLine
<1>w. Whole \in Ends /\ Whole # Torn
    BY DEF Ends, Whole, Torn, NoNewline
<1> HIDE DEF NewLine, new
<1>3. /\ new \in Seq(LineSet) /\ Len(new) = Len(b)
      /\ \A k \in 1..Len(b) : new[k] = NewLine(L + k, b[k], Whole)
  <2>1. \A k \in 1..Len(b) : NewLine(L + k, b[k], Whole) \in LineSet
      BY <1>0, <1>1, <1>w, LineFacts
  <2>2. new \in [1..Len(b) -> LineSet]
      BY <1>2, <2>1
  <2> QED BY <1>1, <1>2, <2>2, FunctionIsSeq
<1>4. Clean /\ Valid
    BY DEF Write, WriteStops, Verified
<1>5. CASE Write(b)
  <2>1. lines' = lines \o new
      BY <1>5 DEF Write, new
  <2>2. /\ lines' \in Seq(LineSet) /\ Len(lines') = L + Len(b) /\ DOMAIN lines' = 1..(L + Len(b))
        /\ \A i \in 1..L : lines'[i] = lines[i]
        /\ \A k \in 1..Len(b) : lines'[L + k] = new[k]
    <3>1. lines \in Seq(LineSet) /\ new \in Seq(LineSet)
        BY <1>0, <1>3
    <3>2. /\ lines' \in Seq(LineSet) /\ Len(lines') = L + Len(new) /\ DOMAIN lines' = 1..(L + Len(new))
          /\ \A i \in 1..L : lines'[i] = lines[i]
          /\ \A k \in 1..Len(new) : lines'[L + k] = new[k]
        BY <3>1, <2>1, ConcatFacts
    <3> QED BY <1>3, <3>2
  <2>3. Written(b, Len(b), Whole)
      BY <1>0, <1>1, <1>3, <1>w, <2>2 DEF Written
  <2> QED BY <1>1, <1>4, <1>w, <2>3
<1>6. CASE WriteStops(b)
  <2>1. PICK n \in 1..Len(b), e \in Ends :
           lines' = lines \o [SubSeq(new, 1, n) EXCEPT ![n].end = e, ![n].rec = IF e = Torn THEN Undecodable ELSE @]
      BY <1>6 DEF WriteStops, new
  <2> DEFINE r == IF e = Torn THEN Undecodable ELSE b[n]
             x == NewLine(L + n, r, e)
             cut == SubSeq(new, 1, n)
             s == [cut EXCEPT ![n].end = e, ![n].rec = IF e = Torn THEN Undecodable ELSE @]
  <2>2. x \in LineSet
      BY <1>0, <1>1, LineFacts
  <2>3. cut \in Seq(LineSet) /\ Len(cut) = n /\ DOMAIN cut = 1..n /\ \A k \in 1..n : cut[k] = new[k]
    <3>1. n \in Int /\ 1 <= n /\ n - 1 + 1 = n /\ \A k \in 1..n : k \in 1..Len(new) /\ 1 + k - 1 = k
        BY <1>1, <1>3
    <3>2. \A k \in 1..n : new[k] \in LineSet
        BY <1>3, <3>1, ElementOfSeq
    <3>3. /\ cut \in Seq(LineSet) /\ Len(cut) = IF 1 <= n THEN n - 1 + 1 ELSE 0
          /\ \A k \in 1..(n - 1 + 1) : cut[k] = new[1 + k - 1]
        BY <3>1, <3>2, SubSeqProperties
    <3>4. DOMAIN cut = 1..Len(cut)
        BY <3>3, LenProperties
    <3> HIDE DEF cut
    <3> QED BY <3>1, <3>3, <3>4
  <2>4. cut[n] = [seq |-> L + n, rec |-> b[n], end |-> Whole] /\ n \in DOMAIN cut
    <3>1. cut[n] = new[n] /\ new[n] = NewLine(L + n, b[n], Whole) /\ n \in DOMAIN cut
        BY <1>1, <1>3, <2>3
    <3> QED BY <3>1 DEF NewLine
  <2> HIDE DEF cut
  <2>5. s = [cut EXCEPT ![n] = x]
    <3>1. s = [cut EXCEPT ![n] = [seq |-> L + n, rec |-> r, end |-> e]]
      <4> DEFINE y == [cut[n] EXCEPT !.end = e]
                 z == [y EXCEPT !.rec = IF e = Torn THEN Undecodable ELSE @]
                 m == [cut EXCEPT ![n] = y]
      <4>0. PICK v, f : v = L + n /\ f = b[n]
          OBVIOUS
      <4>1. y = [seq |-> v, rec |-> f, end |-> e]
        <5>1. cut[n] = [seq |-> v, rec |-> f, end |-> Whole]
            BY <2>4, <4>0
        <5> QED BY <5>1
      <4> HIDE DEF y
      <4>2. z = [seq |-> L + n, rec |-> r, end |-> e]
        <5>1. z = [seq |-> v, rec |-> IF e = Torn THEN Undecodable ELSE f, end |-> e]
            BY <4>1
        <5> QED BY <4>0, <5>1
      <4>3. m[n] = y
          BY <2>4
      <4>4. s = [m EXCEPT ![n] = [m[n] EXCEPT !.rec = IF e = Torn THEN Undecodable ELSE @]]
          BY DEF y
      <4>5. s = [m EXCEPT ![n] = z]
          BY <4>3, <4>4
      <4> HIDE DEF z
      <4>6. [m EXCEPT ![n] = z] = [cut EXCEPT ![n] = z]
          OBVIOUS
      <4> QED BY <4>2, <4>5, <4>6
    <3> QED BY <3>1 DEF NewLine
  <2> HIDE DEF x, s, r
  <2>6. s \in Seq(LineSet) /\ Len(s) = n /\ s[n] = x /\ \A k \in 1..n : k # n => s[k] = new[k]
    <3>1. /\ [cut EXCEPT ![n] = x] \in Seq(LineSet) /\ Len([cut EXCEPT ![n] = x]) = Len(cut)
          /\ [cut EXCEPT ![n] = x][n] = x
          /\ \A k \in DOMAIN cut \ {n} : [cut EXCEPT ![n] = x][k] = cut[k]
        BY <2>2, <2>3, <2>4, ExceptFacts
    <3> QED BY <2>3, <2>5, <3>1
  <2>7. lines' = lines \o s
      BY <2>1 DEF s, cut
  <2>8. /\ lines' \in Seq(LineSet) /\ Len(lines') = L + n /\ DOMAIN lines' = 1..(L + n)
        /\ \A i \in 1..L : lines'[i] = lines[i]
        /\ \A k \in 1..n : lines'[L + k] = s[k]
    <3>1. lines \in Seq(LineSet) /\ s \in Seq(LineSet)
        BY <1>0, <2>6
    <3>2. /\ lines' \in Seq(LineSet) /\ Len(lines') = L + Len(s) /\ DOMAIN lines' = 1..(L + Len(s))
          /\ \A i \in 1..L : lines'[i] = lines[i]
          /\ \A k \in 1..Len(s) : lines'[L + k] = s[k]
        BY <3>1, <2>7, ConcatFacts
    <3> QED BY <2>6, <3>2
  <2>9. Written(b, n, e)
    <3>1. \A k \in 1..n : k # n => lines'[L + k] = NewLine(L + k, b[k], Whole)
      <4>1. \A k \in 1..n : k \in 1..Len(b)
          BY <1>1
      <4> QED BY <1>3, <2>6, <2>8, <4>1
    <3>2. lines'[L + n] = NewLine(L + n, IF e = Torn THEN Undecodable ELSE b[n], e)
        BY <2>6, <2>8 DEF x, r
    <3> QED BY <1>0, <2>8, <3>1, <3>2 DEF Written
  <2> QED BY <1>4, <2>9
<1> QED BY <1>5, <1>6
\* The first m records of b are new entries of a file that had no damaged tail.
Appended(b, m) ==
    /\ Len(lines) \in Nat /\ Entries = 1..Len(lines) /\ Entries' = 1..(Len(lines) + m)
    /\ \A i \in Entries : lines'[i].rec = lines[i].rec
    /\ \A k \in 1..m : lines'[Len(lines) + k].rec = b[k]

\* What is left of a torn line is not a record.
LEMMA NoUndecodable == Undecodable \notin LedgerRecords
<1> SUFFICES ASSUME Undecodable \in LedgerRecords PROVE FALSE
    OBVIOUS
<1>1. \A r \in LedgerRecords : r.type \in {"authorization", "revoked", "consumed", "request", "decision", "member"}
    BY DEF LedgerRecords, AuthorizationSet, RevokedSet, ConsumedSet, RequestSet, DecisionSet, MemberSet
<1>2. Undecodable.type = "none"
    BY DEF Undecodable
<1> QED BY <1>1, <1>2

\* A write keeps the file verifiable: the new entries follow the old ones in the
\* order of the batch, and only the last line can be damaged.
LEMMA WriteGrows ==
    ASSUME LedgerTypes, ChainVerifies,
           NEW b \in Seq(LedgerRecords), b # <<>>, Write(b) \/ WriteStops(b)
    PROVE  LedgerTypes' /\ ChainVerifies' /\ \E m \in 0..Len(b) : Appended(b, m)
<1> DEFINE L == Len(lines)
<1>0. lines \in Seq(LineSet) /\ L \in Nat /\ DOMAIN lines = 1..L
    BY LenProperties DEF LedgerTypes
<1>1. Len(b) \in Nat /\ \A k \in 1..Len(b) : b[k] \in LedgerRecords
  <2>1. Len(b) \in Nat /\ b \in [1..Len(b) -> LedgerRecords]
      BY LenProperties
  <2> QED BY <2>1
<1>2. Clean /\ Valid /\ \E n \in 1..Len(b), e \in Ends : Written(b, n, e)
    BY WriteFacts
<1>3. PICK n \in 1..Len(b), e \in Ends : Written(b, n, e)
    BY <1>2
<1>w. Whole # Torn /\ NoNewline # Torn /\ Whole \in Ends
    BY DEF Ends, Whole, Torn, NoNewline
<1>4. \A i \in 1..L : lines[i].end = Whole /\ lines[i].seq = i
  <2> TAKE i \in 1..L
  <2>0. L \in Nat
      BY <1>0
  <2>1. i \in DOMAIN lines /\ (i < L \/ i = L)
    <3>1. i < L \/ i = L
        BY <2>0
    <3> QED BY <1>0, <3>1
  <2>2. i = L => lines[i].end = Whole
      BY <1>2, <2>1 DEF Clean
  <2>3. i < L => lines[i].end = Whole
      BY <2>1 DEF ChainVerifies
  <2> QED BY <1>2, <2>1, <2>2, <2>3 DEF Valid
<1>5. Entries = 1..L
    BY <1>0, <1>4, <1>w DEF Entries
<1>6. DOMAIN lines' = 1..(L + n) /\ Len(lines') = L + n /\ lines' \in Seq(LineSet) /\ \A i \in 1..L : lines'[i] = lines[i]
    BY <1>0, <1>3 DEF Written
<1>7. \A k \in 1..n : k # n => /\ lines'[L + k].seq = L + k
                                /\ lines'[L + k].rec = b[k]
                                /\ lines'[L + k].end = Whole
  <2>1. \A k \in 1..n : k # n => lines'[L + k] = NewLine(L + k, b[k], Whole)
      BY <1>3 DEF Written
  <2> SUFFICES ASSUME NEW k \in 1..n, k # n
               PROVE  /\ lines'[L + k].seq = L + k
                      /\ lines'[L + k].rec = b[k]
                      /\ lines'[L + k].end = Whole
      OBVIOUS
  <2>2. lines'[L + k] = NewLine(L + k, b[k], Whole)
      BY <2>1
  <2> QED BY <2>2, LineFacts
<1>8. /\ lines'[L + n].seq = L + n
      /\ lines'[L + n].rec = (IF e = Torn THEN Undecodable ELSE b[n])
      /\ lines'[L + n].end = e
  <2>1. PICK r : r = IF e = Torn THEN Undecodable ELSE b[n]
      OBVIOUS
  <2>2. lines'[L + n] = NewLine(L + n, r, e)
      BY <1>3, <2>1 DEF Written
  <2> QED BY <2>1, <2>2, LineFacts
<1>9. \A i \in 1..(L + n) : i \in 1..L \/ \E k \in 1..n : i = L + k
  <2> TAKE i \in 1..(L + n)
  <2>1. i \in 1..L \/ (i - L \in 1..n /\ i = L + (i - L))
      BY <1>0
  <2> QED BY <2>1
<1>10. LedgerTypes'
  <2>1. ASSUME NEW i \in 1..(L + n) PROVE lines'[i].rec = Undecodable <=> lines'[i].end = Torn
    <3>1. CASE i \in 1..L
        BY <1>0, <1>6, <3>1 DEF LedgerTypes
    <3>2. ASSUME NEW k \in 1..n, i = L + k, k # n PROVE lines'[i].rec = Undecodable <=> lines'[i].end = Torn
      <4>1. b[k] \in LedgerRecords
          BY <1>1
      <4> QED BY <1>7, <3>2, <4>1, <1>w, NoUndecodable
    <3>3. ASSUME i = L + n PROVE lines'[i].rec = Undecodable <=> lines'[i].end = Torn
      <4>1. b[n] \in LedgerRecords
          BY <1>1
      <4> QED BY <1>8, <3>3, <4>1, NoUndecodable
    <3> QED BY <1>9, <3>1, <3>2, <3>3
  <2> QED BY <1>6, <2>1 DEF LedgerTypes
<1>11. ChainVerifies'
  <2>1. ASSUME NEW i \in 1..(L + n) PROVE lines'[i].seq = i /\ (i < L + n => lines'[i].end = Whole)
    <3>1. CASE i \in 1..L
        BY <1>4, <1>6, <3>1
    <3>2. ASSUME NEW k \in 1..n, i = L + k PROVE lines'[i].seq = i /\ (i < L + n => lines'[i].end = Whole)
      <4>1. CASE k = n
        <5>1. ~(i < L + n)
            BY <1>0, <3>2, <4>1
        <5> QED BY <1>8, <3>2, <4>1, <5>1
      <4>2. CASE k # n
          BY <1>7, <3>2, <4>2
      <4> QED BY <4>1, <4>2
    <3> QED BY <1>9, <3>1, <3>2
  <2> QED BY <1>6, <2>1 DEF ChainVerifies, Valid
<1>12. CASE e = Torn
  <2> DEFINE m == n - 1
  <2>1. m \in 0..Len(b) /\ \A k \in 1..m : k \in 1..n /\ k # n
      BY <1>1
  <2>2. Entries' = 1..(L + m)
    <3>1. Entries' = {i \in 1..(L + n) : lines'[i].end # Torn}
        BY <1>6 DEF Entries
    <3>2. \A i \in 1..(L + n) : lines'[i].end # Torn <=> i # L + n
      <4> TAKE i \in 1..(L + n)
      <4>1. CASE i \in 1..L
          BY <1>0, <1>4, <1>6, <1>w, <4>1
      <4>2. ASSUME NEW k \in 1..n, i = L + k PROVE lines'[i].end # Torn <=> i # L + n
          BY <1>0, <1>7, <1>8, <1>12, <1>w, <4>2
      <4> QED BY <1>9, <4>1, <4>2
    <3> QED BY <1>0, <3>1, <3>2
  <2>3. Appended(b, m)
      BY <1>0, <1>5, <1>6, <1>7, <2>1, <2>2 DEF Appended
  <2> QED BY <1>10, <1>11, <2>1, <2>3
<1>13. CASE e # Torn
  <2>1. Entries' = 1..(L + n)
    <3>1. Entries' = {i \in 1..(L + n) : lines'[i].end # Torn}
        BY <1>6 DEF Entries
    <3>2. \A i \in 1..(L + n) : lines'[i].end # Torn
      <4> TAKE i \in 1..(L + n)
      <4>1. CASE i \in 1..L
          BY <1>0, <1>4, <1>6, <1>w, <4>1
      <4>2. ASSUME NEW k \in 1..n, i = L + k PROVE lines'[i].end # Torn
          BY <1>0, <1>7, <1>8, <1>13, <1>w, <4>2
      <4> QED BY <1>9, <4>1, <4>2
    <3> QED BY <3>1, <3>2
  <2>2. \A k \in 1..n : lines'[L + k].rec = b[k]
      BY <1>7, <1>8, <1>13
  <2>3. Appended(b, n)
      BY <1>0, <1>5, <1>6, <2>1, <2>2 DEF Appended
  <2> QED BY <1>1, <1>10, <1>11, <2>3
<1> QED BY <1>12, <1>13

\* A repair changes no entry: it adds the newline or cuts off what nobody could read.
LEMMA RecoverFacts ==
    ASSUME LedgerTypes, ChainVerifies, Recover
    PROVE  /\ LedgerTypes' /\ ChainVerifies'
           /\ Entries' = Entries /\ \A i \in Entries : lines'[i].rec = lines[i].rec
<1> DEFINE L == Len(lines)
<1>0. lines \in Seq(LineSet) /\ L \in Nat /\ DOMAIN lines = 1..L /\ \A i \in 1..L : lines[i] \in LineSet
  <2>1. lines \in Seq(LineSet) /\ L \in Nat /\ DOMAIN lines = 1..L /\ lines \in [1..L -> LineSet]
      BY LenProperties DEF LedgerTypes
  <2> QED BY <2>1
<1>w. Whole # Torn /\ NoNewline # Torn /\ Whole # NoNewline /\ Ends = {Whole, Torn, NoNewline}
    BY DEF Ends, Whole, Torn, NoNewline
<1>1. L \in 1..L /\ lines[L].end # Whole
    BY <1>0 DEF Recover, Clean
<1>2. \A i \in 1..L : lines[i].seq = i /\ (i < L => lines[i].end = Whole)
    BY <1>0 DEF ChainVerifies, Valid
<1>3. lines[L].end \in Ends
    BY <1>0, <1>1 DEF LineSet
<1>4. CASE lines[L].end = NoNewline
  <2> DEFINE x == [lines[L] EXCEPT !.end = Whole]
  <2>1. x \in LineSet /\ x.seq = lines[L].seq /\ x.rec = lines[L].rec /\ x.end = Whole
      BY <1>0, <1>1, <1>w DEF LineSet
  <2>2. lines' = [lines EXCEPT ![L] = x]
      BY <1>4 DEF Recover
  <2> HIDE DEF x
  <2>3. /\ lines' \in Seq(LineSet) /\ Len(lines') = L /\ DOMAIN lines' = 1..L /\ lines'[L] = x
        /\ \A i \in 1..L : i # L => lines'[i] = lines[i]
    <3>1. L \in DOMAIN lines
        BY <1>0, <1>1
    <3>2. /\ [lines EXCEPT ![L] = x] \in Seq(LineSet) /\ Len([lines EXCEPT ![L] = x]) = L
          /\ DOMAIN [lines EXCEPT ![L] = x] = DOMAIN lines
          /\ [lines EXCEPT ![L] = x][L] = x
          /\ \A j \in DOMAIN lines \ {L} : [lines EXCEPT ![L] = x][j] = lines[j]
        BY <1>0, <2>1, <3>1, ExceptFacts
    <3> QED BY <1>0, <2>2, <3>2
  <2>4. \A i \in 1..L : lines[i].rec = Undecodable <=> lines[i].end = Torn
      BY <1>0 DEF LedgerTypes
  <2>5. \A i \in 1..L : lines'[i].rec = Undecodable <=> lines'[i].end = Torn
      BY <1>1, <1>4, <1>w, <2>1, <2>3, <2>4
  <2>6. Entries' = Entries
    <3>1. \A i \in 1..L : lines'[i].end = Torn <=> lines[i].end = Torn
        BY <1>1, <1>4, <1>w, <2>1, <2>3
    <3> QED BY <1>0, <2>3, <3>1 DEF Entries
  <2>7. \A i \in 1..L : lines'[i].rec = lines[i].rec /\ lines'[i].seq = i /\ (i < L => lines'[i].end = Whole)
      BY <1>1, <1>2, <2>1, <2>3
  <2> QED BY <1>0, <2>3, <2>5, <2>6, <2>7 DEF LedgerTypes, ChainVerifies, Valid, Entries
<1>5. CASE lines[L].end # NoNewline
  <2>0. lines[L].end = Torn
      BY <1>1, <1>3, <1>5, <1>w
  <2>1. lines' = SubSeq(lines, 1, L - 1)
      BY <1>5 DEF Recover
  <2>2. /\ lines' \in Seq(LineSet) /\ Len(lines') = L - 1 /\ DOMAIN lines' = 1..(L - 1)
        /\ \A i \in 1..(L - 1) : lines'[i] = lines[i]
      BY <1>0, <1>1, <2>1
  <2>3. Entries' = Entries /\ Entries = 1..(L - 1)
      BY <1>0, <1>1, <1>2, <1>w, <2>0, <2>2 DEF Entries
  <2>4. LedgerTypes'
      BY <1>0, <2>2 DEF LedgerTypes
  <2>5. ChainVerifies'
      BY <1>0, <1>2, <2>2 DEF ChainVerifies, Valid
  <2> QED BY <2>2, <2>3, <2>4, <2>5
<1> QED BY <1>4, <1>5
-----------------------------------------------------------------------------
(* What a step may do to the entries: keep them and add later ones.          *)

Later ==
    /\ \A i \in Entries : i \in Entries' /\ lines'[i].rec = lines[i].rec
    /\ \A i \in Entries', j \in Entries : i \notin Entries => j < i

\* The entries of each type have the fields of that type.
LEMMA EntryTypes ==
    ASSUME LedgerTypes
    PROVE  /\ Len(lines) \in Nat /\ Entries \subseteq 1..Len(lines) /\ Entries \subseteq Int
           /\ \A t : OfType(t) \subseteq Entries
           /\ \A i \in OfType("authorization") : lines[i].rec \in AuthorizationSet
           /\ \A i \in OfType("consumed") : lines[i].rec \in ConsumedSet
           /\ \A i \in OfType("request") : lines[i].rec \in RequestSet
           /\ \A i \in OfType("decision") : lines[i].rec \in DecisionSet
           /\ \A i \in OfType("member") : lines[i].rec \in MemberSet
<1>1. Len(lines) \in Nat /\ DOMAIN lines = 1..Len(lines) /\ lines \in [1..Len(lines) -> LineSet]
    BY LenProperties DEF LedgerTypes
<1>2. Entries \subseteq 1..Len(lines) /\ Entries \subseteq Int
    BY <1>1 DEF Entries
<1>3. \A i \in Entries : lines[i].rec \in LedgerRecords
  <2> TAKE i \in Entries
  <2>1. lines[i] \in LineSet /\ lines[i].rec # Undecodable
      BY <1>1 DEF Entries, LedgerTypes
  <2> QED BY <2>1 DEF LineSet
<1>4. \A r \in LedgerRecords :
         /\ r.type = "authorization" => r \in AuthorizationSet
         /\ r.type = "consumed" => r \in ConsumedSet
         /\ r.type = "request" => r \in RequestSet
         /\ r.type = "decision" => r \in DecisionSet
         /\ r.type = "member" => r \in MemberSet
    BY DEF LedgerRecords, AuthorizationSet, RevokedSet, ConsumedSet, RequestSet, DecisionSet, MemberSet
<1> QED BY <1>1, <1>2, <1>3, <1>4 DEF OfType

\* No type loses an entry.
LEMMA OfTypeLater ==
    ASSUME Later
    PROVE  \A t : OfType(t) \subseteq OfType(t)' /\ OfType(t) \subseteq Entries
BY DEF Later, OfType

\* An append adds later entries.
LEMMA AppendedIsLater ==
    ASSUME NEW b, NEW m \in Nat, Appended(b, m)
    PROVE  Later
BY DEF Appended, Later

\* Which entries of a type an append adds.
LEMMA AppendedOfType ==
    ASSUME NEW b, NEW m \in Nat, Appended(b, m), NEW t
    PROVE  OfType(t)' = OfType(t) \cup {i \in (Len(lines) + 1)..(Len(lines) + m) : b[i - Len(lines)].type = t}
<1> DEFINE L == Len(lines)
<1>1. /\ L \in Nat /\ Entries = 1..L /\ Entries' = 1..(L + m)
      /\ \A i \in 1..L : lines'[i].rec = lines[i].rec
      /\ \A k \in 1..m : lines'[L + k].rec = b[k]
    BY DEF Appended
<1>2. \A i \in (L + 1)..(L + m) : lines'[i].rec = b[i - L]
  <2> TAKE i \in (L + 1)..(L + m)
  <2>1. i - L \in 1..m /\ L + (i - L) = i
      BY <1>1
  <2>2. lines'[L + (i - L)].rec = b[i - L]
      BY <1>1, <2>1
  <2> QED BY <2>1, <2>2
<1> HIDE DEF L
<1>3. OfType(t)' = {i \in 1..(L + m) : lines'[i].rec.type = t} /\ OfType(t) = {i \in 1..L : lines[i].rec.type = t}
    BY <1>1 DEF OfType
<1>4. \A i \in 1..(L + m) : i \in 1..L \/ i \in (L + 1)..(L + m)
    BY <1>1
<1>5. \A i : i \in 1..L \/ i \in (L + 1)..(L + m) => i \in 1..(L + m)
    BY <1>1
<1>6. OfType(t)' = OfType(t) \cup {i \in (L + 1)..(L + m) : b[i - L].type = t}
    BY <1>1, <1>2, <1>3, <1>4, <1>5
<1> QED BY <1>6 DEF L

-----------------------------------------------------------------------------
(* The parts of the story that a step cannot disturb.                        *)

\* The expiry of an authorization is that of its only creation.
LEMMA ExpiresOf ==
    ASSUME LedgerTypes, CreatedOnce, NEW a, NEW c \in Created(a)
    PROVE  Created(a) = {c} /\ Latest(Created(a)) = lines[c].rec /\ Expires(a) = lines[c].rec.at + Ttl
<1>1. Created(a) = {c}
    BY DEF Created, CreatedOnce
<1>2. c \in Int
    BY EntryTypes DEF Created
<1>3. (CHOOSE i \in {c} : \A j \in {c} : j <= i) = c
    BY <1>2
<1> QED BY <1>1, <1>3 DEF Latest, Expires

\* Only a creation can disturb CreatedOnce.
LEMMA CreatedStable ==
    ASSUME CreatedOnce, Later, OfType("authorization")' = OfType("authorization")
    PROVE  CreatedOnce'
<1>1. \A i \in OfType("authorization") : lines'[i].rec = lines[i].rec
    BY OfTypeLater DEF Later
<1> QED BY <1>1 DEF CreatedOnce

\* Only a consumption can disturb SingleUse: a later revocation is later.
LEMMA SingleUseStable ==
    ASSUME SingleUse, Later, OfType("consumed")' = OfType("consumed")
    PROVE  SingleUse'
<1>1. \A i \in Entries : lines'[i].rec = lines[i].rec
    BY DEF Later
<1>2. \A t : OfType(t) \subseteq OfType(t)' /\ OfType(t) \subseteq Entries
    BY OfTypeLater
<1>3. \A t, a : Events(t, a) \subseteq Events(t, a)'
    BY <1>1, <1>2 DEF Events
<1>4. \A a : Events("consumed", a)' = Events("consumed", a)
    BY <1>1, <1>2 DEF Events
<1>5. \A a : Created(a) \subseteq Created(a)' /\ Created(a) \subseteq Entries
    BY <1>1, <1>2 DEF Created
<1>6. \A a : \A i \in Entries : \A j \in Events("revoked", a)' : j \in Events("revoked", a) \/ i < j
    BY <1>1 DEF Events, OfType, Later
<1> SUFFICES ASSUME NEW i \in OfType("consumed"), NEW r, r = lines'[i].rec
             PROVE  /\ Events("consumed", r.auth)' = {i}
                    /\ \A j \in Events("revoked", r.auth)' : i < j
                    /\ \E j \in Created(r.auth)' :
                          /\ j < i /\ r.at < lines'[j].rec.at + Ttl
                          /\ lines'[j].rec.expected \in {AnyWorker, r.worker}
    BY DEF SingleUse, Events, Created
<1>7. i \in Entries /\ lines[i].rec = r
    BY <1>1, <1>2
<1>8. /\ Events("consumed", r.auth) = {i}
      /\ \A j \in Events("revoked", r.auth) : i < j
      /\ \E j \in Created(r.auth) :
            /\ j < i /\ r.at < lines[j].rec.at + Ttl
            /\ lines[j].rec.expected \in {AnyWorker, r.worker}
    BY <1>7 DEF SingleUse
<1>9. Events("consumed", r.auth)' = {i}
    BY <1>4, <1>8
<1>10. \A j \in Events("revoked", r.auth)' : i < j
    BY <1>6, <1>7, <1>8
<1>11. \A j \in Created(r.auth) : j \in Created(r.auth)' /\ lines'[j].rec = lines[j].rec
    BY <1>1, <1>5
<1> QED BY <1>8, <1>9, <1>10, <1>11
\* A submitted request's authorization exists.
LEMMA KnownCreated ==
    ASSUME EnrollmentTrail, SingleUse, NEW q \in Submitted
    PROVE  Created(AuthOf(q)) # {}
<1>1. PICK i \in OfType("request") : lines[i].rec.req = q
    BY DEF Submitted
<1>2. i - 1 \in Events("consumed", AuthOf(q))
    BY <1>1 DEF EnrollmentTrail
<1>3. i - 1 \in OfType("consumed") /\ lines[i - 1].rec.auth = AuthOf(q)
    BY <1>2 DEF Events
<1> QED BY <1>3 DEF SingleUse

\* Only a decision can disturb DecisionsAgree: the expiry of a decided request is
\* fixed, because its authorization exists and is created once.
LEMMA DecisionsStable ==
    ASSUME LedgerTypes, LedgerTypes', CreatedOnce, CreatedOnce', DecidedKnown, EnrollmentTrail,
           SingleUse, DecisionsAgree, Later, OfType("decision")' = OfType("decision")
    PROVE  DecisionsAgree'
<1>1. \A i \in Entries : lines'[i].rec = lines[i].rec
    BY DEF Later
<1>2. \A t : OfType(t) \subseteq OfType(t)' /\ OfType(t) \subseteq Entries
    BY OfTypeLater
<1>3. \A q : Decisions(q)' = Decisions(q) /\ Decisions(q) \subseteq Entries
    BY <1>1, <1>2 DEF Decisions
<1>4. \A a : \A i \in Entries : \A j \in Events("revoked", a)' : j \in Events("revoked", a) \/ i < j
    BY <1>1 DEF Events, OfType, Later
<1>5. \A a : \A c \in Created(a) : c \in Created(a)' /\ lines'[c].rec = lines[c].rec
    BY <1>1, <1>2 DEF Created
<1>6. ASSUME NEW q \in Submitted PROVE Expires(AuthOf(q))' = Expires(AuthOf(q))
  <2>1. PICK a : a = AuthOf(q)
      OBVIOUS
  <2>2. PICK c : c \in Created(a)
      BY <2>1, KnownCreated
  <2>3. Expires(a) = lines[c].rec.at + Ttl
      BY <2>2, ExpiresOf
  <2>4. c \in Created(a)' /\ lines'[c].rec = lines[c].rec
      BY <1>5, <2>2
  <2>5. Created(a)' = {c}
      BY <2>4 DEF Created, CreatedOnce
  <2>6. c \in Int
      BY <1>2, <2>2, EntryTypes DEF Created
  <2>7. (CHOOSE i \in {c} : \A j \in {c} : j <= i) = c
      BY <2>6
  <2>8. Expires(a)' = lines'[c].rec.at + Ttl
      BY <2>5, <2>7 DEF Expires, Latest
  <2> QED BY <2>1, <2>3, <2>4, <2>8
<1> SUFFICES ASSUME NEW i \in OfType("decision"), NEW r, r = lines'[i].rec, NEW a, a = AuthOf(r.req)
             PROVE  /\ \A j \in Decisions(r.req)' :
                          lines'[j].rec.verdict = r.verdict /\ (r.verdict = "EXPIRED" \/ i = j)
                    /\ r.verdict = "APPROVED" =>
                          /\ r.at < Expires(a)'
                          /\ \A j \in Events("revoked", a)' : i < j
    BY ZenonT(60) DEF DecisionsAgree, Decisions, Events, Expires, Latest, Created, AuthOf
<1>7. i \in Entries /\ lines[i].rec = r
    BY <1>1, <1>2
<1>8. r.req \in Submitted
    BY <1>7 DEF DecidedKnown
<1>9. /\ \A j \in Decisions(r.req) :
            lines[j].rec.verdict = r.verdict /\ (r.verdict = "EXPIRED" \/ i = j)
      /\ r.verdict = "APPROVED" =>
            /\ r.at < Expires(a)
            /\ \A j \in Events("revoked", a) : i < j
    BY <1>7 DEF DecisionsAgree
<1>10. Expires(a)' = Expires(a)
    BY <1>6, <1>8
<1>11. \A j \in Decisions(r.req)' : j \in Decisions(r.req) /\ lines'[j].rec = lines[j].rec
    BY <1>1, <1>3
<1>12. \A j \in Events("revoked", a)' : j \in Events("revoked", a) \/ i < j
    BY <1>4, <1>7
<1> QED BY <1>9, <1>10, <1>11, <1>12

\* The place of the latest entry of a set.
LastOf(S) == CHOOSE i \in S : \A j \in S : j <= i

\* The latest entry of a nonempty set exists and is one of the set.
LEMMA LatestFacts ==
    ASSUME LedgerTypes, NEW S, S \subseteq Entries
    PROVE  /\ Latest(S) = lines[LastOf(S)].rec
           /\ S # {} => LastOf(S) \in S /\ \A j \in S : j <= LastOf(S)
<1>1. Latest(S) = lines[LastOf(S)].rec
    BY DEF Latest, LastOf
<1>2. ASSUME S # {} PROVE \E i \in S : \A j \in S : j <= i
  <2>1. Len(lines) \in Nat /\ S \subseteq 0..Len(lines)
      BY EntryTypes
  <2> QED BY <1>2, <2>1, GreatestExists
<1> QED BY <1>1, <1>2 DEF LastOf

\* Only a membership can disturb OneKey.
LEMMA OneKeyStable ==
    ASSUME LedgerTypes, OneKey, Later, OfType("member")' = OfType("member")
    PROVE  OneKey'
<1>1. \A i \in Entries : lines'[i].rec = lines[i].rec
    BY DEF Later
<1>2. OfType("member") \subseteq Entries
    BY OfTypeLater
<1>3. \A w : Memberships(w)' = Memberships(w) /\ Memberships(w) \subseteq Entries
    BY <1>1, <1>2 DEF Memberships
<1> SUFFICES ASSUME NEW i \in OfType("member")
             PROVE  IF lines'[i].rec.status = "REVOKED"
                    THEN Previous(i)' # {} /\ lines'[LastOf(Previous(i)')].rec.status = "ENROLLED"
                    ELSE Previous(i)' # {} /\ lines'[LastOf(Previous(i)')].rec.status = "ENROLLED"
                            => lines'[LastOf(Previous(i)')].rec.key = lines'[i].rec.key
    BY DEF OneKey, Latest, LastOf
<1> DEFINE P == Previous(i)
           x == Latest(P)
<1>4. i \in Entries /\ lines'[i].rec = lines[i].rec
    BY <1>1, <1>2
<1>5. Previous(i)' = P /\ P \subseteq Entries
    BY <1>3, <1>4 DEF Previous, Memberships
<1>6. P # {} => lines'[LastOf(P)].rec = x
    BY <1>1, <1>5, LatestFacts
<1>7. IF lines[i].rec.status = "REVOKED" THEN P # {} /\ x.status = "ENROLLED"
      ELSE P # {} /\ x.status = "ENROLLED" => x.key = lines[i].rec.key
    BY DEF OneKey
<1> QED BY <1>4, <1>5, <1>6, <1>7

\* The trail of one membership, and of one request.
MemberTrail(i) ==
    LET r == lines[i].rec IN
    r.status = "ENROLLED" =>
       /\ i - 1 \in Decisions(r.req)
       /\ \E t \in Times : lines[i - 1].rec = Decision(r.req, r.worker, "APPROVED", t)
       /\ r.key = KeyOf(r.req)
       /\ \E j \in 1..(i - 2) : lines[j].rec = Request(r.req)
RequestTrail(i) ==
    LET q == lines[i].rec.req IN
    /\ i - 1 \in Events("consumed", AuthOf(q))
    /\ lines[i - 1].rec.req = q /\ lines[i - 1].rec.worker = WorkerOf(q)

\* EnrollmentTrail is the trails of the memberships and of the requests.
LEMMA TrailParts ==
    /\ EnrollmentTrail <=> (\A i \in OfType("member") : MemberTrail(i))
                              /\ (\A i \in OfType("request") : RequestTrail(i))
    /\ EnrollmentTrail' <=> (\A i \in OfType("member")' : MemberTrail(i)')
                               /\ (\A i \in OfType("request")' : RequestTrail(i)')
BY DEF EnrollmentTrail, MemberTrail, RequestTrail

\* The trail of a membership or a request, once there, stays.
LEMMA TrailStable ==
    ASSUME LedgerTypes, EnrollmentTrail, Later
    PROVE  /\ \A i \in OfType("member") : MemberTrail(i)'
           /\ \A i \in OfType("request") : RequestTrail(i)'
<1>1. \A i \in Entries : lines'[i].rec = lines[i].rec
    BY DEF Later
<1>2. \A t : OfType(t) \subseteq OfType(t)' /\ OfType(t) \subseteq Entries
    BY OfTypeLater
<1>3. \A q : Decisions(q) \subseteq Decisions(q)' /\ Decisions(q) \subseteq Entries
    BY <1>1, <1>2 DEF Decisions
<1>4. \A a : Events("consumed", a) \subseteq Events("consumed", a)' /\ Events("consumed", a) \subseteq Entries
    BY <1>1, <1>2 DEF Events
<1>5. ASSUME NEW i \in OfType("member") PROVE MemberTrail(i)'
  <2>1. PICK r : r = lines[i].rec
      OBVIOUS
  <2>2. lines'[i].rec = r
      BY <1>1, <1>2, <2>1
  <2>3. SUFFICES ASSUME r.status = "ENROLLED"
                 PROVE  /\ i - 1 \in Decisions(r.req)'
                        /\ \E t \in Times : lines'[i - 1].rec = Decision(r.req, r.worker, "APPROVED", t)
                        /\ r.key = KeyOf(r.req)
                        /\ \E j \in 1..(i - 2) : lines'[j].rec = Request(r.req)
      BY <2>2 DEF MemberTrail, Decisions
  <2>4. /\ i - 1 \in Decisions(r.req)
        /\ \E t \in Times : lines[i - 1].rec = Decision(r.req, r.worker, "APPROVED", t)
        /\ r.key = KeyOf(r.req)
        /\ \E j \in 1..(i - 2) : lines[j].rec = Request(r.req)
      BY <2>1, <2>3, TrailParts DEF MemberTrail
  <2>5. PICK j \in 1..(i - 2) : lines[j].rec = Request(r.req)
      BY <2>4
  <2>6. i - 1 \in Entries
      BY <1>3, <2>4
  <2>7. j \in Entries
    <3>1. Len(lines) \in Nat /\ DOMAIN lines = 1..Len(lines) /\ i \in 1..Len(lines)
        BY <1>2, EntryTypes, LenProperties DEF LedgerTypes
    <3>2. j \in DOMAIN lines
        BY <3>1
    <3>3. lines[j].rec # Undecodable
      <4>1. Request(r.req).type = "request" /\ Undecodable.type = "none"
          BY DEF Request, Undecodable
      <4> QED BY <2>5, <4>1
    <3> QED BY <3>2, <3>3 DEF Entries, LedgerTypes
  <2>8. lines'[j].rec = Request(r.req)
      BY <1>1, <2>5, <2>7
  <2> QED BY <1>1, <1>3, <2>4, <2>6, <2>8
<1>6. ASSUME NEW i \in OfType("request") PROVE RequestTrail(i)'
  <2>1. PICK q : q = lines[i].rec.req
      OBVIOUS
  <2>2. lines'[i].rec.req = q
      BY <1>1, <1>2, <2>1
  <2>3. i - 1 \in Events("consumed", AuthOf(q)) /\ lines[i - 1].rec.req = q /\ lines[i - 1].rec.worker = WorkerOf(q)
      BY <2>1, TrailParts DEF RequestTrail
  <2>4. i - 1 \in Events("consumed", AuthOf(q))' /\ lines'[i - 1].rec = lines[i - 1].rec
      BY <1>1, <1>4, <2>3
  <2> QED BY <2>2, <2>3, <2>4 DEF RequestTrail, Events, AuthOf, WorkerOf
<1> QED BY <1>5, <1>6
-----------------------------------------------------------------------------
(* What an append of one record, or of two of different types, adds.         *)

\* A batch of one record adds it or, when it is torn, nothing.
LEMMA OneNew ==
    ASSUME NEW r, NEW y, r.type = y, NEW m \in 0..1, Appended(<<r>>, m)
    PROVE  /\ Later /\ Len(lines) \in Nat /\ Entries = 1..Len(lines)
           /\ \A t : t # y => OfType(t)' = OfType(t)
           /\ \/ OfType(y)' = OfType(y)
              \/ OfType(y)' = OfType(y) \cup {Len(lines) + 1} /\ lines'[Len(lines) + 1].rec = r
<1>1. Later
    BY AppendedIsLater
<1>2. /\ Len(lines) \in Nat /\ Entries = 1..Len(lines)
      /\ \A k \in 1..m : lines'[Len(lines) + k].rec = <<r>>[k]
    BY DEF Appended
<1>3. PICK L : L = Len(lines)
    OBVIOUS
<1>4. \A t : OfType(t)' = OfType(t) \cup {i \in (L + 1)..(L + m) : <<r>>[i - L].type = t}
    BY <1>3, AppendedOfType
<1>5. CASE m = 0
  <2>1. (L + 1)..(L + m) = {}
      BY <1>2, <1>3, <1>5
  <2> QED BY <1>1, <1>2, <1>4, <2>1
<1>6. CASE m = 1
  <2>1. (L + 1)..(L + m) = {L + 1} /\ (L + 1) - L = 1
      BY <1>2, <1>3, <1>6
  <2>2. \A t : {i \in (L + 1)..(L + m) : <<r>>[i - L].type = t} = IF t = y THEN {L + 1} ELSE {}
      BY <2>1
  <2>3. lines'[L + 1].rec = r
      BY <1>2, <1>3, <1>6
  <2>4. \A t : OfType(t)' = OfType(t) \cup (IF t = y THEN {L + 1} ELSE {})
      BY <1>4, <2>2, Zenon
  <2>5. \A t : t # y => OfType(t)' = OfType(t)
      BY <2>4
  <2>6. OfType(y)' = OfType(y) \cup {L + 1}
      BY <2>4
  <2> QED BY <1>1, <1>2, <1>3, <2>3, <2>5, <2>6
<1> QED BY <1>5, <1>6

\* None, the first, or both of r and s, of types y and z, are added.
AddsTwo(r, s, y, z) ==
    /\ Later /\ Len(lines) \in Nat /\ Entries = 1..Len(lines)
    /\ \A t : t # y /\ t # z => OfType(t)' = OfType(t)
    /\ \/ OfType(y)' = OfType(y) /\ OfType(z)' = OfType(z)
       \/ /\ OfType(y)' = OfType(y) \cup {Len(lines) + 1} /\ lines'[Len(lines) + 1].rec = r
          /\ \/ OfType(z)' = OfType(z)
             \/ OfType(z)' = OfType(z) \cup {Len(lines) + 2} /\ lines'[Len(lines) + 2].rec = s

\* A batch of two records adds none, the first, or both.
LEMMA TwoNew ==
    ASSUME NEW r, NEW s, NEW y, NEW z, r.type = y, s.type = z, y # z, NEW m \in 0..2, Appended(<<r, s>>, m)
    PROVE  AddsTwo(r, s, y, z)
<1> USE DEF AddsTwo
<1>1. Later
    BY AppendedIsLater
<1>2. /\ Len(lines) \in Nat /\ Entries = 1..Len(lines)
      /\ \A k \in 1..m : lines'[Len(lines) + k].rec = <<r, s>>[k]
    BY DEF Appended
<1>3. PICK L : L = Len(lines)
    OBVIOUS
<1>4. \A t : OfType(t)' = OfType(t) \cup {i \in (L + 1)..(L + m) : <<r, s>>[i - L].type = t}
    BY <1>3, AppendedOfType
<1>5. CASE m = 0
  <2>1. (L + 1)..(L + m) = {}
      BY <1>2, <1>3, <1>5
  <2> QED BY <1>1, <1>2, <1>4, <2>1
<1>6. CASE m = 1
  <2>1. (L + 1)..(L + m) = {L + 1} /\ (L + 1) - L = 1
      BY <1>2, <1>3, <1>6
  <2>2. \A t : {i \in (L + 1)..(L + m) : <<r, s>>[i - L].type = t} = IF t = y THEN {L + 1} ELSE {}
      BY <2>1
  <2>3. lines'[L + 1].rec = r
      BY <1>2, <1>3, <1>6
  <2>4. \A t : OfType(t)' = OfType(t) \cup (IF t = y THEN {L + 1} ELSE {})
      BY <1>4, <2>2, Zenon
  <2>5. \A t : t # y => OfType(t)' = OfType(t)
      BY <2>4
  <2>6. OfType(y)' = OfType(y) \cup {L + 1}
      BY <2>4
  <2> QED BY <1>1, <1>2, <1>3, <2>3, <2>5, <2>6
<1>7. CASE m = 2
  <2>1. (L + 1)..(L + m) = {L + 1, L + 2} /\ (L + 1) - L = 1 /\ (L + 2) - L = 2
      BY <1>2, <1>3, <1>7
  <2>2. \A t : {i \in (L + 1)..(L + m) : <<r, s>>[i - L].type = t}
               = IF t = y THEN {L + 1} ELSE IF t = z THEN {L + 2} ELSE {}
      BY <2>1
  <2>3. lines'[L + 1].rec = r /\ lines'[L + 2].rec = s
      BY <1>2, <1>3, <1>7
  <2>4. \A t : OfType(t)' = OfType(t) \cup (IF t = y THEN {L + 1} ELSE IF t = z THEN {L + 2} ELSE {})
      BY <1>4, <2>2, Zenon
  <2>5. \A t : t # y /\ t # z => OfType(t)' = OfType(t)
      BY <2>4
  <2>6. OfType(y)' = OfType(y) \cup {L + 1} /\ OfType(z)' = OfType(z) \cup {L + 2}
      BY <2>4
  <2> QED BY <1>1, <1>2, <1>3, <2>3, <2>5, <2>6
<1> QED BY <1>5, <1>6, <1>7
-----------------------------------------------------------------------------
(* The parts of the story that a new entry at k has to keep.                 *)

\* A creation under a new identity keeps CreatedOnce.
LEMMA CreatedGrows ==
    ASSUME CreatedOnce, Later, NEW a, Created(a) = {}, NEW k,
           OfType("authorization")' = OfType("authorization") \cup {k}, lines'[k].rec.auth = a
    PROVE  CreatedOnce'
<1>1. \A i \in OfType("authorization") : lines'[i].rec = lines[i].rec /\ lines[i].rec.auth # a
    BY OfTypeLater DEF Later, Created
<1> QED BY <1>1 DEF CreatedOnce

\* A consumption whose locked precondition holds keeps SingleUse.
LEMMA ConsumedGrows ==
    ASSUME LedgerTypes, CreatedOnce, SingleUse, Later,
           NEW a, NEW w, NEW t \in Times, NEW k, NEW r, ConsumeLocked(a, w, t),
           \A i \in Entries : i < k,
           OfType("revoked")' = OfType("revoked"), OfType("authorization")' = OfType("authorization"),
           OfType("consumed")' = OfType("consumed") \cup {k}, lines'[k].rec = r,
           r.auth = a, r.worker = w, r.at = t
    PROVE  SingleUse'
<1>1. \A i \in Entries : lines'[i].rec = lines[i].rec
    BY DEF Later
<1>2. \A y : OfType(y) \subseteq Entries
    BY OfTypeLater
<1>3. Events("revoked", a) = {} /\ Events("consumed", a) = {} /\ ~(t >= Expires(a))
  <2>1. RecordStatus(a, t) = "ACTIVE"
      BY DEF ConsumeLocked
  <2> QED BY <2>1 DEF RecordStatus
<1>4. \A b : Events("revoked", b)' = Events("revoked", b)
    BY <1>1, <1>2 DEF Events
<1>5. \A b : Created(b)' = Created(b) /\ \A j \in Created(b) : j \in Entries /\ lines'[j].rec = lines[j].rec
    BY <1>1, <1>2 DEF Created
<1>6. \A b : b # a => Events("consumed", b)' = Events("consumed", b)
    BY <1>1, <1>2 DEF Events
<1>7. Events("consumed", a)' = {k}
    BY <1>1, <1>2, <1>3 DEF Events
<1> SUFFICES ASSUME NEW i \in OfType("consumed") \cup {k}, NEW u, u = lines'[i].rec
             PROVE  /\ Events("consumed", u.auth)' = {i}
                    /\ \A j \in Events("revoked", u.auth)' : i < j
                    /\ \E j \in Created(u.auth)' :
                          /\ j < i /\ u.at < lines'[j].rec.at + Ttl
                          /\ lines'[j].rec.expected \in {AnyWorker, u.worker}
    BY DEF SingleUse, Events, Created
<1>8. CASE i = k
  <2>1. PICK c : c \in Created(a)
      BY DEF ConsumeLocked
  <2>2. Latest(Created(a)) = lines[c].rec /\ Expires(a) = lines[c].rec.at + Ttl
      BY <2>1, ExpiresOf
  <2>3. lines[c].rec.at \in Int
      BY <2>1, EntryTypes DEF Created, AuthorizationSet, Times
  <2>4. t < lines[c].rec.at + Ttl
      BY <1>3, <2>2, <2>3, LifecycleAssumption DEF Times
  <2>5. lines[c].rec.expected \in {AnyWorker, w}
      BY <2>2 DEF ConsumeLocked
  <2>6. c \in Created(a)' /\ c < k /\ lines'[c].rec = lines[c].rec
      BY <1>5, <2>1
  <2> QED BY <1>3, <1>4, <1>7, <1>8, <2>4, <2>5, <2>6
<1>9. CASE i \in OfType("consumed")
  <2>1. lines[i].rec = u
      BY <1>1, <1>2, <1>9
  <2>2. /\ Events("consumed", u.auth) = {i}
        /\ \A j \in Events("revoked", u.auth) : i < j
        /\ \E j \in Created(u.auth) :
              /\ j < i /\ u.at < lines[j].rec.at + Ttl
              /\ lines[j].rec.expected \in {AnyWorker, u.worker}
      BY <1>9, <2>1 DEF SingleUse
  <2>3. u.auth # a
      BY <1>3, <2>2
  <2>4. Events("consumed", u.auth)' = {i} /\ \A j \in Events("revoked", u.auth)' : i < j
      BY <1>4, <1>6, <2>2, <2>3
  <2>5. \A j \in Created(u.auth) : j \in Created(u.auth)' /\ lines'[j].rec = lines[j].rec
      BY <1>5
  <2> QED BY <2>2, <2>4, <2>5
<1> QED BY <1>8, <1>9

\* A decision whose locked precondition holds keeps DecisionsAgree.
LEMMA DecisionGrows ==
    ASSUME LedgerTypes, CreatedOnce, DecisionsAgree, DecidedKnown, EnrollmentTrail, SingleUse, Later,
           NEW q \in Submitted, NEW w, NEW v \in Verdicts, NEW t \in Times, NEW k, NEW r, MayDecide(q, w, v, t),
           \A i \in Entries : i < k,
           OfType("revoked")' = OfType("revoked"), OfType("authorization")' = OfType("authorization"),
           OfType("decision")' = OfType("decision") \cup {k}, lines'[k].rec = r,
           r.req = q, r.verdict = v, r.at = t
    PROVE  DecisionsAgree'
<1>1. \A i \in Entries : lines'[i].rec = lines[i].rec
    BY DEF Later
<1>2. \A y : OfType(y) \subseteq Entries
    BY OfTypeLater
<1>3. \A b : Events("revoked", b)' = Events("revoked", b)
    BY <1>1, <1>2 DEF Events
<1>4. \A b : Created(b)' = Created(b) /\ Created(b) \subseteq Entries
    BY <1>1, <1>2 DEF Created
<1>5. ASSUME NEW p \in Submitted
      PROVE  /\ Expires(AuthOf(p))' = Expires(AuthOf(p)) /\ Expires(AuthOf(p)) \in Int
  <2>1. PICK b : b = AuthOf(p)
      OBVIOUS
  <2>2. PICK c : c \in Created(b)
      BY <2>1, KnownCreated
  <2>3. Created(b) = {c} /\ Expires(b) = lines[c].rec.at + Ttl
      BY <2>2, ExpiresOf
  <2>4. c \in Entries /\ c \in Int /\ lines[c].rec.at \in Int
      BY <2>2, EntryTypes DEF Created, AuthorizationSet, Times
  <2>5. (CHOOSE i \in {c} : \A j \in {c} : j <= i) = c
      BY <2>4
  <2>6. Expires(b)' = lines'[c].rec.at + Ttl
      BY <1>4, <2>3, <2>5 DEF Expires, Latest
  <2> QED BY <1>1, <2>1, <2>3, <2>4, <2>6, LifecycleAssumption
<1>6. \A p : \A j \in Decisions(p) : j \in Entries /\ lines'[j].rec = lines[j].rec
    BY <1>1, <1>2 DEF Decisions
<1>7. /\ \A p : p # q => Decisions(p)' = Decisions(p)
      /\ Decisions(q)' = Decisions(q) \cup {k}
    BY <1>1, <1>2 DEF Decisions
<1>8. Decisions(q) # {} => v = "EXPIRED" /\ \A j \in Decisions(q) : lines[j].rec.verdict = "EXPIRED"
  <2> SUFFICES ASSUME Decisions(q) # {} PROVE v = "EXPIRED" /\ \A j \in Decisions(q) : lines[j].rec.verdict = "EXPIRED"
      OBVIOUS
  <2>0. Decisions(q) \subseteq Entries /\ Decisions(q) \subseteq OfType("decision")
      BY <1>6 DEF Decisions
  <2>1. PICK i \in Decisions(q) : Latest(Decisions(q)) = lines[i].rec
      BY <2>0, LatestFacts
  <2>2. RequestStatus(q, t) = lines[i].rec.verdict /\ lines[i].rec.verdict \in Verdicts /\ lines[i].rec.req = q
      BY <2>0, <2>1, EntryTypes DEF RequestStatus, DecisionSet, Decisions
  <2>3. v = "EXPIRED" /\ lines[i].rec.verdict = "EXPIRED"
      BY <2>2 DEF MayDecide, Verdicts
  <2>4. \A j \in Decisions(q) : lines[j].rec.verdict = lines[i].rec.verdict
      BY <2>0, <2>2 DEF DecisionsAgree
  <2> QED BY <2>3, <2>4
<1>9. v = "APPROVED" => Events("revoked", AuthOf(q)) = {} /\ t < Expires(AuthOf(q))
  <2> SUFFICES ASSUME v = "APPROVED" PROVE Events("revoked", AuthOf(q)) = {} /\ t < Expires(AuthOf(q))
      OBVIOUS
  <2>1. RecordStatus(AuthOf(q), t) \in {"ACTIVE", "CONSUMED"}
      BY DEF MayDecide
  <2>2. Events("revoked", AuthOf(q)) = {} /\ ~(t >= Expires(AuthOf(q)))
      BY <2>1 DEF RecordStatus
  <2>3. t \in Int /\ Expires(AuthOf(q)) \in Int
      BY <1>5 DEF Times
  <2> QED BY <2>2, <2>3
<1> SUFFICES ASSUME NEW i \in OfType("decision") \cup {k}, NEW u, u = lines'[i].rec, NEW a, a = AuthOf(u.req)
             PROVE  /\ \A j \in Decisions(u.req)' :
                          lines'[j].rec.verdict = u.verdict /\ (u.verdict = "EXPIRED" \/ i = j)
                    /\ u.verdict = "APPROVED" =>
                          /\ u.at < Expires(a)'
                          /\ \A j \in Events("revoked", a)' : i < j
    BY ZenonT(60) DEF DecisionsAgree, Decisions, Events, Expires, Latest, Created, AuthOf
<1>10. CASE i = k
  <2>1. u.req = q /\ u.verdict = v /\ u.at = t /\ a = AuthOf(q)
      BY <1>10
  <2>2. \A j \in Decisions(q)' : j = k \/ (lines'[j].rec.verdict = "EXPIRED" /\ v = "EXPIRED")
      BY <1>6, <1>7, <1>8
  <2>3. v = "APPROVED" => t < Expires(a)' /\ Events("revoked", a)' = {}
      BY <1>3, <1>5, <1>9, <2>1
  <2> QED BY <1>10, <2>1, <2>2, <2>3
<1>11. CASE i \in OfType("decision")
  <2>1. lines[i].rec = u /\ i \in Entries /\ i \in Decisions(u.req)
      BY <1>1, <1>2, <1>11 DEF Decisions
  <2>2. u.req \in Submitted
      BY <1>11, <2>1 DEF DecidedKnown
  <2>3. /\ \A j \in Decisions(u.req) :
              lines[j].rec.verdict = u.verdict /\ (u.verdict = "EXPIRED" \/ i = j)
        /\ u.verdict = "APPROVED" =>
              /\ u.at < Expires(a)
              /\ \A j \in Events("revoked", a) : i < j
      BY <1>11, <2>1 DEF DecisionsAgree
  <2>4. u.verdict = "APPROVED" =>
              /\ u.at < Expires(a)'
              /\ \A j \in Events("revoked", a)' : i < j
      BY <1>3, <1>5, <2>2, <2>3
  <2>5. CASE u.req = q
    <3>1. v = "EXPIRED" /\ u.verdict = "EXPIRED"
        BY <1>8, <2>1, <2>5
    <3>2. \A j \in Decisions(u.req)' : lines'[j].rec.verdict = "EXPIRED"
        BY <1>6, <1>7, <1>8, <2>5, <3>1
    <3> QED BY <2>4, <3>1, <3>2
  <2>6. CASE u.req # q
    <3>1. \A j \in Decisions(u.req)' : j \in Decisions(u.req) /\ lines'[j].rec = lines[j].rec
        BY <1>6, <1>7, <2>6
    <3> QED BY <2>3, <2>4, <3>1
  <2> QED BY <2>5, <2>6
<1> QED BY <1>10, <1>11

\* A membership that keeps the key of the current one, or a revocation of a
\* current one, keeps OneKey.
LEMMA MemberGrows ==
    ASSUME LedgerTypes, OneKey, Later, NEW w, NEW r, NEW k \in Int,
           r.worker = w,
           IF r.status = "REVOKED" THEN Enrolled(w) ELSE Enrolled(w) => EnrolledKey(w) = r.key,
           \A i \in Entries : i < k,
           OfType("member")' = OfType("member") \cup {k}, lines'[k].rec = r
    PROVE  OneKey'
<1>1. \A i \in Entries : lines'[i].rec = lines[i].rec
    BY DEF Later
<1>2. OfType("member") \subseteq Entries /\ Entries \subseteq Int
    BY OfTypeLater, EntryTypes
<1>3. \A u : \A i \in Entries \cup {k} :
         {j \in Memberships(u)' : j < i} = {j \in Memberships(u) : j < i} /\ Memberships(u) \subseteq Entries
  <2> TAKE u
  <2> TAKE i \in Entries \cup {k}
  <2>1. \A j : j \in Memberships(u)' <=> j \in Memberships(u) \/ (j = k /\ r.worker = u)
      BY <1>1, <1>2 DEF Memberships
  <2>2. ~(k < i)
      BY <1>2
  <2> QED BY <1>2, <2>1, <2>2 DEF Memberships
<1> SUFFICES ASSUME NEW i \in OfType("member") \cup {k}
             PROVE  IF lines'[i].rec.status = "REVOKED"
                    THEN Previous(i)' # {} /\ lines'[LastOf(Previous(i)')].rec.status = "ENROLLED"
                    ELSE Previous(i)' # {} /\ lines'[LastOf(Previous(i)')].rec.status = "ENROLLED"
                            => lines'[LastOf(Previous(i)')].rec.key = lines'[i].rec.key
    BY DEF OneKey, Latest, LastOf
<1>4. PICK u : u = lines'[i].rec.worker
    OBVIOUS
<1>5. PICK P : P = {j \in Memberships(u) : j < i}
    OBVIOUS
<1>6. Previous(i)' = P /\ P \subseteq Entries
  <2>1. Previous(i)' = {j \in Memberships(u)' : j < i}
      BY <1>4 DEF Previous, Memberships
  <2> QED BY <1>2, <1>3, <1>5, <2>1
<1>7. Latest(P) = lines[LastOf(P)].rec /\ (P # {} => lines'[LastOf(P)].rec = Latest(P))
    BY <1>1, <1>6, LatestFacts
<1>8. CASE i = k
  <2>1. u = w /\ lines'[i].rec = r
      BY <1>4, <1>8
  <2>2. P = Memberships(w)
      BY <1>2, <1>5, <1>8, <2>1 DEF Memberships
  <2>3. Enrolled(w) <=> P # {} /\ Latest(P).status = "ENROLLED"
      BY <2>2 DEF Enrolled
  <2>4. EnrolledKey(w) = Latest(P).key
      BY <2>2 DEF EnrolledKey
  <2> QED BY <1>6, <1>7, <2>1, <2>3, <2>4
<1>9. CASE i \in OfType("member")
  <2>1. lines'[i].rec = lines[i].rec
      BY <1>1, <1>2, <1>9
  <2>2. P = Previous(i)
      BY <1>4, <1>5, <2>1 DEF Previous
  <2>3. IF lines[i].rec.status = "REVOKED" THEN P # {} /\ Latest(P).status = "ENROLLED"
        ELSE P # {} /\ Latest(P).status = "ENROLLED" => Latest(P).key = lines[i].rec.key
      BY <1>9, <2>2 DEF OneKey
  <2> QED BY <1>6, <1>7, <2>1, <2>3
<1> QED BY <1>8, <1>9
-----------------------------------------------------------------------------
(* What each operation does to the ledger.                                   *)

\* A submitted request stays submitted.
LEMMA SubmittedGrows ==
    ASSUME Later
    PROVE  Submitted \subseteq Submitted'
<1>1. \A i \in OfType("request") : i \in OfType("request")' /\ lines'[i].rec = lines[i].rec
    BY OfTypeLater DEF Later
<1> QED BY <1>1 DEF Submitted

\* Only a decision can disturb DecidedKnown.
LEMMA DecidedStable ==
    ASSUME DecidedKnown, Later, OfType("decision")' = OfType("decision")
    PROVE  DecidedKnown'
<1>1. \A i \in OfType("decision") : lines'[i].rec = lines[i].rec
    BY OfTypeLater DEF Later
<1> QED BY <1>1, SubmittedGrows DEF DecidedKnown

\* A step that adds no entry keeps the invariant of the ledger.
LEMMA QuietStep ==
    ASSUME LedgerInv, LedgerTypes', ChainVerifies', Later, \A t : OfType(t)' = OfType(t)
    PROVE  LedgerInv'
<1>0. LedgerTypes /\ DecidedKnown /\ CreatedOnce /\ SingleUse /\ DecisionsAgree /\ OneKey /\ EnrollmentTrail
    BY DEF LedgerInv, Story
<1>1. CreatedOnce'
    BY <1>0, CreatedStable
<1>2. SingleUse'
    BY <1>0, SingleUseStable
<1>3. DecisionsAgree'
    BY <1>0, <1>1, DecisionsStable
<1>4. OneKey'
    BY <1>0, OneKeyStable
<1>5. EnrollmentTrail'
    BY <1>0, TrailStable, TrailParts
<1>6. DecidedKnown'
    BY <1>0, DecidedStable
<1> QED BY <1>1, <1>2, <1>3, <1>4, <1>5, <1>6 DEF LedgerInv, Story

\* The parts of a request.
LEMMA RequestTypes ==
    ASSUME NEW q \in Requests
    PROVE  AuthOf(q) \in Auths /\ WorkerOf(q) \in Workers /\ KeyOf(q) \in Keys
BY DEF Requests, AuthOf, WorkerOf, KeyOf

\* The records the operations write are lifecycle records.
LEMMA RecordFacts ==
    /\ \A a \in Auths, w \in Expected, t \in Times : Authorization(a, w, t) \in LedgerRecords
    /\ \A a \in Auths : Revoked(a) \in LedgerRecords
    /\ \A a \in Auths, w \in Workers, q \in Requests \cup {None}, t \in Times : Consumed(a, w, q, t) \in LedgerRecords
    /\ \A q \in Requests : Request(q) \in LedgerRecords
    /\ \A q \in Requests, w \in Names, v \in Verdicts, t \in Times : Decision(q, w, v, t) \in LedgerRecords
    /\ \A w \in Names, k \in Keys, s \in {"ENROLLED", "REVOKED"}, q \in Requests \cup {None} :
          Member(w, k, s, q) \in LedgerRecords
<1>1. \A a \in Auths, w \in Expected, t \in Times : Authorization(a, w, t) \in LedgerRecords
    BY DEF Authorization, LedgerRecords, AuthorizationSet
<1>2. \A a \in Auths : Revoked(a) \in LedgerRecords
    BY DEF Revoked, LedgerRecords, RevokedSet
<1>3. \A a \in Auths, w \in Workers, q \in Requests \cup {None}, t \in Times : Consumed(a, w, q, t) \in LedgerRecords
    BY DEF Consumed, LedgerRecords, ConsumedSet
<1>4. \A q \in Requests : Request(q) \in LedgerRecords
    BY DEF Request, LedgerRecords, RequestSet
<1>5. \A q \in Requests, w \in Names, v \in Verdicts, t \in Times : Decision(q, w, v, t) \in LedgerRecords
    BY DEF Decision, LedgerRecords, DecisionSet
<1>6. \A w \in Names, k \in Keys, s \in {"ENROLLED", "REVOKED"}, q \in Requests \cup {None} :
          Member(w, k, s, q) \in LedgerRecords
    BY DEF Member, LedgerRecords, MemberSet
<1> QED BY <1>1, <1>2, <1>3, <1>4, <1>5, <1>6

\* The fields of the records.
LEMMA FieldFacts ==
    /\ \A a, w, t : Authorization(a, w, t).type = "authorization" /\ Authorization(a, w, t).auth = a
    /\ \A a : Revoked(a).type = "revoked"
    /\ \A a, w, q, t : LET r == Consumed(a, w, q, t) IN
          r.type = "consumed" /\ r.auth = a /\ r.worker = w /\ r.req = q /\ r.at = t
    /\ \A q : Request(q).type = "request" /\ Request(q).req = q
    /\ \A q, w, v, t : LET r == Decision(q, w, v, t) IN
          r.type = "decision" /\ r.req = q /\ r.worker = w /\ r.verdict = v /\ r.at = t
    /\ \A w, k, s, q : LET r == Member(w, k, s, q) IN
          r.type = "member" /\ r.worker = w /\ r.key = k /\ r.status = s /\ r.req = q
BY DEF Authorization, Revoked, Consumed, Request, Decision, Member

\* A batch of one record is written, perhaps in part.
LEMMA WriteOne ==
    ASSUME LedgerTypes, ChainVerifies, NEW r \in LedgerRecords, Write(<<r>>) \/ WriteStops(<<r>>)
    PROVE  LedgerTypes' /\ ChainVerifies' /\ \E m \in 0..1 : Appended(<<r>>, m)
<1>1. <<r>> \in Seq(LedgerRecords) /\ <<r>> # <<>> /\ Len(<<r>>) = 1
    OBVIOUS
<1> QED BY <1>1, WriteGrows

\* Likewise for two.
LEMMA WriteTwo ==
    ASSUME LedgerTypes, ChainVerifies, NEW r \in LedgerRecords, NEW s \in LedgerRecords,
           Write(<<r, s>>) \/ WriteStops(<<r, s>>)
    PROVE  LedgerTypes' /\ ChainVerifies' /\ \E m \in 0..2 : Appended(<<r, s>>, m)
<1>1. <<r, s>> \in Seq(LedgerRecords) /\ <<r, s>> # <<>> /\ Len(<<r, s>>) = 2
    OBVIOUS
<1> QED BY <1>1, WriteGrows
\* create_authorization, written whole or in part.
LEMMA CreateStep ==
    ASSUME LedgerInv, NEW a \in Auths, NEW w \in Expected, NEW t \in Times, Created(a) = {},
           Write(<<Authorization(a, w, t)>>) \/ WriteStops(<<Authorization(a, w, t)>>)
    PROVE  LedgerInv' /\ Later
<1>0. /\ LedgerTypes /\ ChainVerifies /\ DecidedKnown
      /\ CreatedOnce /\ SingleUse /\ DecisionsAgree /\ OneKey /\ EnrollmentTrail
    BY DEF LedgerInv, Story
<1>1. PICK r : r = Authorization(a, w, t)
    OBVIOUS
<1>2. r \in LedgerRecords /\ r.type = "authorization" /\ r.auth = a
    BY <1>1, RecordFacts, FieldFacts
<1>3. LedgerTypes' /\ ChainVerifies' /\ \E m \in 0..1 : Appended(<<r>>, m)
    BY <1>0, <1>1, <1>2, WriteOne
<1>4. /\ Later
      /\ \A y : y # "authorization" => OfType(y)' = OfType(y)
      /\ \/ OfType("authorization")' = OfType("authorization")
         \/ /\ OfType("authorization")' = OfType("authorization") \cup {Len(lines) + 1}
            /\ lines'[Len(lines) + 1].rec = r
    BY <1>2, <1>3, OneNew
<1>5. CreatedOnce'
  <2>1. CASE OfType("authorization")' = OfType("authorization")
      BY <1>0, <1>4, <2>1, CreatedStable
  <2>2. CASE /\ OfType("authorization")' = OfType("authorization") \cup {Len(lines) + 1}
             /\ lines'[Len(lines) + 1].rec = r
      BY <1>0, <1>2, <1>4, <2>2, CreatedGrows
  <2> QED BY <1>4, <2>1, <2>2
<1>6. SingleUse'
    BY <1>0, <1>4, SingleUseStable
<1>7. DecisionsAgree'
    BY <1>0, <1>3, <1>4, <1>5, DecisionsStable
<1>8. OneKey' /\ EnrollmentTrail'
    BY <1>0, <1>4, OneKeyStable, TrailStable, TrailParts
<1>9. DecidedKnown'
    BY <1>0, <1>4, DecidedStable
<1> QED BY <1>3, <1>4, <1>5, <1>6, <1>7, <1>8, <1>9 DEF LedgerInv, Story

\* submit_request: the consumption and the request.
LEMMA SubmitStep ==
    ASSUME LedgerInv, NEW q \in Requests, NEW t \in Times, MaySubmit(q, t),
           Write(Submission(q, t)) \/ WriteStops(Submission(q, t))
    PROVE  LedgerInv' /\ Later
<1>0. /\ LedgerTypes /\ ChainVerifies /\ DecidedKnown
      /\ CreatedOnce /\ SingleUse /\ DecisionsAgree /\ OneKey /\ EnrollmentTrail
    BY DEF LedgerInv, Story
<1>1. PICK r, s : r = Consumed(AuthOf(q), WorkerOf(q), q, t) /\ s = Request(q)
    OBVIOUS
<1>2. /\ r \in LedgerRecords /\ r.type = "consumed" /\ r.auth = AuthOf(q) /\ r.worker = WorkerOf(q)
      /\ r.req = q /\ r.at = t /\ s \in LedgerRecords /\ s.type = "request" /\ s.req = q
    BY <1>1, RequestTypes, RecordFacts, FieldFacts
<1>3. LedgerTypes' /\ ChainVerifies' /\ \E m \in 0..2 : Appended(<<r, s>>, m)
    BY <1>0, <1>1, <1>2, WriteTwo DEF Submission
<1>4. PICK L : L = Len(lines)
    OBVIOUS
<1>5. /\ Later /\ L \in Nat /\ Entries = 1..L
      /\ \A y : y # "consumed" /\ y # "request" => OfType(y)' = OfType(y)
      /\ \/ OfType("consumed")' = OfType("consumed") /\ OfType("request")' = OfType("request")
         \/ /\ OfType("consumed")' = OfType("consumed") \cup {L + 1} /\ lines'[L + 1].rec = r
            /\ \/ OfType("request")' = OfType("request")
               \/ OfType("request")' = OfType("request") \cup {L + 2} /\ lines'[L + 2].rec = s
  <2>1. PICK m \in 0..2 : Appended(<<r, s>>, m)
      BY <1>3
  <2>2. r.type = "consumed" /\ s.type = "request" /\ "consumed" # "request"
      BY <1>2
  <2>3. AddsTwo(r, s, "consumed", "request")
      BY <2>1, <2>2, TwoNew
  <2> QED BY <1>4, <2>3 DEF AddsTwo
<1>6. CreatedOnce'
    BY <1>0, <1>5, CreatedStable
<1>7. SingleUse'
  <2>1. CASE OfType("consumed")' = OfType("consumed")
      BY <1>0, <1>5, <2>1, SingleUseStable
  <2>2. CASE OfType("consumed")' = OfType("consumed") \cup {L + 1} /\ lines'[L + 1].rec = r
    <3>1. \A i \in Entries : i < L + 1
        BY <1>5
    <3>2. ConsumeLocked(AuthOf(q), WorkerOf(q), t)
        BY DEF MaySubmit
    <3>3. OfType("revoked")' = OfType("revoked") /\ OfType("authorization")' = OfType("authorization")
        BY <1>5
    <3> QED BY <1>0, <1>2, <1>5, <2>2, <3>1, <3>2, <3>3, ConsumedGrows
  <2> QED BY <1>5, <2>1, <2>2
<1>8. DecisionsAgree'
    BY <1>0, <1>3, <1>5, <1>6, DecisionsStable
<1>9. OneKey'
    BY <1>0, <1>5, OneKeyStable
<1>10. EnrollmentTrail'
  <2>1. OfType("member")' = OfType("member")
      BY <1>5
  <2>2. \A i \in OfType("member") : MemberTrail(i)'
      BY <1>0, <1>5, TrailStable
  <2>3. \A i \in OfType("request") : RequestTrail(i)'
      BY <1>0, <1>5, TrailStable
  <2>4. CASE OfType("request")' = OfType("request")
      BY <2>1, <2>2, <2>3, <2>4, TrailParts
  <2>5. CASE /\ OfType("consumed")' = OfType("consumed") \cup {L + 1} /\ lines'[L + 1].rec = r
             /\ OfType("request")' = OfType("request") \cup {L + 2} /\ lines'[L + 2].rec = s
    <3>1. (L + 2) - 1 = L + 1
        BY <1>5
    <3>2. PICK a : a = AuthOf(q)
        OBVIOUS
    <3>3. L + 1 \in Events("consumed", a)'
        BY <1>2, <2>5, <3>2 DEF Events
    <3>4. RequestTrail(L + 2)'
        BY <1>2, <2>5, <3>1, <3>2, <3>3 DEF RequestTrail, Events, AuthOf, WorkerOf
    <3>5. \A i \in OfType("request")' : RequestTrail(i)'
        BY <1>4, <2>3, <2>5, <3>4
    <3> QED BY <2>1, <2>2, <3>5, TrailParts
  <2> QED BY <1>5, <2>4, <2>5
<1>11. DecidedKnown'
    BY <1>0, <1>5, DecidedStable
<1> QED BY <1>3, <1>5, <1>6, <1>7, <1>8, <1>9, <1>10, <1>11 DEF LedgerInv, Story

\* consume_authorization.
LEMMA ConsumeStep ==
    ASSUME LedgerInv, NEW a \in Auths, NEW w \in Workers, NEW t \in Times, ConsumeLocked(a, w, t),
           Write(<<Consumed(a, w, None, t)>>) \/ WriteStops(<<Consumed(a, w, None, t)>>)
    PROVE  LedgerInv' /\ Later
<1>0. /\ LedgerTypes /\ ChainVerifies /\ DecidedKnown
      /\ CreatedOnce /\ SingleUse /\ DecisionsAgree /\ OneKey /\ EnrollmentTrail
    BY DEF LedgerInv, Story
<1>1. PICK r : r = Consumed(a, w, None, t)
    OBVIOUS
<1>2. r \in LedgerRecords /\ r.type = "consumed" /\ r.auth = a /\ r.worker = w /\ r.at = t
    BY <1>1, RecordFacts, FieldFacts
<1>3. LedgerTypes' /\ ChainVerifies' /\ \E m \in 0..1 : Appended(<<r>>, m)
    BY <1>0, <1>1, <1>2, WriteOne
<1>4. PICK L : L = Len(lines)
    OBVIOUS
<1>5. /\ Later /\ L \in Nat /\ Entries = 1..L
      /\ \A y : y # "consumed" => OfType(y)' = OfType(y)
      /\ \/ OfType("consumed")' = OfType("consumed")
         \/ OfType("consumed")' = OfType("consumed") \cup {L + 1} /\ lines'[L + 1].rec = r
    BY <1>2, <1>3, <1>4, OneNew
<1>6. CreatedOnce'
    BY <1>0, <1>5, CreatedStable
<1>7. SingleUse'
  <2>1. CASE OfType("consumed")' = OfType("consumed")
      BY <1>0, <1>5, <2>1, SingleUseStable
  <2>2. CASE OfType("consumed")' = OfType("consumed") \cup {L + 1} /\ lines'[L + 1].rec = r
    <3>1. \A i \in Entries : i < L + 1
        BY <1>5
    <3>2. OfType("revoked")' = OfType("revoked") /\ OfType("authorization")' = OfType("authorization")
        BY <1>5
    <3> QED BY <1>0, <1>2, <1>5, <2>2, <3>1, <3>2, ConsumedGrows
  <2> QED BY <1>5, <2>1, <2>2
<1>8. DecisionsAgree'
    BY <1>0, <1>3, <1>5, <1>6, DecisionsStable
<1>9. OneKey' /\ EnrollmentTrail'
    BY <1>0, <1>5, OneKeyStable, TrailStable, TrailParts
<1>10. DecidedKnown'
    BY <1>0, <1>5, DecidedStable
<1> QED BY <1>3, <1>5, <1>6, <1>7, <1>8, <1>9, <1>10 DEF LedgerInv, Story
\* A denial or an expiry.
LEMMA DecideStep ==
    ASSUME LedgerInv, NEW q \in Submitted, NEW w \in Names, NEW v \in Verdicts, NEW t \in Times,
           MayDecide(q, w, v, t),
           Write(<<Decision(q, w, v, t)>>) \/ WriteStops(<<Decision(q, w, v, t)>>)
    PROVE  LedgerInv' /\ Later
<1>0. /\ LedgerTypes /\ ChainVerifies /\ DecidedKnown
      /\ CreatedOnce /\ SingleUse /\ DecisionsAgree /\ OneKey /\ EnrollmentTrail
    BY DEF LedgerInv, Story
<1>q. q \in Requests
    BY <1>0, EntryTypes DEF Submitted, RequestSet
<1>1. PICK r : r = Decision(q, w, v, t)
    OBVIOUS
<1>2. r \in LedgerRecords /\ r.type = "decision" /\ r.req = q /\ r.verdict = v /\ r.at = t
    BY <1>1, <1>q, RecordFacts, FieldFacts
<1>3. LedgerTypes' /\ ChainVerifies' /\ \E m \in 0..1 : Appended(<<r>>, m)
    BY <1>0, <1>1, <1>2, WriteOne
<1>4. PICK L : L = Len(lines)
    OBVIOUS
<1>5. /\ Later /\ L \in Nat /\ Entries = 1..L
      /\ \A y : y # "decision" => OfType(y)' = OfType(y)
      /\ \/ OfType("decision")' = OfType("decision")
         \/ OfType("decision")' = OfType("decision") \cup {L + 1} /\ lines'[L + 1].rec = r
    BY <1>2, <1>3, <1>4, OneNew
<1>6. CreatedOnce' /\ SingleUse' /\ OneKey' /\ EnrollmentTrail'
  <2>1. CreatedOnce' /\ SingleUse'
      BY <1>0, <1>5, CreatedStable, SingleUseStable
  <2>2. OneKey' /\ EnrollmentTrail'
      BY <1>0, <1>5, OneKeyStable, TrailStable, TrailParts
  <2> QED BY <2>1, <2>2
<1>7. DecisionsAgree' /\ DecidedKnown'
  <2>1. CASE OfType("decision")' = OfType("decision")
      BY <1>0, <1>3, <1>5, <1>6, <2>1, DecisionsStable, DecidedStable
  <2>2. CASE OfType("decision")' = OfType("decision") \cup {L + 1} /\ lines'[L + 1].rec = r
    <3>1. \A i \in Entries : i < L + 1
        BY <1>5
    <3>2. OfType("revoked")' = OfType("revoked") /\ OfType("authorization")' = OfType("authorization")
        BY <1>5
    <3>3. DecisionsAgree'
        BY <1>0, <1>2, <1>5, <2>2, <3>1, <3>2, DecisionGrows
    <3>4. DecidedKnown'
      <4>1. \A i \in OfType("decision") : lines'[i].rec = lines[i].rec
          BY <1>5, OfTypeLater DEF Later
      <4> QED BY <1>0, <1>2, <1>5, <2>2, <4>1, SubmittedGrows DEF DecidedKnown
    <3> QED BY <3>3, <3>4
  <2> QED BY <1>5, <2>1, <2>2
<1> QED BY <1>3, <1>5, <1>6, <1>7 DEF LedgerInv, Story

\* An approval: the decision and the membership.
LEMMA ApproveStep ==
    ASSUME LedgerInv, NEW q \in Submitted, NEW w \in Names, NEW t \in Times,
           MayDecide(q, w, "APPROVED", t),
           Write(Approval(q, w, t)) \/ WriteStops(Approval(q, w, t))
    PROVE  LedgerInv' /\ Later
<1>0. /\ LedgerTypes /\ ChainVerifies /\ DecidedKnown
      /\ CreatedOnce /\ SingleUse /\ DecisionsAgree /\ OneKey /\ EnrollmentTrail
    BY DEF LedgerInv, Story
<1>q. q \in Requests /\ KeyOf(q) \in Keys
  <2>1. q \in Requests
      BY <1>0, EntryTypes DEF Submitted, RequestSet
  <2> QED BY <2>1, RequestTypes
<1>1. PICK r, s : r = Decision(q, w, "APPROVED", t) /\ s = Member(w, KeyOf(q), "ENROLLED", q)
    OBVIOUS
<1>2. /\ r \in LedgerRecords /\ r.type = "decision" /\ r.req = q /\ r.verdict = "APPROVED" /\ r.at = t
      /\ s \in LedgerRecords /\ s.type = "member" /\ s.worker = w /\ s.key = KeyOf(q) /\ s.status = "ENROLLED" /\ s.req = q
  <2>1. "APPROVED" \in Verdicts
      BY DEF Verdicts
  <2> QED BY <1>1, <1>q, <2>1, RecordFacts, FieldFacts
<1>3. LedgerTypes' /\ ChainVerifies' /\ \E m \in 0..2 : Appended(<<r, s>>, m)
    BY <1>0, <1>1, <1>2, WriteTwo DEF Approval
<1>4. PICK L : L = Len(lines)
    OBVIOUS
<1>5. /\ Later /\ L \in Nat /\ Entries = 1..L
      /\ \A y : y # "decision" /\ y # "member" => OfType(y)' = OfType(y)
      /\ \/ OfType("decision")' = OfType("decision") /\ OfType("member")' = OfType("member")
         \/ /\ OfType("decision")' = OfType("decision") \cup {L + 1} /\ lines'[L + 1].rec = r
            /\ \/ OfType("member")' = OfType("member")
               \/ OfType("member")' = OfType("member") \cup {L + 2} /\ lines'[L + 2].rec = s
  <2>1. PICK m \in 0..2 : Appended(<<r, s>>, m)
      BY <1>3
  <2>2. r.type = "decision" /\ s.type = "member" /\ "decision" # "member"
      BY <1>2
  <2>3. AddsTwo(r, s, "decision", "member")
      BY <2>1, <2>2, TwoNew
  <2> QED BY <1>4, <2>3 DEF AddsTwo
<1>6. CreatedOnce' /\ SingleUse'
    BY <1>0, <1>5, CreatedStable, SingleUseStable
<1>7. DecisionsAgree' /\ DecidedKnown'
  <2>1. CASE OfType("decision")' = OfType("decision")
      BY <1>0, <1>3, <1>5, <1>6, <2>1, DecisionsStable, DecidedStable
  <2>2. CASE OfType("decision")' = OfType("decision") \cup {L + 1} /\ lines'[L + 1].rec = r
    <3>1. \A i \in Entries : i < L + 1
        BY <1>5
    <3>2. OfType("revoked")' = OfType("revoked") /\ OfType("authorization")' = OfType("authorization")
        BY <1>5
    <3>3. DecisionsAgree'
      <4>1. PICK v \in Verdicts : v = "APPROVED"
          BY DEF Verdicts
      <4>2. MayDecide(q, w, v, t) /\ r.verdict = v
          BY <1>2, <4>1
      <4> QED BY <1>0, <1>2, <1>5, <2>2, <3>1, <3>2, <4>2, DecisionGrows
    <3>4. DecidedKnown'
      <4>1. \A i \in OfType("decision") : lines'[i].rec = lines[i].rec
          BY <1>5, OfTypeLater DEF Later
      <4> QED BY <1>0, <1>2, <1>5, <2>2, <4>1, SubmittedGrows DEF DecidedKnown
    <3> QED BY <3>3, <3>4
  <2> QED BY <1>5, <2>1, <2>2
<1>8. CASE OfType("member")' = OfType("member")
  <2>1. OneKey'
      BY <1>0, <1>5, <1>8, OneKeyStable
  <2>2. EnrollmentTrail'
      BY <1>0, <1>5, <1>8, TrailStable, TrailParts
  <2> QED BY <1>3, <1>5, <1>6, <1>7, <2>1, <2>2 DEF LedgerInv, Story
<1>9. CASE /\ OfType("decision")' = OfType("decision") \cup {L + 1} /\ lines'[L + 1].rec = r
           /\ OfType("member")' = OfType("member") \cup {L + 2} /\ lines'[L + 2].rec = s
  <2>1. OneKey'
    <3>1. (\A i \in Entries : i < L + 2) /\ L + 2 \in Int
        BY <1>5
    <3>2. Enrolled(w) => EnrolledKey(w) = s.key
        BY <1>2 DEF MayDecide
    <3> QED BY <1>0, <1>2, <1>5, <1>9, <3>1, <3>2, MemberGrows
  <2>2. EnrollmentTrail'
    <3>1. (L + 2) - 1 = L + 1 /\ (L + 2) - 2 = L
        BY <1>5
    <3>2. L + 1 \in Decisions(q)'
        BY <1>2, <1>9 DEF Decisions
    <3>3. \E j \in 1..L : lines'[j].rec = Request(q)
      <4>1. PICK j \in OfType("request") : lines[j].rec.req = q
          BY DEF Submitted
      <4>2. j \in 1..L /\ lines'[j].rec = lines[j].rec
          BY <1>5, <4>1, OfTypeLater DEF Later
      <4>3. lines[j].rec = Request(q)
          BY <1>0, <4>1, EntryTypes DEF RequestSet, Request
      <4> QED BY <4>2, <4>3
    <3>4. MemberTrail(L + 2)'
      <4>1. PICK x : x = L + 2
          OBVIOUS
      <4>2. lines'[x].rec = s /\ x - 1 = L + 1 /\ x - 2 = L
          BY <1>9, <3>1, <4>1
      <4>3. x - 1 \in Decisions(s.req)'
          BY <1>2, <3>2, <4>2
      <4>4. \E u \in Times : lines'[x - 1].rec = Decision(s.req, s.worker, "APPROVED", u)
          BY <1>1, <1>2, <1>9, <4>2
      <4>5. s.key = KeyOf(s.req) /\ \E j \in 1..(x - 2) : lines'[j].rec = Request(s.req)
          BY <1>2, <3>3, <4>2
      <4>6. MemberTrail(x)'
          BY <4>2, <4>3, <4>4, <4>5 DEF MemberTrail, Decisions
      <4> QED BY <4>1, <4>6
    <3>5. \A i \in OfType("member")' : MemberTrail(i)'
        BY <1>0, <1>4, <1>5, <1>9, <3>4, TrailStable
    <3>6. OfType("request")' = OfType("request")
        BY <1>5
    <3>7. \A i \in OfType("request")' : RequestTrail(i)'
        BY <1>0, <1>5, <3>6, TrailStable
    <3> QED BY <3>5, <3>7, TrailParts
  <2> QED BY <1>3, <1>5, <1>6, <1>7, <2>1, <2>2 DEF LedgerInv, Story
<1> QED BY <1>5, <1>8, <1>9
\* revoke_authorization.
LEMMA RevokeAuthorizationStep ==
    ASSUME LedgerInv, NEW a \in Auths, Write(<<Revoked(a)>>) \/ WriteStops(<<Revoked(a)>>)
    PROVE  LedgerInv' /\ Later
<1>0. /\ LedgerTypes /\ ChainVerifies /\ DecidedKnown
      /\ CreatedOnce /\ SingleUse /\ DecisionsAgree /\ OneKey /\ EnrollmentTrail
    BY DEF LedgerInv, Story
<1>1. PICK r : r = Revoked(a)
    OBVIOUS
<1>2. r \in LedgerRecords /\ r.type = "revoked"
    BY <1>1, RecordFacts, FieldFacts
<1>3. LedgerTypes' /\ ChainVerifies' /\ \E m \in 0..1 : Appended(<<r>>, m)
    BY <1>0, <1>1, <1>2, WriteOne
<1>4. Later /\ \A y : y # "revoked" => OfType(y)' = OfType(y)
    BY <1>2, <1>3, OneNew
<1>5. CreatedOnce' /\ SingleUse'
    BY <1>0, <1>4, CreatedStable, SingleUseStable
<1>6. DecisionsAgree' /\ DecidedKnown'
    BY <1>0, <1>3, <1>4, <1>5, DecisionsStable, DecidedStable
<1>7. OneKey' /\ EnrollmentTrail'
    BY <1>0, <1>4, OneKeyStable, TrailStable, TrailParts
<1> QED BY <1>3, <1>4, <1>5, <1>6, <1>7 DEF LedgerInv, Story

\* revoke_worker.
LEMMA RevokeWorkerStep ==
    ASSUME LedgerInv, NEW w \in Names, NEW k \in Keys, Enrolled(w),
           Write(<<Member(w, k, "REVOKED", None)>>) \/ WriteStops(<<Member(w, k, "REVOKED", None)>>)
    PROVE  LedgerInv' /\ Later
<1>0. /\ LedgerTypes /\ ChainVerifies /\ DecidedKnown
      /\ CreatedOnce /\ SingleUse /\ DecisionsAgree /\ OneKey /\ EnrollmentTrail
    BY DEF LedgerInv, Story
<1>1. PICK r : r = Member(w, k, "REVOKED", None)
    OBVIOUS
<1>2. r \in LedgerRecords /\ r.type = "member" /\ r.worker = w /\ r.status = "REVOKED"
    BY <1>1, RecordFacts, FieldFacts
<1>3. LedgerTypes' /\ ChainVerifies' /\ \E m \in 0..1 : Appended(<<r>>, m)
    BY <1>0, <1>1, <1>2, WriteOne
<1>4. PICK L : L = Len(lines)
    OBVIOUS
<1>5. /\ Later /\ L \in Nat /\ Entries = 1..L
      /\ \A y : y # "member" => OfType(y)' = OfType(y)
      /\ \/ OfType("member")' = OfType("member")
         \/ OfType("member")' = OfType("member") \cup {L + 1} /\ lines'[L + 1].rec = r
    BY <1>2, <1>3, <1>4, OneNew
<1>6. CreatedOnce' /\ SingleUse'
    BY <1>0, <1>5, CreatedStable, SingleUseStable
<1>7. DecisionsAgree' /\ DecidedKnown'
    BY <1>0, <1>3, <1>5, <1>6, DecisionsStable, DecidedStable
<1>8. CASE OfType("member")' = OfType("member")
    BY <1>0, <1>3, <1>5, <1>6, <1>7, <1>8, OneKeyStable, TrailStable, TrailParts DEF LedgerInv, Story
<1>9. CASE OfType("member")' = OfType("member") \cup {L + 1} /\ lines'[L + 1].rec = r
  <2>1. OneKey'
    <3>1. (\A i \in Entries : i < L + 1) /\ L + 1 \in Int
        BY <1>5
    <3> QED BY <1>0, <1>2, <1>5, <1>9, <3>1, MemberGrows
  <2>2. EnrollmentTrail'
    <3>1. MemberTrail(L + 1)'
        BY <1>2, <1>4, <1>9 DEF MemberTrail
    <3>2. \A i \in OfType("member")' : MemberTrail(i)'
        BY <1>0, <1>4, <1>5, <1>9, <3>1, TrailStable
    <3>3. OfType("request")' = OfType("request")
        BY <1>5
    <3>4. \A i \in OfType("request")' : RequestTrail(i)'
        BY <1>0, <1>5, <3>3, TrailStable
    <3> QED BY <3>2, <3>4, TrailParts
  <2> QED BY <1>3, <1>5, <1>6, <1>7, <2>1, <2>2 DEF LedgerInv, Story
<1> QED BY <1>5, <1>8, <1>9

\* A step that leaves the file alone keeps the invariant of the ledger.
LEMMA SameLines ==
    ASSUME LedgerInv, UNCHANGED lines
    PROVE  LedgerInv' /\ Later
<1>1. LedgerTypes' /\ ChainVerifies' /\ Entries' = Entries
    BY DEF LedgerInv, LedgerTypes, ChainVerifies, Valid, Entries
<1>2. Later
    BY <1>1 DEF Later
<1>3. \A t : OfType(t)' = OfType(t)
    BY <1>1 DEF OfType
<1> QED BY <1>1, <1>2, <1>3, QuietStep

\* So does a repair.
LEMMA RecoverStep ==
    ASSUME LedgerInv, Recover
    PROVE  LedgerInv' /\ Later
<1>1. /\ LedgerTypes' /\ ChainVerifies'
      /\ Entries' = Entries /\ \A i \in Entries : lines'[i].rec = lines[i].rec
    BY RecoverFacts DEF LedgerInv
<1>2. Later
    BY <1>1 DEF Later
<1>3. \A t : OfType(t)' = OfType(t)
    BY <1>1 DEF OfType
<1> QED BY <1>1, <1>2, <1>3, QuietStep

-----------------------------------------------------------------------------
(* The processes.                                                            *)

\* An operation in progress, by its kind.
LEMMA OpKinds ==
    ASSUME NEW o \in OpSet
    PROVE  \/ o.kind = "submit" /\ o \in SubmitSet
           \/ o.kind = "consume" /\ o \in ConsumeSet
           \/ o.kind = "decide" /\ o \in DecideSet
           \/ o.kind = "revoke_authorization" /\ o \in RevokeAuthSet
           \/ o.kind = "revoke_worker" /\ o \in RevokeWorkerSet
BY DEF OpSet, SubmitSet, ConsumeSet, DecideSet, RevokeAuthSet, RevokeWorkerSet

\* The append of any operation keeps the invariant of the ledger.
LEMMA CommitStep ==
    ASSUME LedgerInv, NEW o \in OpSet, o.kind = "decide" => o.req \in Submitted,
           Precondition(o), Write(Batch(o)) \/ WriteStops(Batch(o))
    PROVE  LedgerInv' /\ Later
<1>1. CASE o.kind = "submit" /\ o \in SubmitSet
  <2>1. o.req \in Requests /\ o.at \in Times /\ MaySubmit(o.req, o.at) /\ Batch(o) = Submission(o.req, o.at)
      BY <1>1 DEF SubmitSet, Precondition, Batch
  <2> QED BY <2>1, SubmitStep
<1>2. CASE o.kind = "consume" /\ o \in ConsumeSet
  <2>1. /\ o.auth \in Auths /\ o.worker \in Workers /\ o.at \in Times
        /\ ConsumeLocked(o.auth, o.worker, o.at) /\ Batch(o) = <<Consumed(o.auth, o.worker, None, o.at)>>
      BY <1>2 DEF ConsumeSet, Precondition, Batch
  <2> QED BY <2>1, ConsumeStep
<1>3. CASE o.kind = "decide" /\ o \in DecideSet
  <2>1. /\ o.req \in Submitted /\ o.worker \in Names /\ o.verdict \in Verdicts /\ o.at \in Times
        /\ MayDecide(o.req, o.worker, o.verdict, o.at)
      BY <1>3 DEF DecideSet, Precondition
  <2>2. CASE o.verdict = "APPROVED"
    <3>1. Batch(o) = Approval(o.req, o.worker, o.at)
        BY <1>3, <2>2 DEF Batch
    <3> QED BY <2>1, <2>2, <3>1, ApproveStep
  <2>3. CASE o.verdict # "APPROVED"
    <3>1. Batch(o) = <<Decision(o.req, o.worker, o.verdict, o.at)>>
        BY <1>3, <2>3 DEF Batch
    <3> QED BY <2>1, <3>1, DecideStep
  <2> QED BY <2>2, <2>3
<1>4. CASE o.kind = "revoke_authorization" /\ o \in RevokeAuthSet
  <2>1. o.auth \in Auths /\ Batch(o) = <<Revoked(o.auth)>>
      BY <1>4 DEF RevokeAuthSet, Batch
  <2> QED BY <2>1, RevokeAuthorizationStep
<1>5. CASE o.kind = "revoke_worker" /\ o \in RevokeWorkerSet
  <2>1. /\ o.worker \in Names /\ o.key \in Keys /\ Enrolled(o.worker)
        /\ Batch(o) = <<Member(o.worker, o.key, "REVOKED", None)>>
      BY <1>5 DEF RevokeWorkerSet, Precondition, Batch
  <2> QED BY <2>1, RevokeWorkerStep
<1> QED BY <1>1, <1>2, <1>3, <1>4, <1>5, OpKinds

\* A process begins an operation of its type, or ends one.
LEMMA OpsStep ==
    ASSUME ProcTypes, OpsKnown, Later, UNCHANGED now,
           NEW p \in Procs, NEW o \in OpSet \cup {Idle}, o.kind = "decide" => o.req \in Submitted,
           op' = [op EXCEPT ![p] = o]
    PROVE  ProcTypes' /\ OpsKnown'
<1>1. ProcTypes'
    BY DEF ProcTypes
<1>2. ASSUME NEW x \in Procs, op'[x].kind = "decide" PROVE op'[x].req \in Submitted
  <2>1. op'[x] = IF x = p THEN o ELSE op[x]
      BY DEF ProcTypes
  <2> QED BY <1>2, <2>1 DEF OpsKnown
<1> QED BY <1>1, <1>2, SubmittedGrows DEF OpsKnown
\* The empty ledger and idle processes satisfy the invariant.
LEMMA InitInv == Init => Inv
<1> SUFFICES ASSUME Init PROVE Inv
    OBVIOUS
<1>1. lines = <<>> /\ now = 0 /\ op = [p \in Procs |-> Idle]
    BY DEF Init, LedgerInit
<1>2. lines \in Seq(LineSet) /\ DOMAIN lines = {} /\ Len(lines) = 0
    BY <1>1
<1>3. Entries = {} /\ \A t : OfType(t) = {}
    BY <1>2 DEF Entries, OfType
<1>4. LedgerTypes /\ ChainVerifies
    BY <1>2 DEF LedgerTypes, ChainVerifies, Valid
<1>5. DecidedKnown /\ CreatedOnce /\ SingleUse /\ DecisionsAgree /\ OneKey /\ EnrollmentTrail
    BY <1>3 DEF DecidedKnown, CreatedOnce, SingleUse, DecisionsAgree, OneKey, EnrollmentTrail
<1>6. ProcTypes /\ OpsKnown
    BY <1>1, LifecycleAssumption DEF ProcTypes, OpsKnown, Times, Idle
<1> QED BY <1>4, <1>5, <1>6 DEF Inv, LedgerInv, Story

\* Every step keeps the invariant, and the entries that could be read.
LEMMA NextInv == Inv /\ [Next]_vars => Inv' /\ Later
<1> SUFFICES ASSUME Inv, [Next]_vars PROVE Inv' /\ Later
    OBVIOUS
<1>0. LedgerInv /\ LedgerTypes /\ ProcTypes /\ OpsKnown
    BY DEF Inv, LedgerInv
<1>n. now \in Times /\ op \in [Procs -> OpSet \cup {Idle}]
    BY <1>0 DEF ProcTypes
<1>i. Idle \in OpSet \cup {Idle} /\ Idle.kind # "decide"
    BY DEF Idle
<1>1. ASSUME UNCHANGED <<lines, now, op>> PROVE Inv' /\ Later
  <2>1. LedgerInv' /\ Later
      BY <1>0, <1>1, SameLines
  <2> QED BY <1>0, <1>1, <2>1, SubmittedGrows DEF Inv, ProcTypes, OpsKnown
<1>2. ASSUME Tick PROVE Inv' /\ Later
  <2>1. LedgerInv' /\ Later
      BY <1>0, <1>2, SameLines DEF Tick
  <2>2. now' \in Times
      BY <1>n, <1>2, LifecycleAssumption DEF Tick, Times
  <2> QED BY <1>0, <1>2, <2>1, <2>2, SubmittedGrows DEF Inv, ProcTypes, OpsKnown, Tick
<1>3. ASSUME Repair PROVE Inv' /\ Later
  <2>1. LedgerInv' /\ Later
      BY <1>0, <1>3, RecoverStep DEF Repair
  <2> QED BY <1>0, <1>3, <2>1, SubmittedGrows DEF Inv, ProcTypes, OpsKnown, Repair
<1>4. ASSUME NEW p \in Procs, NEW a \in Auths, NEW w \in Expected, CreateAuthorization(p, a, w) PROVE Inv' /\ Later
  <2>1. LedgerInv' /\ Later
      BY <1>0, <1>n, <1>4, CreateStep DEF CreateAuthorization
  <2> QED BY <1>0, <1>4, <2>1, SubmittedGrows DEF Inv, ProcTypes, OpsKnown, CreateAuthorization
<1>5. ASSUME NEW p \in Procs, NEW o \in OpSet, o.kind = "decide" => o.req \in Submitted, Begin(p, o)
      PROVE  Inv' /\ Later
  <2>1. LedgerInv' /\ Later
      BY <1>0, <1>5, SameLines DEF Begin
  <2>2. ProcTypes' /\ OpsKnown'
      BY <1>0, <1>5, <2>1, OpsStep DEF Begin
  <2> QED BY <2>1, <2>2 DEF Inv
<1>6. ASSUME NEW p \in Procs, NEW q \in Requests, BeginSubmit(p, q) PROVE Inv' /\ Later
  <2>1. PICK o : o = [kind |-> "submit", req |-> q, at |-> now]
      OBVIOUS
  <2>2. o \in OpSet /\ o.kind # "decide"
      BY <1>n, <2>1 DEF OpSet, SubmitSet
  <2> QED BY <1>5, <1>6, <2>1, <2>2 DEF BeginSubmit
<1>7. ASSUME NEW p \in Procs, NEW a \in Auths, NEW w \in Workers, BeginConsume(p, a, w) PROVE Inv' /\ Later
  <2>1. PICK o : o = [kind |-> "consume", auth |-> a, worker |-> w, at |-> now]
      OBVIOUS
  <2>2. o \in OpSet /\ o.kind # "decide"
      BY <1>n, <2>1 DEF OpSet, ConsumeSet
  <2> QED BY <1>5, <1>7, <2>1, <2>2 DEF BeginConsume
<1>8. ASSUME NEW p \in Procs, NEW q \in Submitted, NEW w \in Names, NEW v \in Verdicts, BeginDecide(p, q, w, v)
      PROVE  Inv' /\ Later
  <2>1. PICK o : o = [kind |-> "decide", req |-> q, worker |-> w, verdict |-> v, at |-> now]
      OBVIOUS
  <2>2. q \in Requests
      BY <1>0, EntryTypes DEF Submitted, RequestSet
  <2>3. o \in OpSet /\ o.req \in Submitted
      BY <1>n, <2>1, <2>2 DEF OpSet, DecideSet
  <2> QED BY <1>5, <1>8, <2>1, <2>3 DEF BeginDecide
<1>9. ASSUME NEW p \in Procs, NEW a \in Auths, BeginRevokeAuthorization(p, a) PROVE Inv' /\ Later
  <2>1. PICK o : o = [kind |-> "revoke_authorization", auth |-> a]
      OBVIOUS
  <2>2. o \in OpSet /\ o.kind # "decide"
      BY <2>1 DEF OpSet, RevokeAuthSet
  <2> QED BY <1>5, <1>9, <2>1, <2>2 DEF BeginRevokeAuthorization
<1>10. ASSUME NEW p \in Procs, NEW w \in Names, BeginRevokeWorker(p, w) PROVE Inv' /\ Later
  <2>1. PICK o : o = [kind |-> "revoke_worker", worker |-> w, key |-> EnrolledKey(w)]
      OBVIOUS
  <2>2. EnrolledKey(w) \in Keys
    <3>1. Memberships(w) # {} /\ Memberships(w) \subseteq Entries
        BY <1>0, <1>10, EntryTypes DEF BeginRevokeWorker, Enrolled, Memberships
    <3>2. PICK i \in Memberships(w) : Latest(Memberships(w)) = lines[i].rec
        BY <1>0, <3>1, LatestFacts
    <3>3. lines[i].rec \in MemberSet
        BY <1>0, <3>2, EntryTypes DEF Memberships
    <3> QED BY <3>2, <3>3 DEF EnrolledKey, MemberSet
  <2>3. o \in OpSet /\ o.kind # "decide"
      BY <2>1, <2>2 DEF OpSet, RevokeWorkerSet
  <2> QED BY <1>5, <1>10, <2>1, <2>3 DEF BeginRevokeWorker
<1>11. ASSUME NEW p \in Procs, Commit(p) \/ CommitStops(p) PROVE Inv' /\ Later
  <2>1. /\ op[p] # Idle /\ Precondition(op[p]) /\ Ended(p)
        /\ Write(Batch(op[p])) \/ WriteStops(Batch(op[p]))
      BY <1>11 DEF Commit, CommitStops
  <2>2. op[p] \in OpSet /\ (op[p].kind = "decide" => op[p].req \in Submitted)
      BY <1>0, <1>n, <2>1 DEF OpsKnown
  <2>3. LedgerInv' /\ Later
      BY <1>0, <2>1, <2>2, CommitStep
  <2>4. ProcTypes' /\ OpsKnown'
      BY <1>0, <1>i, <2>1, <2>3, OpsStep DEF Ended
  <2> QED BY <2>3, <2>4 DEF Inv
<1>12. ASSUME NEW p \in Procs, Raises(p) PROVE Inv' /\ Later
  <2>1. LedgerInv' /\ Later
      BY <1>0, <1>12, SameLines DEF Raises
  <2>2. ProcTypes' /\ OpsKnown'
      BY <1>0, <1>i, <1>12, <2>1, OpsStep DEF Raises, Ended
  <2> QED BY <2>1, <2>2 DEF Inv
<1> QED BY <1>1, <1>2, <1>3, <1>4, <1>6, <1>7, <1>8, <1>9, <1>10, <1>11, <1>12 DEF Next, vars

\* The invariant holds in every reachable state.
LEMMA Inductive == Spec => []Inv
<1>1. Inv /\ [Next]_vars => Inv'
    BY NextInv
<1> QED BY InitInv, <1>1, PTL DEF Spec

-----------------------------------------------------------------------------
(* The theorems.                                                             *)

\* Whatever writes stop half way, at any byte and in any operation, and whatever
\* is repaired, the file verifies (store.py:113-183, 250-277): its entries are
\* numbered without a gap and only its last line may be damaged.
THEOREM LedgerVerifies == Spec => []ChainVerifies
<1>1. Inv => ChainVerifies
    BY DEF Inv, LedgerInv
<1> QED BY Inductive, <1>1, PTL

\* "Append immutable records" (store.py:96): no operation, stopped write or repair
\* removes, moves or changes an entry that could be read.
THEOREM EntriesAreKept == Spec => AppendOnly
<1>1. Inv /\ [Next]_vars => [\A i \in Entries : i \in Entries' /\ lines'[i].rec = lines[i].rec]_lines
    BY NextInv DEF Later
<1> QED BY Inductive, <1>1, PTL DEF Spec, AppendOnly

\* Any number of controller processes consume an authorization at most once, for
\* a worker it was issued for, before it expired and before it was revoked
\* (lifecycle.py:231-382, store.py:327-329).
THEOREM AuthorizationsSingleUse == Spec => []SingleUse
<1>1. Inv => SingleUse
    BY DEF Inv, LedgerInv, Story
<1> QED BY Inductive, <1>1, PTL

\* What the ledger says of an enrollment is one consistent story, although every
\* operation decides on what it read before it held the lock (lifecycle.py:384-520).
THEOREM EnrollmentsSound == Spec => []EnrollmentSound
<1>1. Inv => EnrollmentSound
    BY DEF Inv, LedgerInv, Story, EnrollmentSound
<1> QED BY Inductive, <1>1, PTL
-----------------------------------------------------------------------------
(***************************************************************************)
(* The fleet manager (FleetManager), for any workers, threads, versions     *)
(* and machines, whatever their inventories, plans and certificates, and    *)
(* whichever operations run beside each other.                              *)
(***************************************************************************)
CONSTANTS Threads, NoVersion, Versions, ControllerVersion, Hosts, Beside, MaxChanges, MaxOperations
VARIABLES host, installed, up, mgmt, desired, cert, conf, txn, operation, recovering, overlapped,
          changes, operations

F == INSTANCE FleetManager WITH op <- operation

IsSequence(s) == \E S : s \in Seq(S)

TxnFields == {"state", "expected", "previous", "missed", "expired"}
IsTxn(r) == r = [f \in TxnFields |-> r[f]]
TxnOrNone(r) == r = None \/ IsTxn(r)

OpFields == {"kind", "w", "host", "inventory", "todo", "actions", "txn", "outer", "seen", "desired",
             "cert", "conf", "decision"}
IsOp(o) ==
    /\ o = [f \in OpFields |-> o[f]]
    /\ o.kind # "idle" /\ o.w \in Workers /\ TxnOrNone(o.txn) /\ TxnOrNone(o.outer)

\* Steps that certify nothing, and fail where they say so.
ToCertify(s) == s[1] = "txn" /\ s[2] = "CERTIFYING"
Mild(s) == ~ToCertify(s) /\ (s[1] = "fail" => s[2] \in {"FAILED", "QUARANTINED"})
Plain(q) == IsSequence(q) /\ \A i \in DOMAIN q : Mild(q[i])

\* What is left of an operation: at most its next step certifies, and the
\* inventory in hand shows the version the transaction in hand expects.
Checked(o) ==
    /\ IsOp(o)
    /\ IsSequence(o.todo) /\ o.todo # <<>>
    /\ Plain(Tail(o.todo))
    /\ Head(o.todo)[1] = "fail" => Head(o.todo)[2] \in {"FAILED", "QUARANTINED"}
    /\ ToCertify(Head(o.todo)) => o.host.version = o.txn.expected

VersionInv ==
    /\ txn = [w \in Workers |-> txn[w]] /\ \A w \in Workers : TxnOrNone(txn[w])
    /\ operation = [t \in Threads |-> operation[t]]
    /\ \A t \in Threads : operation[t] = F!Idle \/ Checked(operation[t])

LEMMA PlainEmpty == Plain(<<>>)
BY DEF Plain, IsSequence

LEMMA PlainOne ==
    ASSUME NEW s, Mild(s)
    PROVE  Plain(<<s>>)
<1>1. <<s>> \in Seq({s}) /\ \A i \in DOMAIN <<s>> : <<s>>[i] = s
    OBVIOUS
<1> QED BY <1>1 DEF Plain, IsSequence

LEMMA PlainJoined ==
    ASSUME NEW p, NEW q, Plain(p), Plain(q)
    PROVE  Plain(p \o q)
<1>1. PICK S, T : p \in Seq(S) /\ q \in Seq(T)
    BY DEF Plain, IsSequence
<1>2. p \in Seq(S \cup T) /\ q \in Seq(S \cup T)
    BY <1>1
<1>3. p \o q \in Seq(S \cup T)
    BY <1>2
<1>4. ASSUME NEW i \in DOMAIN (p \o q) PROVE Mild((p \o q)[i])
  <2>1. Len(p) \in Nat /\ Len(q) \in Nat /\ DOMAIN p = 1..Len(p) /\ DOMAIN q = 1..Len(q)
        /\ i \in 1..(Len(p) + Len(q))
      BY <1>2
  <2>2. CASE i \in 1..Len(p)
      BY <1>2, <2>1, <2>2 DEF Plain
  <2>3. CASE i \notin 1..Len(p)
    <3>1. i - Len(p) \in 1..Len(q) /\ (p \o q)[i] = q[i - Len(p)]
        BY <1>2, <2>1, <2>3
    <3> QED BY <2>1, <3>1 DEF Plain
  <2> QED BY <2>2, <2>3
<1> QED BY <1>3, <1>4 DEF Plain, IsSequence

LEMMA PlainParts ==
    ASSUME NEW q, Plain(q), q # <<>>
    PROVE  Mild(Head(q)) /\ Plain(Tail(q))
<1>1. PICK S : q \in Seq(S)
    BY DEF Plain, IsSequence
<1>2. Len(q) \in Nat /\ DOMAIN q = 1..Len(q) /\ 1 \in 1..Len(q) /\ Head(q) = q[1]
    BY <1>1
<1>3. Tail(q) \in Seq(S) /\ DOMAIN Tail(q) = 1..(Len(q) - 1)
      /\ \A i \in 1..(Len(q) - 1) : Tail(q)[i] = q[i + 1] /\ i + 1 \in 1..Len(q)
    BY <1>1, <1>2
<1> QED BY <1>2, <1>3 DEF Plain, IsSequence

\* A step put before a plain rest.
LEMMA OneBefore ==
    ASSUME NEW s, NEW q, Plain(q)
    PROVE  /\ IsSequence(<<s>> \o q) /\ <<s>> \o q # <<>>
           /\ Head(<<s>> \o q) = s /\ Tail(<<s>> \o q) = q
<1>1. PICK S : q \in Seq(S)
    BY DEF Plain, IsSequence
<1>2. q \in Seq(S \cup {s}) /\ <<s>> \in Seq(S \cup {s})
    BY <1>1
<1>3. <<s>> \o q \in Seq(S \cup {s}) /\ <<s>> \o q # <<>> /\ Head(<<s>> \o q) = s
    BY <1>2
<1>4. Tail(<<s>> \o q) = q
    BY <1>2
<1> QED BY <1>3, <1>4 DEF IsSequence

\* A plain list of steps makes a checked operation, whatever is in its hand.
LEMMA PlainChecked ==
    ASSUME NEW o, IsOp(o), Plain(o.todo), o.todo # <<>>
    PROVE  Checked(o)
<1>1. Mild(Head(o.todo)) /\ Plain(Tail(o.todo)) /\ IsSequence(o.todo)
    BY PlainParts DEF Plain
<1> QED BY <1>1 DEF Checked, Mild

\* A thread that goes on with o leaves the others as they are.
LEMMA GoesOn ==
    ASSUME VersionInv, txn' = txn \/ (txn' = [w \in Workers |-> txn'[w]] /\ \A w \in Workers : TxnOrNone(txn'[w])),
           NEW t \in Threads, NEW o, o = F!Idle \/ Checked(o),
           operation' = [operation EXCEPT ![t] = o]
    PROVE  VersionInv'
<1>1. operation' = [s \in Threads |-> operation'[s]]
      /\ \A s \in Threads : operation'[s] = IF s = t THEN o ELSE operation[s]
    BY DEF VersionInv
<1>2. \A s \in Threads : operation'[s] = F!Idle \/ Checked(operation'[s])
    BY <1>1 DEF VersionInv
<1>3. txn' = [w \in Workers |-> txn'[w]] /\ \A w \in Workers : TxnOrNone(txn'[w])
    BY DEF VersionInv
<1>4. F!Idle' = F!Idle
    BY DEF F!Idle
<1> QED BY <1>1, <1>2, <1>3, <1>4 DEF VersionInv
\* An operation goes on with plain steps, or ends.
Calm(t) == F!Abort(t) \/ \E o : IsOp(o) /\ Plain(o.todo) /\ F!Goes(t, o)

TxnsKept ==
    txn' = txn \/ (txn' = [w \in Workers |-> txn'[w]] /\ \A w \in Workers : TxnOrNone(txn'[w]))

LEMMA CalmSteps ==
    ASSUME VersionInv, TxnsKept, NEW t \in Threads, Calm(t)
    PROVE  VersionInv'
<1>1. CASE F!Abort(t)
  <2>1. operation' = [operation EXCEPT ![t] = F!Idle]
      BY <1>1 DEF F!Abort
  <2> QED BY <2>1, GoesOn DEF TxnsKept
<1>2. CASE \E o : IsOp(o) /\ Plain(o.todo) /\ F!Goes(t, o)
  <2>1. PICK o : IsOp(o) /\ Plain(o.todo) /\ F!Goes(t, o)
      BY <1>2
  <2> DEFINE n == IF o.todo = <<>> THEN F!Idle ELSE o
  <2>2. operation' = [operation EXCEPT ![t] = n]
      BY <2>1 DEF F!Goes
  <2>3. n = F!Idle \/ Checked(n)
      BY <2>1, PlainChecked
  <2> HIDE DEF n
  <2> QED BY <2>2, <2>3, GoesOn DEF TxnsKept
<1> QED BY <1>1, <1>2 DEF Calm

\* The operation of a thread that has steps left.
LEMMA Acting ==
    ASSUME VersionInv, NEW t \in Threads, operation[t].todo # <<>>
    PROVE  Checked(operation[t])
BY DEF VersionInv, F!Idle

LEMMA InsteadOp ==
    ASSUME NEW t, Checked(operation[t]), NEW p, Plain(p)
    PROVE  IsOp(F!Instead(t, p)) /\ Plain(F!Instead(t, p).todo)
<1>1. F!Instead(t, p) = [operation[t] EXCEPT !.todo = p \o Tail(operation[t].todo)]
    BY DEF F!Instead
<1>2. IsOp(F!Instead(t, p)) /\ F!Instead(t, p).todo = p \o Tail(operation[t].todo)
    BY <1>1 DEF Checked, IsOp, OpFields
<1>3. Plain(p \o Tail(operation[t].todo))
    BY PlainJoined DEF Checked
<1> QED BY <1>2, <1>3

LEMMA AfterOp ==
    ASSUME NEW t, Checked(operation[t])
    PROVE  IsOp(F!After(t)) /\ F!After(t).todo = Tail(operation[t].todo) /\ Plain(F!After(t).todo)
<1>1. F!After(t) = [operation[t] EXCEPT !.todo = Tail(operation[t].todo)]
    BY DEF F!After
<1>2. IsOp(F!After(t)) /\ F!After(t).todo = Tail(operation[t].todo)
    BY <1>1 DEF Checked, IsOp, OpFields
<1> QED BY <1>2 DEF Checked

\* What else is taken into the hand does not matter.
LEMMA Taken ==
    ASSUME NEW o, IsOp(o), NEW v
    PROVE  /\ IsOp([o EXCEPT !.actions = v]) /\ [o EXCEPT !.actions = v].todo = o.todo
           /\ IsOp([o EXCEPT !.seen = v]) /\ [o EXCEPT !.seen = v].todo = o.todo
           /\ IsOp([o EXCEPT !.desired = v]) /\ [o EXCEPT !.desired = v].todo = o.todo
           /\ IsOp([o EXCEPT !.cert = v]) /\ [o EXCEPT !.cert = v].todo = o.todo
           /\ IsOp([o EXCEPT !.conf = v]) /\ [o EXCEPT !.conf = v].todo = o.todo
           /\ IsOp([o EXCEPT !.decision = v]) /\ [o EXCEPT !.decision = v].todo = o.todo
           /\ IsOp([o EXCEPT !.host = v]) /\ [o EXCEPT !.host = v].todo = o.todo
           /\ IsOp([o EXCEPT !.inventory = v]) /\ [o EXCEPT !.inventory = v].todo = o.todo
BY DEF IsOp, OpFields

LEMMA TakenTxn ==
    ASSUME NEW o, IsOp(o), NEW v, TxnOrNone(v)
    PROVE  /\ IsOp([o EXCEPT !.txn = v]) /\ [o EXCEPT !.txn = v].todo = o.todo
           /\ [o EXCEPT !.txn = v].host = o.host /\ [o EXCEPT !.txn = v].txn = v
           /\ [o EXCEPT !.txn = v].w = o.w
           /\ IsOp([o EXCEPT !.outer = v]) /\ [o EXCEPT !.outer = v].todo = o.todo
           /\ [o EXCEPT !.outer = v].host = o.host /\ [o EXCEPT !.outer = v].txn = o.txn
BY DEF IsOp, OpFields

LEMMA PlainSet == \A s : Plain(F!Set(s))
<1>1. ASSUME NEW s PROVE Plain(F!Set(s))
  <2>1. Mild(<<"set", [state |-> s]>>)
      BY DEF Mild, ToCertify
  <2> QED BY <2>1, PlainOne DEF F!Set
<1> QED BY <1>1

\* A literal list of steps is its first and the rest.
LEMMA PlainTwo ==
    ASSUME NEW a, NEW b, Mild(a), Mild(b)
    PROVE  Plain(<<a, b>>)
<1>1. <<a, b>> \in Seq({a, b}) /\ \A i \in DOMAIN <<a, b>> : <<a, b>>[i] \in {a, b}
    OBVIOUS
<1> QED BY <1>1 DEF Plain, IsSequence

LEMMA PlainThree ==
    ASSUME NEW a, NEW b, NEW c, Mild(a), Mild(b), Mild(c)
    PROVE  Plain(<<a, b, c>>)
<1>1. <<a, b, c>> \in Seq({a, b, c}) /\ \A i \in DOMAIN <<a, b, c>> : <<a, b, c>>[i] \in {a, b, c}
    OBVIOUS
<1> QED BY <1>1 DEF Plain, IsSequence

LEMMA PlainFive ==
    ASSUME NEW a, NEW b, NEW c, NEW d, NEW e, Mild(a), Mild(b), Mild(c), Mild(d), Mild(e)
    PROVE  Plain(<<a, b, c, d, e>>)
<1>1. /\ <<a, b, c, d, e>> \in Seq({a, b, c, d, e})
      /\ \A i \in DOMAIN <<a, b, c, d, e>> : <<a, b, c, d, e>>[i] \in {a, b, c, d, e}
    OBVIOUS
<1> QED BY <1>1 DEF Plain, IsSequence

\* The steps that are listed.
LEMMA MildSteps ==
    /\ \A n : n \notin {"txn", "fail"} => Mild(<<n>>) /\ (\A x : Mild(<<n, x>>)) /\ (\A x, y : Mild(<<n, x, y>>))
                                          /\ (\A x, y, z, v : Mild(<<n, x, y, z, v>>))
    /\ \A s : s # "CERTIFYING" => Mild(<<"txn", s>>)
    /\ Mild(<<"fail", "FAILED">>) /\ Mild(<<"fail", "QUARANTINED">>)
BY DEF Mild, ToCertify

LEMMA Lists ==
    /\ Plain(F!RestartSteps) /\ Plain(F!QuarantineSteps) /\ Plain(F!DesiredSteps)
    /\ \A s : Plain(F!CertifySteps(s))
<1>1. Plain(F!QuarantineSteps)
    BY MildSteps, PlainTwo DEF F!QuarantineSteps
<1>2. Plain(F!RestartSteps)
  <2>1. Mild(<<"txn", "UPDATE_APPLIED">>) /\ Mild(<<"txn", "RESTART_PENDING">>) /\ Mild(<<"disconnect">>)
      BY MildSteps
  <2>2. Plain(<< <<"txn", "UPDATE_APPLIED">>, <<"txn", "RESTART_PENDING">>, <<"disconnect">> >>)
      BY <2>1, PlainThree
  <2> QED BY <2>2, PlainSet, PlainJoined DEF F!RestartSteps
<1>3. Plain(F!DesiredSteps)
  <2>1. Mild(<<"desired", F!AnyState>>)
      BY DEF Mild, ToCertify
  <2> QED BY <2>1, PlainOne DEF F!DesiredSteps
<1>4. ASSUME NEW s PROVE Plain(F!CertifySteps(s))
  <2>1. Mild(<<"desired", s>>) /\ Mild(<<"certify", s>>)
      BY DEF Mild, ToCertify
  <2> QED BY <2>1, PlainTwo DEF F!CertifySteps
<1> QED BY <1>1, <1>2, <1>3, <1>4
LEMMA CertifiedPlain == \A t : Plain(F!CertifiedSteps(t))
<1> TAKE t
<1> DEFINE a == << <<"desired", F!AnyState>>, <<"cert">>, <<"conf">> >>
           b == IF operation[t].kind = "reconcile" THEN << <<"decide">> >> ELSE << <<"late">> >>
           c == IF operation[t].txn # None /\ operation[t].kind \in {"complete", "recover"}
                   /\ operation[t].txn.state = "CERTIFYING" THEN << <<"settle">> >> ELSE << >>
<1>1. Mild(<<"desired", F!AnyState>>) /\ Mild(<<"cert">>) /\ Mild(<<"conf">>)
      /\ Mild(<<"decide">>) /\ Mild(<<"late">>) /\ Mild(<<"settle">>)
    BY DEF Mild, ToCertify
<1>2. Plain(a)
    BY <1>1, PlainThree
<1>3. Plain(b)
    BY <1>1, PlainOne
<1>4. Plain(c)
    BY <1>1, PlainOne, PlainEmpty
<1>5. F!CertifiedSteps(t) = (a \o b) \o c
    BY DEF F!CertifiedSteps
<1> HIDE DEF a, b, c
<1>6. Plain(a \o b)
    BY <1>2, <1>3, PlainJoined
<1> QED BY <1>4, <1>5, <1>6, PlainJoined

LEMMA ReconcilePlain == \A plan, actions, force : Plain(F!ReconcileSteps(plan, actions, force))
<1> TAKE plan, actions, force
<1> DEFINE a == IF plan.require_drain THEN << <<"drain">>, <<"complete_drain">> >> ELSE << >>
           b == << <<"enter">> >>
           d == IF plan.require_drain THEN << <<"txn", "DRAINING">> >> ELSE << >>
           e == << <<"txn", "UPDATE_APPLYING">> >>
           n == << <<"new">> >>
           f == IF F!FabricPlanned(actions) THEN n \o d \o e ELSE << >>
           c == IF ~plan.preflight_passed /\ ~force THEN F!Set("DEGRADED") ELSE f \o << <<"apply">> >>
<1>1. Mild(<<"drain">>) /\ Mild(<<"complete_drain">>) /\ Mild(<<"enter">>) /\ Mild(<<"new">>) /\ Mild(<<"apply">>)
      /\ Mild(<<"txn", "DRAINING">>) /\ Mild(<<"txn", "UPDATE_APPLYING">>)
    BY DEF Mild, ToCertify
<1>2. Plain(a)
    BY <1>1, PlainTwo, PlainEmpty
<1>3. Plain(b) /\ Plain(e) /\ Plain(n) /\ Plain(<< <<"apply">> >>)
    BY <1>1, PlainOne
<1>4. Plain(d)
    BY <1>1, PlainOne, PlainEmpty
<1>5. Plain(n \o d)
    BY <1>3, <1>4, PlainJoined
<1>6. Plain((n \o d) \o e)
    BY <1>3, <1>5, PlainJoined
<1>7. Plain(f)
    BY <1>6, PlainEmpty
<1>8. F!ReconcileSteps(plan, actions, force) = (a \o b) \o c
    BY DEF F!ReconcileSteps
<1> HIDE DEF a, b, d, e, f, n
<1>9. Plain(f \o << <<"apply">> >>)
    BY <1>3, <1>7, PlainJoined
<1>10. Plain(c)
    BY <1>9, PlainSet
<1> HIDE DEF c
<1>11. Plain(a \o b)
    BY <1>2, <1>3, PlainJoined
<1> QED BY <1>8, <1>10, <1>11, PlainJoined

LEMMA SettlePlain == \A t, record : Plain(F!SettleSteps(t, record))
<1> TAKE t, record
<1> DEFINE r == << <<"txn", "ROLLED_BACK">> >>
           s == IF mgmt[F!W(t)].state # "READY" THEN << >>
                ELSE << <<"set", [state |-> "READY", status |-> "CERTIFIED"]>> >>
           ok == operation[t].host.version = record.expected
           ended == \/ mgmt[F!W(t)].state = "READY"
                    \/ /\ ok /\ operation[t].cert.disposition = "CERTIFIED"
                       /\ mgmt[F!W(t)].state # "QUARANTINED"
           broken == mgmt[F!W(t)].state = "QUARANTINED" \/ operation[t].cert.disposition = "FAILED"
<1>1. Mild(<<"txn", "READY">>) /\ Mild(<<"txn", "ROLLED_BACK">>) /\ Mild(<<"txn", "ROLLBACK_APPLYING">>)
      /\ Mild(<<"fail", "FAILED">>) /\ Mild(<<"set", [state |-> "READY", status |-> "CERTIFIED"]>>)
    BY DEF Mild, ToCertify
<1>2. Plain(<< <<"txn", "READY">> >>) /\ Plain(r) /\ Plain(<< <<"txn", "ROLLBACK_APPLYING">> >>)
      /\ Plain(<< <<"fail", "FAILED">> >>)
    BY <1>1, PlainOne
<1>3. Plain(s)
    BY <1>1, PlainOne, PlainEmpty
<1>4. F!SettleSteps(t, record) = CASE ended /\ record.expected # record.previous -> << <<"txn", "READY">> >>
          [] ended /\ record.expected = record.previous -> r \o s
          [] ~ended /\ broken -> F!QuarantineSteps
          [] ~ended /\ ~broken -> IF ok THEN << <<"fail", "FAILED">> >> ELSE << <<"txn", "ROLLBACK_APPLYING">> >>
    BY DEF F!SettleSteps
<1> HIDE DEF r, s, ok, ended, broken
<1>5. Plain(r \o s)
    BY <1>2, <1>3, PlainJoined
<1> QED BY <1>2, <1>4, <1>5, Lists

\* A step of an operation in hand that is not about to certify.
LEMMA MildTodo ==
    ASSUME NEW o, Checked(o), Mild(Head(o.todo))
    PROVE  Plain(o.todo)
<1>1. PICK S : o.todo \in Seq(S)
    BY DEF Checked, IsSequence
<1>2. Len(o.todo) \in Nat /\ DOMAIN o.todo = 1..Len(o.todo) /\ Head(o.todo) = o.todo[1] /\ o.todo # <<>>
    BY <1>1 DEF Checked
<1>3. DOMAIN Tail(o.todo) = 1..(Len(o.todo) - 1) /\ \A i \in 1..(Len(o.todo) - 1) : Tail(o.todo)[i] = o.todo[i + 1]
    BY <1>1, <1>2
<1>4. ASSUME NEW i \in DOMAIN o.todo PROVE Mild(o.todo[i])
  <2>1. CASE i = 1
      BY <1>2, <2>1
  <2>2. CASE i # 1
    <3>1. i - 1 \in 1..(Len(o.todo) - 1) /\ o.todo[i] = Tail(o.todo)[i - 1]
        BY <1>2, <1>3, <2>2
    <3> QED BY <1>3, <3>1 DEF Checked, Plain
  <2> QED BY <2>1, <2>2
<1> QED BY <1>4 DEF Checked, Plain

LEMMA Replaced ==
    ASSUME NEW t, Checked(operation[t]), NEW p, Plain(p), NEW v
    PROVE  LET i == F!Instead(t, p)
           IN  /\ IsOp(i) /\ Plain(i.todo)
               /\ IsOp([i EXCEPT !.actions = v]) /\ Plain([i EXCEPT !.actions = v].todo)
               /\ IsOp([i EXCEPT !.desired = v]) /\ Plain([i EXCEPT !.desired = v].todo)
               /\ IsOp([i EXCEPT !.cert = v]) /\ Plain([i EXCEPT !.cert = v].todo)
<1> DEFINE i == F!Instead(t, p)
<1>1. IsOp(i) /\ Plain(i.todo)
    BY InsteadOp
<1> HIDE DEF i
<1>2. /\ IsOp([i EXCEPT !.actions = v]) /\ [i EXCEPT !.actions = v].todo = i.todo
      /\ IsOp([i EXCEPT !.desired = v]) /\ [i EXCEPT !.desired = v].todo = i.todo
      /\ IsOp([i EXCEPT !.cert = v]) /\ [i EXCEPT !.cert = v].todo = i.todo
    BY <1>1, Taken
<1>3. /\ IsOp(i) /\ Plain(i.todo)
      /\ IsOp([i EXCEPT !.actions = v]) /\ Plain([i EXCEPT !.actions = v].todo)
      /\ IsOp([i EXCEPT !.desired = v]) /\ Plain([i EXCEPT !.desired = v].todo)
      /\ IsOp([i EXCEPT !.cert = v]) /\ Plain([i EXCEPT !.cert = v].todo)
    BY <1>1, <1>2
<1> QED BY <1>3 DEF i
Calmly(t) ==
    \/ F!SkipStep(t) \/ F!EnsureStep(t) \/ F!CreateStep(t) \/ F!LookStep(t) \/ F!SetStep(t)
    \/ F!DrainStep(t) \/ F!CompleteDrainStep(t) \/ F!EnterStep(t) \/ F!ResumeStep(t) \/ F!BusyStep(t)
    \/ F!DesiredStep(t) \/ F!AssignStep(t) \/ F!PlanStep(t) \/ F!ApplyStep(t) \/ F!RestoreStep(t)
    \/ F!LoseCall(t) \/ F!CertifyStep(t) \/ F!JudgeStep(t) \/ F!CertStep(t) \/ F!ConfStep(t)
    \/ F!DecideStep(t) \/ F!DecidedStep(t) \/ F!SettleStep(t)

LEMMA GoesCalm ==
    ASSUME NEW t, NEW o, IsOp(o), Plain(o.todo), F!Goes(t, o)
    PROVE  Calm(t)
BY DEF Calm

\* The steps that only read, ensure, write a record or decide.
LEMMA ReadingCalm ==
    ASSUME VersionInv, NEW t \in Threads,
           \/ F!SkipStep(t) \/ F!EnsureStep(t) \/ F!CreateStep(t) \/ F!LookStep(t) \/ F!SetStep(t)
           \/ F!AssignStep(t) \/ F!CertStep(t) \/ F!ConfStep(t)
    PROVE  Calm(t) /\ txn' = txn
<1>1. operation[t].todo # <<>> /\ txn' = txn
    BY DEF F!SkipStep, F!EnsureStep, F!CreateStep, F!LookStep, F!SetStep, F!AssignStep, F!CertStep, F!ConfStep,
           F!Reads, F!Reading, F!At, F!store
<1>2. Checked(operation[t])
    BY <1>1, Acting
<1> DEFINE a == F!After(t)
<1>3. IsOp(a) /\ Plain(a.todo)
    BY <1>2, AfterOp
<1>4. CASE F!SkipStep(t) \/ F!CreateStep(t) \/ F!AssignStep(t) \/ F!CertStep(t)
  <2>1. F!Goes(t, a)
      BY <1>4 DEF F!SkipStep, F!CreateStep, F!AssignStep, F!CertStep
  <2> HIDE DEF a
  <2> QED BY <1>1, <1>3, <2>1, GoesCalm
<1>5. CASE F!EnsureStep(t)
  <2> DEFINE q == << <<"create">> >> \o operation[t].todo
             o == [operation[t] EXCEPT !.todo = q]
  <2>1. F!Goes(t, o)
      BY <1>5 DEF F!EnsureStep
  <2>2. Mild(Head(operation[t].todo)) /\ Mild(<<"create">>)
      BY <1>5 DEF F!EnsureStep, F!Reads, F!At, Mild, ToCertify
  <2>3. Plain(operation[t].todo) /\ Plain(<< <<"create">> >>)
      BY <1>2, <2>2, MildTodo, PlainOne
  <2>4. Plain(q)
      BY <2>3, PlainJoined
  <2>5. IsOp(o) /\ o.todo = q
      BY <1>2 DEF Checked, IsOp, OpFields
  <2> HIDE DEF o, q
  <2> QED BY <1>1, <2>1, <2>4, <2>5, GoesCalm
<1>6. CASE F!LookStep(t)
  <2> DEFINE o == [operation[t] EXCEPT !.seen = mgmt[F!W(t)]]
  <2>1. F!Goes(t, o)
      BY <1>6 DEF F!LookStep
  <2>2. Mild(Head(operation[t].todo))
      BY <1>6 DEF F!LookStep, F!Reading, F!At, Mild, ToCertify
  <2>3. Plain(operation[t].todo)
      BY <1>2, <2>2, MildTodo
  <2>4. IsOp(o) /\ o.todo = operation[t].todo
      BY <1>2, Taken DEF Checked
  <2> HIDE DEF o
  <2> QED BY <1>1, <2>1, <2>3, <2>4, GoesCalm
<1>7. CASE F!SetStep(t)
  <2> DEFINE o == [a EXCEPT !.seen = None]
  <2>1. F!Goes(t, o) \/ F!Abort(t)
      BY <1>7 DEF F!SetStep
  <2> HIDE DEF a
  <2>2. IsOp(o) /\ o.todo = a.todo
      BY <1>3, Taken
  <2> HIDE DEF o
  <2> QED BY <1>1, <1>3, <2>1, <2>2, GoesCalm DEF Calm
<1>8. CASE F!ConfStep(t)
  <2>1. PICK v : F!Goes(t, [a EXCEPT !.conf = v])
      BY <1>8 DEF F!ConfStep
  <2> HIDE DEF a
  <2> DEFINE o == [a EXCEPT !.conf = v]
  <2>2. IsOp(o) /\ o.todo = a.todo
      BY <1>3, Taken
  <2>3. F!Goes(t, o)
      BY <2>1
  <2> HIDE DEF o
  <2> QED BY <1>1, <1>3, <2>2, <2>3, GoesCalm
<1> QED BY <1>4, <1>5, <1>6, <1>7, <1>8

\* The steps that put others in their place.
LEMMA PlanningCalm ==
    ASSUME VersionInv, NEW t \in Threads,
           \/ F!DrainStep(t) \/ F!CompleteDrainStep(t) \/ F!EnterStep(t) \/ F!BusyStep(t)
           \/ F!DesiredStep(t) \/ F!PlanStep(t) \/ F!ApplyStep(t) \/ F!RestoreStep(t) \/ F!LoseCall(t)
           \/ F!JudgeStep(t)
    PROVE  Calm(t) /\ txn' = txn
<1>1. operation[t].todo # <<>> /\ txn' = txn
    BY DEF F!DrainStep, F!CompleteDrainStep, F!EnterStep, F!BusyStep, F!DesiredStep, F!PlanStep, F!ApplyStep,
           F!RestoreStep, F!LoseCall, F!JudgeStep, F!Reading, F!At, F!store
<1>2. Checked(operation[t])
    BY <1>1, Acting
<1>3. \A p : Plain(p) => IsOp(F!Instead(t, p)) /\ Plain(F!Instead(t, p).todo)
    BY <1>2, InsteadOp
<1>4. \A p : Plain(p) /\ F!Goes(t, F!Instead(t, p)) => Calm(t)
    BY <1>3, GoesCalm
<1>5. CASE F!DrainStep(t)
  <2> DEFINE p == IF mgmt[F!W(t)].active = 0
                  THEN << <<"set", [state |-> "MAINTENANCE", active |-> 0]>> >> ELSE F!Set("DRAINING")
  <2>1. F!Goes(t, F!Instead(t, p))
      BY <1>5 DEF F!DrainStep
  <2>2. Mild(<<"set", [state |-> "MAINTENANCE", active |-> 0]>>)
      BY DEF Mild, ToCertify
  <2>3. Plain(p)
      BY <2>2, PlainOne, PlainSet
  <2> HIDE DEF p
  <2> QED BY <1>1, <1>4, <2>1, <2>3
<1>6. CASE F!CompleteDrainStep(t)
  <2>1. PICK p \in {F!Set("MAINTENANCE"), <<>>} : F!Goes(t, F!Instead(t, p))
      BY <1>6 DEF F!CompleteDrainStep
  <2> QED BY <1>1, <1>4, <2>1, PlainSet, PlainEmpty
<1>7. CASE F!EnterStep(t)
  <2>1. PICK p \in {F!Set("MAINTENANCE"), <<>>} : F!Goes(t, F!Instead(t, p))
      BY <1>7 DEF F!EnterStep
  <2> QED BY <1>1, <1>4, <2>1, PlainSet, PlainEmpty
<1>8. CASE F!BusyStep(t)
  <2> DEFINE one == << <<"set", [state |-> "BUSY", active |-> 1]>> >>
             two == << <<"decide">> >>
             p == CASE mgmt[F!W(t)].state \notin {"READY", "BUSY"} \/ mgmt[F!W(t)].status = "FAILED" -> << >>
                    [] OTHER -> IF F!Here(t)[2] = 1 THEN one ELSE two
  <2>1. F!Goes(t, F!Instead(t, p))
      BY <1>8 DEF F!BusyStep
  <2>2. Mild(<<"set", [state |-> "BUSY", active |-> 1]>>) /\ Mild(<<"decide">>)
      BY DEF Mild, ToCertify
  <2>3. Plain(one) /\ Plain(two)
      BY <2>2, PlainOne
  <2> HIDE DEF one, two
  <2>4. Plain(p)
      BY <2>3, PlainEmpty
  <2> HIDE DEF p
  <2> QED BY <1>1, <1>4, <2>1, <2>4
<1>9. CASE F!DesiredStep(t)
  <2> DEFINE inv == F!InventoryOf(operation[t].host)
             p == IF F!Assigns(F!W(t), inv) THEN << <<"assign">> >> ELSE << >>
             i == F!Instead(t, p)
             v == F!DesiredFor(F!W(t), inv)
             o == [i EXCEPT !.desired = v]
  <2>1. F!Goes(t, o)
      BY <1>9 DEF F!DesiredStep
  <2>2. Mild(<<"assign">>)
      BY DEF Mild, ToCertify
  <2>3. Plain(p)
      BY <2>2, PlainOne, PlainEmpty
  <2> HIDE DEF p, v
  <2>4. IsOp(o) /\ Plain(o.todo)
      BY <1>2, <2>3, Replaced
  <2> HIDE DEF o
  <2> QED BY <1>1, <2>1, <2>4, GoesCalm
<1>10. CASE F!PlanStep(t)
  <2> DEFINE plan == F!BuildMaintenancePlan(F!Resolved(operation[t].desired), F!InventoryOf(operation[t].host), F!Here(t)[2])
             force == F!Here(t)[3]
             actions == F!ActionsOf(plan, force)
             record == <<"set", [state |-> mgmt[F!W(t)].state, inventory |-> operation[t].inventory]>>
             rest == IF operation[t].kind = "plan" THEN << >> ELSE F!ReconcileSteps(plan, actions, force)
             p == <<record>> \o rest
             v == IF operation[t].kind = "plan" THEN {} ELSE actions
             o == [F!Instead(t, p) EXCEPT !.actions = v]
  <2>1. F!Goes(t, o)
      BY <1>10 DEF F!PlanStep
  <2>2. Mild(record)
      BY DEF Mild, ToCertify
  <2> HIDE DEF record
  <2>3. Plain(<<record>>)
      BY <2>2, PlainOne
  <2>4. Plain(rest)
      BY ReconcilePlain, PlainEmpty
  <2> HIDE DEF rest
  <2>5. Plain(p)
      BY <2>3, <2>4, PlainJoined
  <2> HIDE DEF p, v
  <2>6. IsOp(o) /\ Plain(o.todo)
      BY <1>2, <2>5, Replaced
  <2> HIDE DEF o
  <2> QED BY <1>1, <2>1, <2>6, GoesCalm
<1>11. CASE F!ApplyStep(t)
  <2> DEFINE new == << <<"new">>, <<"txn", "UPDATE_APPLYING">> >>
             fails == << <<"fail", "FAILED">> >>
  <2>1. PICK p : /\ F!Goes(t, F!Instead(t, p)) \/ F!Abort(t)
                 /\ \/ p = new \o F!RestartSteps \/ p = << >> \o F!RestartSteps
                    \/ p = fails \o F!Set("DEGRADED") \/ p = << >> \o F!Set("DEGRADED")
                    \/ p = F!Set("VERIFYING") \o F!CertifySteps(F!AnyState)
      BY <1>11 DEF F!ApplyStep
  <2>2. Mild(<<"new">>) /\ Mild(<<"txn", "UPDATE_APPLYING">>) /\ Mild(<<"fail", "FAILED">>)
      BY DEF Mild, ToCertify
  <2>3. Plain(new) /\ Plain(fails)
      BY <2>2, PlainOne, PlainTwo
  <2> HIDE DEF new, fails
  <2>4. Plain(p)
      BY <2>1, <2>3, PlainJoined, PlainEmpty, PlainSet, Lists
  <2> QED BY <1>1, <1>4, <2>1, <2>4 DEF Calm
<1>12. CASE F!RestoreStep(t)
  <2> DEFINE back == << <<"txn", "RESTART_PENDING">>, <<"disconnect">> >>
  <2>1. PICK p : /\ F!Goes(t, F!Instead(t, p))
                 /\ p = back \o F!Set("MAINTENANCE") \/ p = F!QuarantineSteps \o F!Set("QUARANTINED")
      BY <1>12 DEF F!RestoreStep
  <2>2. Mild(<<"txn", "RESTART_PENDING">>) /\ Mild(<<"disconnect">>)
      BY DEF Mild, ToCertify
  <2>3. Plain(back)
      BY <2>2, PlainTwo
  <2> HIDE DEF back
  <2>4. Plain(p)
      BY <2>1, <2>3, PlainJoined, PlainSet, Lists
  <2> QED BY <1>1, <1>4, <2>1, <2>4
<1>13. CASE F!LoseCall(t)
    BY <1>1, <1>13 DEF F!LoseCall, Calm
<1>14. CASE F!JudgeStep(t)
  <2>1. PICK v : F!Goes(t, [F!Instead(t, F!CertifiedSteps(t)) EXCEPT !.cert = v])
      BY <1>14 DEF F!JudgeStep
  <2> DEFINE o == [F!Instead(t, F!CertifiedSteps(t)) EXCEPT !.cert = v]
  <2>2. IsOp(o) /\ Plain(o.todo)
      BY <1>2, CertifiedPlain, Replaced
  <2>3. F!Goes(t, o)
      BY <2>1
  <2> HIDE DEF o
  <2> QED BY <1>1, <2>2, <2>3, GoesCalm
<1> QED BY <1>5, <1>6, <1>7, <1>8, <1>9, <1>10, <1>11, <1>12, <1>13, <1>14

\* The steps that certify, resume, decide and settle take more into the hand.
LEMMA DecidingCalm ==
    ASSUME VersionInv, NEW t \in Threads,
           \/ F!ResumeStep(t) \/ F!CertifyStep(t) \/ F!DecideStep(t) \/ F!DecidedStep(t) \/ F!SettleStep(t)
    PROVE  Calm(t) /\ txn' = txn
<1>1. operation[t].todo # <<>> /\ txn' = txn
    BY DEF F!ResumeStep, F!CertifyStep, F!DecideStep, F!DecidedStep, F!SettleStep, F!Reading, F!At, F!store
<1>2. Checked(operation[t])
    BY <1>1, Acting
<1>3. \A p : Plain(p) => IsOp(F!Instead(t, p)) /\ Plain(F!Instead(t, p).todo)
    BY <1>2, InsteadOp
<1>4. Mild(<<"decide">>) /\ Mild(<<"decided">>) /\ \A c : Mild(<<"set", c>>)
    BY DEF Mild, ToCertify
<1>5. CASE F!ResumeStep(t)
  <2> DEFINE i == F!Instead(t, << <<"decide">> >>)
             j == [i EXCEPT !.seen = mgmt[F!W(t)]]
             o == [j EXCEPT !.cert = cert[F!W(t)]]
  <2>1. F!Goes(t, o) \/ F!Abort(t)
      BY <1>5 DEF F!ResumeStep
  <2>2. IsOp(i) /\ Plain(i.todo)
      BY <1>3, <1>4, PlainOne
  <2> HIDE DEF i
  <2>3. IsOp(j) /\ j.todo = i.todo
      BY <2>2, Taken
  <2> HIDE DEF j
  <2>4. IsOp(o) /\ o.todo = j.todo
      BY <2>3, Taken
  <2> HIDE DEF o
  <2> QED BY <1>1, <2>1, <2>2, <2>3, <2>4, GoesCalm DEF Calm
<1>6. CASE F!CertifyStep(t)
  <2> DEFINE id == F!FreshInventory(F!W(t))
             i == F!Instead(t, F!CertifiedSteps(t))
             j == [i EXCEPT !.host = host[F!W(t)]]
             k == [j EXCEPT !.inventory = id]
             o == [k EXCEPT !.cert = F!Certificate(t, host[F!W(t)], id)]
  <2>1. F!Goes(t, o)
      BY <1>6 DEF F!CertifyStep
  <2>2. IsOp(i) /\ Plain(i.todo)
      BY <1>3, CertifiedPlain
  <2> HIDE DEF i
  <2>3. IsOp(j) /\ j.todo = i.todo
      BY <2>2, Taken
  <2> HIDE DEF j
  <2>4. IsOp(k) /\ k.todo = j.todo
      BY <2>3, Taken
  <2> HIDE DEF k
  <2>5. IsOp(o) /\ o.todo = k.todo
      BY <2>4, Taken
  <2> HIDE DEF o
  <2> QED BY <1>1, <2>1, <2>2, <2>3, <2>4, <2>5, GoesCalm
<1>7. CASE F!DecideStep(t) \/ F!DecidedStep(t)
  <2>1. PICK p, d, s : /\ F!Abort(t) \/ F!Goes(t, [F!Instead(t, p) EXCEPT !.decision = d, !.seen = s])
                       /\ p = << <<"decided">> >> \/ \E c : p = << <<"set", c>> >>
      BY <1>7 DEF F!DecideStep, F!DecidedStep
  <2> DEFINE i == F!Instead(t, p)
             j == [i EXCEPT !.decision = d]
             o == [j EXCEPT !.seen = s]
  <2>2. F!Abort(t) \/ F!Goes(t, o)
      BY <2>1
  <2>3. IsOp(i) /\ Plain(i.todo)
      BY <1>3, <1>4, <2>1, PlainOne
  <2> HIDE DEF i
  <2>4. IsOp(j) /\ j.todo = i.todo
      BY <2>3, Taken
  <2> HIDE DEF j
  <2>5. IsOp(o) /\ o.todo = j.todo
      BY <2>4, Taken
  <2> HIDE DEF o
  <2> QED BY <1>1, <2>2, <2>3, <2>4, <2>5, GoesCalm DEF Calm
<1>8. CASE F!SettleStep(t)
  <2>1. CASE F!At(t, "settle")
            /\ F!Goes(t, [F!Instead(t, F!SettleSteps(t, operation[t].outer)) EXCEPT !.txn = operation[t].outer])
    <3> DEFINE i == F!Instead(t, F!SettleSteps(t, operation[t].outer))
               o == [i EXCEPT !.txn = operation[t].outer]
    <3>1. IsOp(i) /\ Plain(i.todo)
        BY <1>3, SettlePlain
    <3>2. F!Goes(t, o)
        BY <2>1
    <3> HIDE DEF i
    <3>3. IsOp(o) /\ o.todo = i.todo
        BY <1>2, <3>1, TakenTxn DEF Checked, IsOp
    <3> HIDE DEF o
    <3> QED BY <1>1, <3>1, <3>2, <3>3, GoesCalm
  <2>2. CASE \E p : /\ F!Goes(t, F!Instead(t, p))
                    /\ p \in {<< <<"txn", "READY">> >>, F!QuarantineSteps, << <<"fail", "FAILED">> >>}
    <3>1. PICK p : /\ F!Goes(t, F!Instead(t, p))
                   /\ p \in {<< <<"txn", "READY">> >>, F!QuarantineSteps, << <<"fail", "FAILED">> >>}
        BY <2>2
    <3>2. Mild(<<"txn", "READY">>) /\ Mild(<<"fail", "FAILED">>)
        BY DEF Mild, ToCertify
    <3>3. Plain(p)
        BY <3>1, <3>2, PlainOne, Lists
    <3> QED BY <1>1, <1>3, <3>1, <3>3, GoesCalm
  <2> QED BY <1>8, <2>1, <2>2 DEF F!SettleStep
<1> QED BY <1>5, <1>6, <1>7, <1>8

LEMMA CalmStep ==
    ASSUME VersionInv, NEW t \in Threads, Calmly(t)
    PROVE  Calm(t) /\ txn' = txn
BY ReadingCalm, PlanningCalm, DecidingCalm DEF Calmly

\* A step that writes the transaction record of the worker it is for.
LEMMA Recorded ==
    ASSUME VersionInv, NEW t \in Threads, NEW r, IsTxn(r), NEW o, IsOp(o), Plain(o.todo), F!RecordTxn(t, r, o)
    PROVE  Calm(t) /\ TxnsKept
<1> DEFINE n == [o EXCEPT !.txn = r]
<1>1. txn' = [txn EXCEPT ![operation[t].w] = r] /\ F!Goes(t, n)
    BY DEF F!RecordTxn, F!W
<1>2. IsOp(n) /\ n.todo = o.todo
    BY TakenTxn DEF TxnOrNone
<1> HIDE DEF n
<1>3. Calm(t)
    BY <1>1, <1>2, GoesCalm
<1>4. txn' = [w \in Workers |-> txn'[w]] /\ \A w \in Workers : TxnOrNone(txn'[w])
    BY <1>1 DEF VersionInv, TxnOrNone
<1> QED BY <1>3, <1>4 DEF TxnsKept

LEMMA AdvancedIs ==
    ASSUME NEW r, NEW to
    PROVE  LET a == F!Advanced(r, to)
           IN  /\ IsTxn(a) /\ a.state = to
               /\ to = "CERTIFYING" => a.expected = r.expected
               /\ \A m, e : /\ IsTxn([a EXCEPT !.missed = m, !.expired = e])
                            /\ [a EXCEPT !.missed = m, !.expired = e].state = to
                            /\ [a EXCEPT !.missed = m, !.expired = e].expected = a.expected
BY DEF F!Advanced, IsTxn, TxnFields

LEMMA NewStepIs ==
    ASSUME VersionInv, NEW t \in Threads, F!NewStep(t)
    PROVE  /\ Calm(t) /\ TxnsKept
           /\ \A w \in Workers : txn'[w] # txn[w] => txn'[w].state # "CERTIFYING"
<1> DEFINE r == F!Update(F!ExpectedVersion(operation[t].actions), operation[t].host.version)
<1>1. F!RecordTxn(t, r, F!After(t)) /\ operation[t].todo # <<>>
    BY DEF F!NewStep, F!At
<1>2. IsTxn(r) /\ r.state = "UPDATE_PLANNED"
    BY DEF F!Update, IsTxn, TxnFields
<1> HIDE DEF r
<1>3. IsOp(F!After(t)) /\ Plain(F!After(t).todo)
    BY <1>1, Acting, AfterOp
<1>4. Calm(t) /\ TxnsKept
    BY <1>1, <1>2, <1>3, Recorded
<1>5. txn' = [txn EXCEPT ![operation[t].w] = r]
    BY <1>1 DEF F!RecordTxn, F!W
<1>6. \A w \in Workers : txn'[w] # txn[w] => txn'[w] = r
    BY <1>5 DEF VersionInv
<1> QED BY <1>2, <1>4, <1>6

LEMMA FailStepIs ==
    ASSUME VersionInv, NEW t \in Threads, F!FailStep(t)
    PROVE  /\ Calm(t) /\ TxnsKept
           /\ \A w \in Workers : txn'[w] # txn[w] => txn'[w].state # "CERTIFYING"
<1> DEFINE r == F!Advanced(operation[t].txn, F!Here(t)[2])
<1>1. F!RecordTxn(t, r, F!After(t)) /\ operation[t].todo # <<>> /\ Head(operation[t].todo)[1] = "fail"
    BY DEF F!FailStep, F!At
<1>2. Checked(operation[t])
    BY <1>1, Acting
<1>3. IsTxn(r) /\ r.state # "CERTIFYING"
  <2> DEFINE to == F!Here(t)[2]
  <2>1. to \in {"FAILED", "QUARANTINED"}
      BY <1>1, <1>2 DEF Checked, F!Here
  <2> HIDE DEF to
  <2>2. IsTxn(F!Advanced(operation[t].txn, to)) /\ F!Advanced(operation[t].txn, to).state = to
      BY AdvancedIs
  <2> QED BY <2>1, <2>2 DEF to
<1> HIDE DEF r
<1>4. IsOp(F!After(t)) /\ Plain(F!After(t).todo)
    BY <1>2, AfterOp
<1>5. Calm(t) /\ TxnsKept
    BY <1>1, <1>3, <1>4, Recorded
<1>6. txn' = [txn EXCEPT ![operation[t].w] = r]
    BY <1>1 DEF F!RecordTxn, F!W
<1>7. \A w \in Workers : txn'[w] # txn[w] => txn'[w] = r
    BY <1>6 DEF VersionInv
<1> QED BY <1>3, <1>5, <1>7

LEMMA TailDiffers ==
    ASSUME NEW q, IsSequence(q), q # <<>>
    PROVE  Tail(q) # q
<1>1. PICK S : q \in Seq(S)
    BY DEF IsSequence
<1>2. Len(q) \in Nat /\ Len(Tail(q)) = Len(q) - 1
    BY <1>1
<1>3. \A n \in Nat : n - 1 # n
    OBVIOUS
<1>4. Len(q) - 1 # Len(q)
    BY <1>2, <1>3
<1> QED BY <1>2, <1>4

\* The thread that writes a record being certified has the version it expects in hand.
VersionInHand(t, w) ==
    /\ t \in F!Running /\ operation'[t] # operation[t] /\ operation[t].w = w
    /\ operation[t].host.version = txn'[w].expected

LEMMA TxnStepIs ==
    ASSUME VersionInv, NEW t \in Threads, F!TxnStep(t)
    PROVE  /\ Calm(t) /\ TxnsKept
           /\ \A w \in Workers : txn'[w] # txn[w] /\ txn'[w].state = "CERTIFYING" => VersionInHand(t, w)
<1> DEFINE to == CASE F!At(t, "txn") -> F!Here(t)[2]
                   [] F!At(t, "disconnect") -> "DISCONNECT_EXPECTED"
                   [] F!At(t, "miss") -> "FAILED"
           a == F!Advanced(operation[t].txn, to)
           r == [a EXCEPT !.missed = F!At(t, "miss"), !.expired = a.expired /\ ~F!At(t, "disconnect")]
<1>1. operation[t].todo # <<>>
    BY DEF F!TxnStep, F!At
<1>2. Checked(operation[t])
    BY <1>1, Acting
<1>3. IsOp(F!After(t)) /\ F!After(t).todo = Tail(operation[t].todo) /\ Plain(F!After(t).todo)
    BY <1>2, AfterOp
<1>4. (txn' = txn /\ F!Abort(t)) \/ F!RecordTxn(t, r, F!After(t))
    BY DEF F!TxnStep
<1>5. CASE txn' = txn /\ F!Abort(t)
    BY <1>5 DEF Calm, TxnsKept
<1>6. CASE F!RecordTxn(t, r, F!After(t))
  <2>1. IsTxn(r) /\ r.state = to /\ (to = "CERTIFYING" => r.expected = operation[t].txn.expected)
    <3> HIDE DEF to
    <3>1. /\ to = "CERTIFYING" => a.expected = operation[t].txn.expected
          /\ \A m, e : /\ IsTxn([a EXCEPT !.missed = m, !.expired = e])
                       /\ [a EXCEPT !.missed = m, !.expired = e].state = to
                       /\ [a EXCEPT !.missed = m, !.expired = e].expected = a.expected
        BY AdvancedIs
    <3> HIDE DEF a
    <3> QED BY <3>1
  <2>2. to = "CERTIFYING" => F!At(t, "txn") /\ ToCertify(Head(operation[t].todo))
      BY DEF F!TxnStep, F!At, F!Here, ToCertify
  <2> HIDE DEF r, a, to
  <2>3. Calm(t) /\ TxnsKept
      BY <1>3, <1>6, <2>1, Recorded
  <2>4. txn' = [txn EXCEPT ![operation[t].w] = r]
      BY <1>6 DEF F!RecordTxn, F!W
  <2>5. ASSUME NEW w \in Workers, txn'[w] # txn[w], txn'[w].state = "CERTIFYING" PROVE VersionInHand(t, w)
    <3>1. w = operation[t].w /\ txn'[w] = r
        BY <2>4, <2>5 DEF VersionInv
    <3>2. operation[t].host.version = r.expected
        BY <1>2, <2>1, <2>2, <2>5, <3>1 DEF Checked
    <3>3. t \in F!Running
        BY <1>2 DEF F!Running, Checked, IsOp
    <3> DEFINE n == [F!After(t) EXCEPT !.txn = r]
    <3>4. n.todo = Tail(operation[t].todo)
        BY <1>3, <2>1, TakenTxn DEF TxnOrNone
    <3>5. operation' = [operation EXCEPT ![t] = IF n.todo = <<>> THEN F!Idle ELSE n]
        BY <1>6 DEF F!RecordTxn, F!Goes
    <3> HIDE DEF n
    <3>6. operation'[t] = IF n.todo = <<>> THEN F!Idle ELSE n
        BY <3>5 DEF VersionInv
    <3>7. Tail(operation[t].todo) # operation[t].todo
        BY <1>1, <1>2, TailDiffers DEF Checked
    <3>8. F!Idle.todo = <<>>
        BY DEF F!Idle
    <3>9. operation'[t] # operation[t]
        BY <1>1, <3>4, <3>6, <3>7, <3>8
    <3> QED BY <3>1, <3>2, <3>3, <3>9 DEF VersionInHand
  <2> QED BY <2>3, <2>5
<1> QED BY <1>4, <1>5, <1>6

\* observe_update and certify list the certification themselves: the inventory
\* in hand shows the version that the record they have just read expects.
LEMMA ObserveMoves ==
    ASSUME NEW r, NEW e, NEW c, NEW s, NEW v, NEW y,
           F!ObserveReconnect(r, e, c, s, v, y) = "CERTIFYING", r.state # "CERTIFYING"
    PROVE  v = r.expected
BY DEF F!ObserveReconnect

LEMMA ListedChecked ==
    ASSUME VersionInv, NEW t \in Threads, Checked(operation[t]), NEW s, NEW p, Plain(p), NEW r, TxnOrNone(r),
           NEW u, TxnOrNone(u),
           s[1] # "fail", ToCertify(s) => operation[t].host.version = r.expected,
           LET i == F!Instead(t, <<s>> \o p)
               j == [i EXCEPT !.txn = r]
           IN  F!Goes(t, j) \/ F!Goes(t, [j EXCEPT !.outer = u])
    PROVE  TxnsKept => VersionInv'
<1> DEFINE q == Tail(operation[t].todo)
           i == F!Instead(t, <<s>> \o p)
           j == [i EXCEPT !.txn = r]
           k == [j EXCEPT !.outer = u]
<1>1. Plain(q)
    BY DEF Checked
<1>2. i = [operation[t] EXCEPT !.todo = (<<s>> \o p) \o q]
    BY DEF F!Instead
<1>3. IsOp(i) /\ i.todo = (<<s>> \o p) \o q /\ i.host = operation[t].host
    BY <1>2 DEF Checked, IsOp, OpFields
<1> HIDE DEF i
<1>4. (<<s>> \o p) \o q = <<s>> \o (p \o q)
  <2>1. PICK S, T : p \in Seq(S) /\ q \in Seq(T)
      BY <1>1 DEF Plain, IsSequence
  <2> DEFINE U == S \cup T \cup {s}
  <2>2. <<s>> \in Seq(U) /\ p \in Seq(U) /\ q \in Seq(U)
      BY <2>1
  <2> HIDE DEF U, q
  <2> QED BY <2>2, ConcatAssociative
<1>5. Plain(p \o q)
    BY <1>1, PlainJoined
<1> DEFINE rest == p \o q
<1>6. /\ IsSequence(<<s>> \o rest) /\ <<s>> \o rest # <<>>
      /\ Head(<<s>> \o rest) = s /\ Tail(<<s>> \o rest) = rest
    BY <1>5, OneBefore
<1>7. IsOp(j) /\ j.todo = <<s>> \o rest /\ j.host = operation[t].host /\ j.txn = r
  <2> HIDE DEF rest, q
  <2>1. IsOp(j) /\ j.todo = i.todo /\ j.host = i.host /\ j.txn = r
      BY <1>3 DEF IsOp, OpFields
  <2>2. i.todo = <<s>> \o rest
      BY <1>3, <1>4 DEF rest
  <2> QED BY <1>3, <2>1, <2>2
<1> HIDE DEF j, q, rest
<1>8. IsOp(k) /\ k.todo = <<s>> \o rest /\ k.host = operation[t].host /\ k.txn = r
  <2>1. IsOp(k) /\ k.todo = j.todo /\ k.host = j.host /\ k.txn = j.txn
      BY <1>7, TakenTxn
  <2> QED BY <1>7, <2>1
<1> HIDE DEF k
<1>9. Checked(j) /\ Checked(k)
    BY <1>5, <1>6, <1>7, <1>8 DEF Checked, rest
<1>10. PICK o \in {j, k} : F!Goes(t, o)
    BY DEF i, j, k
<1>11. o.todo # <<>> /\ Checked(o)
    BY <1>6, <1>7, <1>8, <1>9, <1>10
<1>12. operation' = [operation EXCEPT ![t] = o]
    BY <1>10, <1>11 DEF F!Goes
<1> QED BY <1>11, <1>12, GoesOn DEF TxnsKept

LEMMA ObserveStepIs ==
    ASSUME VersionInv, NEW t \in Threads, F!ObserveStep(t)
    PROVE  VersionInv' /\ txn' = txn
<1> DEFINE step == F!Here(t)
           record == txn[F!W(t)]
           next == F!ObserveReconnect(record, record.expired, step[3], step[4], operation[t].host.version, step[5])
           set == CASE next = "FAILED" -> F!Set("DEGRADED")
                    [] next \in {"RECONNECTING", "VERSION_VERIFYING", "CERTIFYING"} -> F!Set("VERIFYING")
                    [] OTHER -> << >>
           s == IF next = "FAILED" /\ F!MissedDeadline(record, step[3]) THEN <<"miss">> ELSE <<"txn", next>>
           move == IF next = "FAILED" /\ F!MissedDeadline(record, step[3])
                   THEN << <<"miss">> >> ELSE << <<"txn", next>> >>
           i == F!Instead(t, IF next = record.state THEN << >> ELSE move \o set)
<1>1. txn' = txn /\ operation[t].todo # <<>> /\ F!Goes(t, [i EXCEPT !.txn = record])
    BY DEF F!ObserveStep, F!At, F!store
<1>2. Checked(operation[t])
    BY <1>1, Acting
<1>3. TxnOrNone(record)
    BY <1>2 DEF VersionInv, Checked, IsOp, F!W
<1>4. TxnsKept
    BY <1>1 DEF TxnsKept
<1>5. Plain(set)
    BY PlainSet, PlainEmpty
<1>6. next = "CERTIFYING" /\ next # record.state => operation[t].host.version = record.expected
    BY ObserveMoves
<1>7. move = <<s>> /\ s[1] # "fail" /\ (ToCertify(s) => next = "CERTIFYING")
    BY DEF ToCertify
<1> HIDE DEF next, set, record, step
<1>8. CASE next = record.state
  <2> DEFINE k == F!Instead(t, << >>)
             o == [k EXCEPT !.txn = record]
  <2>1. IsOp(k) /\ Plain(k.todo)
      BY <1>2, InsteadOp, PlainEmpty
  <2>2. F!Goes(t, o)
      BY <1>1, <1>8
  <2> HIDE DEF k
  <2>3. IsOp(o) /\ o.todo = k.todo
      BY <1>3, <2>1, TakenTxn
  <2> HIDE DEF o
  <2>4. Calm(t)
      BY <2>1, <2>2, <2>3, GoesCalm
  <2> QED BY <1>1, <1>4, <2>4, CalmSteps
<1>9. CASE next # record.state
  <2> HIDE DEF s, move
  <2> DEFINE k == F!Instead(t, <<s>> \o set)
  <2>1. F!Goes(t, [k EXCEPT !.txn = record])
      BY <1>1, <1>7, <1>9
  <2>2. ToCertify(s) => operation[t].host.version = record.expected
      BY <1>6, <1>7, <1>9
  <2>3. TxnsKept => VersionInv'
      BY <1>2, <1>3, <1>5, <1>7, <2>1, <2>2, ListedChecked
  <2> QED BY <1>1, <1>4, <2>3
<1> QED BY <1>8, <1>9

LEMMA LateStepIs ==
    ASSUME VersionInv, NEW t \in Threads, F!LateStep(t)
    PROVE  VersionInv' /\ txn' = txn
<1> DEFINE record == txn[F!W(t)]
           u == operation[t].txn
           s == <<"txn", "CERTIFYING">>
           p == << <<"decide">>, <<"resettle">> >>
           late == /\ record # None /\ record.state = "FAILED" /\ record.missed
                   /\ operation[t].cert.disposition = "CERTIFIED"
                   /\ operation[t].host.version = record.expected
           i == F!Instead(t, IF late THEN << <<"txn", "CERTIFYING">>, <<"decide">>, <<"resettle">> >>
                             ELSE << <<"decide">> >>)
<1>1. txn' = txn /\ operation[t].todo # <<>> /\ F!Goes(t, [[i EXCEPT !.txn = record] EXCEPT !.outer = u])
    BY DEF F!LateStep, F!At, F!store
<1>2. Checked(operation[t])
    BY <1>1, Acting
<1>3. TxnOrNone(record) /\ TxnOrNone(u)
    BY <1>2 DEF VersionInv, Checked, IsOp, F!W
<1>4. TxnsKept
    BY <1>1 DEF TxnsKept
<1>5. Mild(<<"decide">>) /\ Mild(<<"resettle">>)
    BY DEF Mild, ToCertify
<1>6. late => operation[t].host.version = record.expected
    OBVIOUS
<1>7. << <<"txn", "CERTIFYING">>, <<"decide">>, <<"resettle">> >> = <<s>> \o p
    OBVIOUS
<1>8. s[1] # "fail"
    OBVIOUS
<1>9. Plain(p) /\ Plain(<< <<"decide">> >>)
    BY <1>5, PlainOne, PlainTwo
<1> HIDE DEF record, late, s, p, u
<1>10. CASE late
  <2>1. F!Goes(t, [[F!Instead(t, <<s>> \o p) EXCEPT !.txn = record] EXCEPT !.outer = u])
      BY <1>1, <1>7, <1>10
  <2>2. TxnsKept => VersionInv'
      BY <1>2, <1>3, <1>6, <1>8, <1>9, <1>10, <2>1, ListedChecked
  <2> QED BY <1>1, <1>4, <2>2
<1>11. CASE ~late
  <2> DEFINE k == F!Instead(t, << <<"decide">> >>)
             j == [k EXCEPT !.txn = record]
             o == [j EXCEPT !.outer = u]
  <2>1. IsOp(k) /\ Plain(k.todo)
      BY <1>2, <1>9, InsteadOp
  <2>2. F!Goes(t, o)
      BY <1>1, <1>11
  <2> HIDE DEF k
  <2>3. IsOp(j) /\ j.todo = k.todo
      BY <1>3, <2>1, TakenTxn
  <2> HIDE DEF j
  <2>4. IsOp(o) /\ o.todo = j.todo
      BY <1>3, <2>3, TakenTxn
  <2> HIDE DEF o
  <2>5. Calm(t)
      BY <2>1, <2>2, <2>3, <2>4, GoesCalm
  <2> QED BY <1>1, <1>4, <2>5, CalmSteps
<1> QED BY <1>10, <1>11

\* An operation begins with plain steps and a transaction the ledger holds.
LEMMA OperationIs ==
    ASSUME NEW kind, kind # "idle", NEW w \in Workers, NEW todo, Plain(todo), NEW r, TxnOrNone(r)
    PROVE  LET o == F!Operation(kind, w, todo)
           IN  IsOp(o) /\ Plain(o.todo) /\ IsOp([o EXCEPT !.txn = r]) /\ Plain([o EXCEPT !.txn = r].todo)
<1> DEFINE o == F!Operation(kind, w, todo)
<1>1. IsOp(o) /\ o.todo = todo
    BY DEF F!Operation, IsOp, OpFields, TxnOrNone
<1> HIDE DEF o
<1>2. IsOp([o EXCEPT !.txn = r]) /\ [o EXCEPT !.txn = r].todo = todo
    BY <1>1, TakenTxn
<1>3. IsOp(o) /\ Plain(o.todo) /\ IsOp([o EXCEPT !.txn = r]) /\ Plain([o EXCEPT !.txn = r].todo)
    BY <1>1, <1>2
<1> QED BY <1>3 DEF o

LEMMA Begun ==
    ASSUME VersionInv, NEW t \in Threads, NEW o, IsOp(o), Plain(o.todo), o.todo # <<>>,
           operation' = [operation EXCEPT ![t] = o], txn' = txn
    PROVE  VersionInv'
BY PlainChecked, GoesOn

LEMMA BeginIs ==
    ASSUME VersionInv, NEW t \in Threads, NEW o, IsOp(o), Plain(o.todo), o.todo # <<>>, F!Begin(t, o)
    PROVE  VersionInv' /\ txn' = txn
<1>1. operation' = [operation EXCEPT ![t] = o] /\ txn' = txn
    BY DEF F!Begin, F!store
<1> QED BY <1>1, Begun

\* The lists the operations begin with.
LEMMA JoinedLong ==
    ASSUME NEW p, NEW q, Plain(p), Plain(q), p # <<>> \/ q # <<>>
    PROVE  Plain(p \o q) /\ p \o q # <<>>
<1>1. Plain(p \o q)
    BY PlainJoined
<1>2. p \o q # <<>>
  <2>1. PICK S, T : p \in Seq(S) /\ q \in Seq(T)
      BY DEF Plain, IsSequence
  <2>2. p \in Seq(S \cup T) /\ q \in Seq(S \cup T)
      BY <2>1
  <2>3. Len(p) \in Nat /\ Len(q) \in Nat /\ Len(p \o q) = Len(p) + Len(q) /\ p \o q \in Seq(S \cup T)
      BY <2>2
  <2>4. p # <<>> => Len(p) > 0
      BY <2>1
  <2>5. q # <<>> => Len(q) > 0
      BY <2>1
  <2>6. Len(p \o q) > 0
      BY <2>3, <2>4, <2>5
  <2> QED BY <2>3, <2>6
<1> QED BY <1>1, <1>2

LEMMA OperationsIs ==
    ASSUME VersionInv, NEW t \in Threads, NEW w \in Workers, F!Operations(t, w)
    PROVE  VersionInv' /\ txn' = txn
<1>1. ASSUME NEW kind, kind # "idle", NEW todo, Plain(todo), todo # <<>>, F!Begin(t, F!Operation(kind, w, todo))
      PROVE  VersionInv' /\ txn' = txn
  <2> DEFINE o == F!Operation(kind, w, todo)
  <2>1. IsOp(o) /\ Plain(o.todo)
      BY <1>1, OperationIs DEF TxnOrNone
  <2>2. o.todo # <<>>
      BY <1>1 DEF F!Operation
  <2>3. F!Begin(t, o)
      BY <1>1
  <2> HIDE DEF o
  <2> QED BY <2>1, <2>2, <2>3, BeginIs
<1>2. Plain(F!DesiredSteps) /\ F!DesiredSteps # <<>>
    BY Lists DEF F!DesiredSteps
<1>3. ASSUME NEW c, NEW f, F!Reconcile(t, w, c, f) PROVE VersionInv' /\ txn' = txn
  <2>1. Mild(<<"plan", c, f>>)
      BY DEF Mild, ToCertify
  <2>2. Plain(<< <<"plan", c, f>> >>)
      BY <2>1, PlainOne
  <2>3. Plain(F!DesiredSteps \o << <<"plan", c, f>> >>) /\ F!DesiredSteps \o << <<"plan", c, f>> >> # <<>>
      BY <1>2, <2>2, JoinedLong
  <2> QED BY <1>1, <1>3, <2>3 DEF F!Reconcile
<1>4. ASSUME NEW steps \in {<< >>, << <<"plan", F!UPDATE_CLASSES, FALSE>> >>}, F!InspectOrPlan(t, w, steps)
      PROVE  VersionInv' /\ txn' = txn
  <2>1. Mild(<<"plan", F!UPDATE_CLASSES, FALSE>>)
      BY DEF Mild, ToCertify
  <2>2. Plain(steps)
      BY <2>1, PlainOne, PlainEmpty
  <2>3. Plain(F!DesiredSteps \o steps) /\ F!DesiredSteps \o steps # <<>>
      BY <1>2, <2>2, JoinedLong
  <2> QED BY <1>1, <1>4, <2>3 DEF F!InspectOrPlan
<1>5. CASE F!Certify(t, w)
  <2>1. Plain(F!CertifySteps(F!AnyState)) /\ F!CertifySteps(F!AnyState) # <<>>
      BY Lists DEF F!CertifySteps
  <2> QED BY <1>1, <1>5, <2>1 DEF F!Certify
<1>6. CASE F!Drain(t, w) \/ F!Quarantine(t, w) \/ F!Resume(t, w)
  <2>1. Mild(<<"drain">>) /\ Mild(<<"resume">>) /\ Mild(<<"set", [state |-> "QUARANTINED"]>>)
      BY DEF Mild, ToCertify
  <2>2. /\ Plain(<< <<"drain">> >>) /\ << <<"drain">> >> # <<>>
        /\ Plain(<< <<"resume">> >>) /\ << <<"resume">> >> # <<>>
        /\ Plain(<< <<"set", [state |-> "QUARANTINED"]>> >>) /\ << <<"set", [state |-> "QUARANTINED"]>> >> # <<>>
      BY <2>1, PlainOne
  <2> QED BY <1>1, <1>6, <2>2 DEF F!Drain, F!Quarantine, F!Resume
<1>7. ASSUME NEW jobs, F!MarkBusy(t, w, jobs) PROVE VersionInv' /\ txn' = txn
  <2>1. Mild(<<"busy", jobs>>)
      BY DEF Mild, ToCertify
  <2>2. Plain(<< <<"busy", jobs>> >>) /\ << <<"busy", jobs>> >> # <<>>
      BY <2>1, PlainOne
  <2> QED BY <1>1, <1>7, <2>2 DEF F!MarkBusy
<1>8. ASSUME NEW seen, F!ObserveUpdate(t, w, seen) PROVE VersionInv' /\ txn' = txn
  <2>1. Mild(<<"observe", F!AnyState, up[w], seen, FALSE>>)
      BY DEF Mild, ToCertify
  <2>2. /\ Plain(<< <<"observe", F!AnyState, up[w], seen, FALSE>> >>)
        /\ << <<"observe", F!AnyState, up[w], seen, FALSE>> >> # <<>>
      BY <2>1, PlainOne
  <2> QED BY <1>1, <1>8, <2>2 DEF F!ObserveUpdate
<1>9. CASE F!CompleteUpdate(t, w)
  <2> DEFINE a == <<"observe", F!AnyState, TRUE, TRUE, FALSE>>
             b == <<"observe", {"RECONNECTING"}, TRUE, TRUE, FALSE>>
             c == <<"observe", {"VERSION_VERIFYING"}, TRUE, TRUE, FALSE>>
             d == <<"desired", {"CERTIFYING", "READY", "ROLLED_BACK"}>>
             e == <<"judge", {"CERTIFYING", "READY", "ROLLED_BACK"}>>
  <2>1. Mild(a) /\ Mild(b) /\ Mild(c) /\ Mild(d) /\ Mild(e)
      BY DEF Mild, ToCertify
  <2>2. F!Begin(t, F!Operation("complete", w, <<a, b, c, d, e>>))
      BY <1>9 DEF F!CompleteUpdate
  <2> HIDE DEF a, b, c, d, e
  <2>3. Plain(<<a, b, c, d, e>>)
      BY <2>1, PlainFive
  <2> QED BY <1>1, <2>2, <2>3
<1>10. CASE F!RollbackUpdate(t, w)
  <2> DEFINE p == IF txn[w].state = "ROLLBACK_APPLYING" THEN << >> ELSE << <<"txn", "ROLLBACK_APPLYING">> >>
             q == << <<"restore">> >>
             n == F!Operation("rollback", w, p \o q)
             o == [n EXCEPT !.txn = txn[w]]
  <2>1. F!Begin(t, o)
      BY <1>10 DEF F!RollbackUpdate
  <2>2. Mild(<<"txn", "ROLLBACK_APPLYING">>) /\ Mild(<<"restore">>)
      BY DEF Mild, ToCertify
  <2>3. Plain(p) /\ Plain(q) /\ q # <<>>
      BY <2>2, PlainOne, PlainEmpty
  <2> HIDE DEF p, q
  <2>4. Plain(p \o q) /\ p \o q # <<>>
      BY <2>3, JoinedLong
  <2>5. TxnOrNone(txn[w])
      BY DEF VersionInv
  <2>6. IsOp(o) /\ Plain(o.todo)
      BY <2>4, <2>5, OperationIs
  <2>7. o.todo = p \o q
      BY DEF F!Operation
  <2> HIDE DEF o
  <2> QED BY <2>1, <2>4, <2>6, <2>7, BeginIs
<1> QED BY <1>3, <1>4, <1>5, <1>6, <1>7, <1>8, <1>9, <1>10 DEF F!Operations

LEMMA RecoverIs ==
    ASSUME VersionInv, NEW t \in Threads, NEW w \in Workers, F!RecoverUpdate(t, w)
    PROVE  VersionInv' /\ txn' = txn
<1> DEFINE a == IF txn[w].state = "RESTART_PENDING" /\ ~up[w]
                THEN << <<"txn", "DISCONNECT_EXPECTED">> >> ELSE << >>
           s == <<"observe", F!AnyState, up[w], FALSE, TRUE>>
           b == << <<"observe", F!AnyState, up[w], FALSE, TRUE>> >>
           c == << <<"observe", {"VERSION_VERIFYING"}, TRUE, FALSE, TRUE>> >>
           d == IF up[w] THEN c \o F!CertifySteps({"CERTIFYING"}) ELSE << >>
           n == F!Operation("recover", w, (a \o b) \o d)
           o == [n EXCEPT !.txn = txn[w]]
<1>1. operation' = [operation EXCEPT ![t] = o] /\ txn' = txn
    BY DEF F!RecoverUpdate, F!store
<1>2. Mild(<<"txn", "DISCONNECT_EXPECTED">>) /\ Mild(s)
      /\ Mild(<<"observe", {"VERSION_VERIFYING"}, TRUE, FALSE, TRUE>>)
    BY DEF Mild, ToCertify
<1>3. Plain(a) /\ Plain(b) /\ Plain(c) /\ b # <<>>
    BY <1>2, PlainOne, PlainEmpty
<1> HIDE DEF a, b, c
<1>4. Plain(c \o F!CertifySteps({"CERTIFYING"}))
    BY <1>3, PlainJoined, Lists
<1>5. Plain(d)
    BY <1>4, PlainEmpty
<1> HIDE DEF d
<1>6. Plain(a \o b) /\ a \o b # <<>>
    BY <1>3, JoinedLong
<1>7. Plain((a \o b) \o d) /\ (a \o b) \o d # <<>>
    BY <1>5, <1>6, JoinedLong
<1>8. TxnOrNone(txn[w])
    BY DEF VersionInv
<1>9. IsOp(o) /\ Plain(o.todo)
    BY <1>7, <1>8, OperationIs
<1>10. o.todo = (a \o b) \o d
    BY DEF F!Operation
<1> HIDE DEF o
<1> QED BY <1>1, <1>7, <1>9, <1>10, Begun

\* A deadline that passes changes no version and certifies nothing.
LEMMA OverdueIs ==
    ASSUME NEW r, TxnOrNone(r)
    PROVE  /\ TxnOrNone(F!Overdue(r))
           /\ r # None => F!Overdue(r).state = r.state /\ F!Overdue(r).expected = r.expected
           /\ r = None => F!Overdue(r) = None
           /\ F!Overdue(r) # r => F!Overdue(r).state # "CERTIFYING"
BY DEF F!Overdue, TxnOrNone, IsTxn, TxnFields

LEMMA DeadlineIs ==
    ASSUME VersionInv, NEW w \in Workers, F!DeadlinePasses(w)
    PROVE  /\ VersionInv'
           /\ \A v \in Workers : txn'[v] # txn[v] => txn'[v].state # "CERTIFYING"
<1>1. txn' = [txn EXCEPT ![w] = F!Overdue(txn[w])]
      /\ operation' = [t \in Threads |-> IF t \in F!Running /\ operation[t].w = w
                                         THEN [operation[t] EXCEPT !.txn = F!Overdue(operation[t].txn)]
                                         ELSE operation[t]]
    BY DEF F!DeadlinePasses
<1>2. TxnOrNone(F!Overdue(txn[w])) /\ (F!Overdue(txn[w]) # txn[w] => F!Overdue(txn[w]).state # "CERTIFYING")
    BY OverdueIs DEF VersionInv
<1>3. txn' = [v \in Workers |-> txn'[v]] /\ \A v \in Workers : TxnOrNone(txn'[v])
    BY <1>1, <1>2 DEF VersionInv
<1>4. ASSUME NEW t \in Threads PROVE operation'[t] = F!Idle \/ Checked(operation'[t])
  <2> DEFINE r == F!Overdue(operation[t].txn)
             o == [operation[t] EXCEPT !.txn = r]
  <2>1. operation'[t] = operation[t] \/ (operation'[t] = o /\ t \in F!Running)
      BY <1>1
  <2>2. CASE operation'[t] = operation[t]
      BY <2>2 DEF VersionInv
  <2>3. CASE operation'[t] = o /\ t \in F!Running
    <3>1. Checked(operation[t])
        BY <2>3 DEF VersionInv, F!Running, F!Idle
    <3>2. /\ IsOp(operation[t]) /\ TxnOrNone(operation[t].txn)
          /\ TxnOrNone(r) /\ r.expected = operation[t].txn.expected
        BY <3>1, OverdueIs DEF Checked, IsOp
    <3> HIDE DEF r
    <3>3. IsOp(o) /\ o.todo = operation[t].todo /\ o.host = operation[t].host /\ o.txn = r
        BY <3>2, TakenTxn
    <3> HIDE DEF o
    <3>4. Checked(o)
        BY <3>1, <3>2, <3>3 DEF Checked
    <3> QED BY <2>3, <3>4
  <2> QED BY <2>1, <2>2, <2>3
<1>5. operation' = [t \in Threads |-> operation'[t]]
    BY <1>1
<1>6. F!Idle' = F!Idle
    BY DEF F!Idle
<1>7. VersionInv'
    BY <1>3, <1>4, <1>5, <1>6 DEF VersionInv
<1>8. \A v \in Workers : txn'[v] # txn[v] => txn'[v].state # "CERTIFYING"
    BY <1>1, <1>2 DEF VersionInv
<1> QED BY <1>7, <1>8

VersionKept == VersionInv' /\ \A w \in Workers :
    txn'[w] # txn[w] /\ txn'[w].state = "CERTIFYING" => \E t \in F!Running : VersionInHand(t, w)

LEMMA StepsIs ==
    ASSUME VersionInv, NEW t \in Threads, F!Steps(t)
    PROVE  VersionKept
<1>1. CASE Calmly(t)
  <2>1. Calm(t) /\ txn' = txn
      BY <1>1, CalmStep
  <2> QED BY <2>1, CalmSteps DEF VersionKept, TxnsKept
<1>2. CASE F!ObserveStep(t)
    BY <1>2, ObserveStepIs DEF VersionKept
<1>3. CASE F!LateStep(t)
    BY <1>3, LateStepIs DEF VersionKept
<1>4. CASE F!NewStep(t)
    BY <1>4, NewStepIs, CalmSteps DEF VersionKept
<1>5. CASE F!FailStep(t)
    BY <1>5, FailStepIs, CalmSteps DEF VersionKept
<1>6. CASE F!TxnStep(t)
    BY <1>6, TxnStepIs, CalmSteps DEF VersionKept, VersionInHand
<1> QED BY <1>1, <1>2, <1>3, <1>4, <1>5, <1>6 DEF F!Steps, Calmly

LEMMA OthersAre ==
    ASSUME VersionInv, UNCHANGED <<txn, operation>> \/ F!ControllerRestart
    PROVE  VersionKept
<1>1. F!Idle' = F!Idle
    BY DEF F!Idle
<1>2. CASE UNCHANGED <<txn, operation>>
    BY <1>1, <1>2 DEF VersionKept, VersionInv
<1>3. CASE F!ControllerRestart
  <2>1. txn' = txn /\ operation' = [t \in Threads |-> F!Idle]
      BY <1>3 DEF F!ControllerRestart, F!store
  <2> QED BY <1>1, <2>1 DEF VersionKept, VersionInv
<1> QED BY <1>2, <1>3

LEMMA VersionInitially == F!Init => VersionInv
<1> SUFFICES ASSUME F!Init PROVE VersionInv
    OBVIOUS
<1>1. txn = [w \in Workers |-> None] /\ operation = [t \in Threads |-> F!Idle]
    BY DEF F!Init
<1> QED BY <1>1 DEF VersionInv, TxnOrNone

LEMMA VersionNext == VersionInv /\ [F!Next]_F!vars => VersionKept
<1> SUFFICES ASSUME VersionInv, [F!Next]_F!vars PROVE VersionKept
    OBVIOUS
<1>1. CASE UNCHANGED F!vars
    BY <1>1, OthersAre DEF F!vars
<1>2. ASSUME NEW t \in Threads, F!Steps(t) PROVE VersionKept
    BY <1>2, StepsIs
<1>3. CASE F!ControllerRestart
    BY <1>3, OthersAre
<1>4. ASSUME NEW w \in Workers, NEW t \in Threads, F!Operations(t, w) PROVE VersionKept
    BY <1>4, OperationsIs DEF VersionKept
<1>5. ASSUME NEW w \in Workers, NEW t \in Threads, F!RecoverUpdate(t, w) PROVE VersionKept
    BY <1>5, RecoverIs DEF VersionKept
<1>6. ASSUME NEW w \in Workers, F!WorkerStops(w) \/ F!WorkerStarts(w) \/ F!HostChanges(w) PROVE VersionKept
  <2>1. UNCHANGED <<txn, operation>>
      BY <1>6 DEF F!WorkerStops, F!WorkerStarts, F!HostChanges, F!store
  <2> QED BY <2>1, OthersAre
<1>7. ASSUME NEW w \in Workers, F!DeadlinePasses(w) PROVE VersionKept
    BY <1>7, DeadlineIs DEF VersionKept
<1> QED BY <1>1, <1>2, <1>3, <1>4, <1>5, <1>6, <1>7 DEF F!Next

\* However many operations run on a worker at a time, and whatever they have
\* read before: the one that writes CERTIFYING has an inventory with the version
\* this record expects (update_lifecycle.py, observe_reconnect; fleet_ops.py,
\* observe_update, certify).
THEOREM VersionsVerified == F!Spec => F!VersionVerified
<1>1. VersionInv /\ [F!Next]_F!vars => VersionInv'
    BY VersionNext DEF VersionKept
<1>2. VersionInv /\ [F!Next]_F!vars =>
        [\A w \in Workers : txn'[w] # txn[w] /\ txn'[w].state = "CERTIFYING" =>
             \E t \in F!Running : /\ operation'[t] # operation[t] /\ operation[t].w = w
                                  /\ operation[t].host.version = txn'[w].expected]_F!vars
    BY VersionNext DEF VersionKept, VersionInHand
<1> QED BY VersionInitially, <1>1, <1>2, PTL DEF F!Spec, F!VersionVerified
=============================================================================
