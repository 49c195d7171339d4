-------------------------- MODULE SQLExecutionProofs --------------------------
(***************************************************************************)
(* The safety properties of SQLExecution, for any executions, any          *)
(* retention and any number of faults.                                     *)
(***************************************************************************)
EXTENDS SQLExecution, TLAPS

\* Where an execution may be once it has its answer.
Answered == {"cleanup", "record", "done", "gone"}

\* What an execution knows fits what its session has done or may still do.
ExecSound(x) ==
    /\ exec[x].code # "none" => exec[x].pc \in Answered
    /\ exec[x].pc \in {"cleanup", "record", "done"} => exec[x].code # "none"
    /\ exec[x].pc \in {"commit", "await"} => x \in Writes
    /\ exec[x].pc = "await" =>
          /\ exec[x].heard \in {"none", "committed", "refused", "lost"}
          /\ exec[x].heard = "committed" => session[x].tx = "committed"
          /\ exec[x].heard = "refused" => session[x].tx = "aborted" /\ session[x].sent # "commit"
    /\ session[x].tx = "committed" \/ session[x].sent = "commit" =>
          exec[x].pc \in Answered \cup {"await"}
    /\ exec[x].code \in Definite => session[x].tx # "committed" /\ session[x].sent # "commit"
    /\ exec[x].code = "succeeded" /\ x \in Writes => session[x].tx = "committed"

\* A row of the history belongs to an answered execution, whose answer is final.
RowsSound ==
    \A i \in DOMAIN stored :
        /\ exec[stored[i].exec].pc \in {"done", "gone"}
        /\ exec[stored[i].exec].code # "none"
        /\ stored[i].status = HistoryStatus(exec[stored[i].exec].code)

\* The history is the end of what was stored, row by row.
Newest(h, s) ==
    /\ Len(h) <= Len(s)
    /\ \A i \in 1..Len(h) : h[i] = s[Len(s) - Len(h) + i]
    /\ Len(h) = Retention \/ Len(h) = Len(s)

IInv ==
    /\ TypeOK
    /\ \A x \in Execs : ExecSound(x)
    /\ RowsSound
    /\ Newest(history, stored)
    /\ LossReported

-----------------------------------------------------------------------------
(* The history *)

\* Recording a row and pruning leaves the newest rows.
LEMMA PruneKeepsNewest ==
    ASSUME NEW S, NEW h \in Seq(S), NEW s \in Seq(S), NEW r \in S,
           Newest(h, s), Len(h) <= Retention
    PROVE  /\ Prune(Append(h, r)) \in Seq(S)
           /\ Len(Prune(Append(h, r))) <= Retention
           /\ Newest(Prune(Append(h, r)), Append(s, r))
  <1> DEFINE a == Append(h, r)
             t == Append(s, r)
  <1>1. /\ a \in Seq(S) /\ Len(a) = Len(h) + 1
        /\ \A i \in 1..Len(h) : a[i] = h[i]
        /\ a[Len(h) + 1] = r
    OBVIOUS
  <1>2. /\ t \in Seq(S) /\ Len(t) = Len(s) + 1
        /\ \A i \in 1..Len(s) : t[i] = s[i]
        /\ t[Len(s) + 1] = r
    OBVIOUS
  <1>3. /\ Len(h) \in Nat /\ Len(s) \in Nat /\ Len(h) <= Len(s)
        /\ \A i \in 1..Len(h) : h[i] = s[Len(s) - Len(h) + i]
        /\ Len(h) = Retention \/ Len(h) = Len(s)
    BY DEF Newest
  <1>4. \A i \in 1..Len(a) : a[i] = t[Len(t) - Len(a) + i]
    <2> SUFFICES ASSUME NEW i \in 1..Len(a) PROVE a[i] = t[Len(t) - Len(a) + i]
      OBVIOUS
    <2>1. CASE i = Len(h) + 1
      BY <2>1, <1>1, <1>2, <1>3
    <2>2. CASE i \in 1..Len(h)
      <3>1. a[i] = s[Len(s) - Len(h) + i]
        BY <2>2, <1>1, <1>3
      <3>2. Len(s) - Len(h) + i \in 1..Len(s)
        BY <2>2, <1>3
      <3>3. t[Len(s) - Len(h) + i] = s[Len(s) - Len(h) + i]
        BY <3>2, <1>2
      <3>4. Len(t) - Len(a) + i = Len(s) - Len(h) + i
        BY <1>1, <1>2, <1>3
      <3> QED
        BY <3>1, <3>3, <3>4
    <2> QED
      BY <2>1, <2>2, <1>1, <1>3
  <1> HIDE DEF a, t
  <1>5. CASE Len(a) <= Retention
    <2>1. Prune(a) = a
      BY <1>1, <1>3, <1>5, RetentionAssumption DEF Prune
    <2>2. Newest(a, t)
      BY <1>1, <1>2, <1>3, <1>4, <1>5, RetentionAssumption DEF Newest
    <2> QED
      BY <2>1, <2>2, <1>1, <1>5 DEF a, t
  <1>6. CASE Len(a) > Retention
    <2> DEFINE p == SubSeq(a, 2, Len(a))
    <2>1. Len(h) = Retention /\ Len(a) = Retention + 1
      BY <1>1, <1>3, <1>6, RetentionAssumption
    <2>2. Prune(a) = p
      BY <2>1, <1>1, RetentionAssumption DEF Prune
    <2>3. p \in Seq(S) /\ Len(p) = Retention
      BY <2>1, <1>1, RetentionAssumption
    <2>4. \A i \in 1..Retention : p[i] = a[i + 1]
      BY <2>1, <1>1, RetentionAssumption
    <2>5. \A i \in 1..Retention : p[i] = t[Len(t) - Len(p) + i]
      <3> SUFFICES ASSUME NEW i \in 1..Retention PROVE p[i] = t[Len(t) - Len(p) + i]
        OBVIOUS
      <3>1. p[i] = a[i + 1] /\ i + 1 \in 1..Len(a)
        BY <2>1, <2>4, RetentionAssumption
      <3>2. a[i + 1] = t[Len(t) - Len(a) + (i + 1)]
        BY <3>1, <1>4
      <3>3. Len(t) - Len(a) + (i + 1) = Len(t) - Len(p) + i
        BY <2>1, <2>3, <1>2, RetentionAssumption
      <3> QED
        BY <3>1, <3>2, <3>3
    <2>6. Len(p) <= Len(t)
      BY <2>1, <2>3, <1>2, <1>3, RetentionAssumption
    <2> HIDE DEF p
    <2>7. Newest(p, t)
      BY <2>3, <2>5, <2>6 DEF Newest
    <2> QED
      BY <2>2, <2>3, <2>7, RetentionAssumption DEF a, t
  <1> QED
    BY <1>1, <1>3, <1>5, <1>6, RetentionAssumption DEF a

\* A pruned history stays as it is.
LEMMA PrunedStays ==
    ASSUME NEW h, Len(h) <= Retention, Len(h) \in Nat
    PROVE  Prune(h) = h
  BY RetentionAssumption DEF Prune

\* The rows that are there are a suffix of those ever stored.
LEMMA NewestIsSuffix ==
    ASSUME NEW S, NEW h \in Seq(S), NEW s \in Seq(S), Newest(h, s)
    PROVE  IsSuffix(h, s) /\ (Len(h) = Retention \/ h = s)
  <1>1. /\ Len(h) \in Nat /\ Len(s) \in Nat /\ Len(h) <= Len(s)
        /\ \A i \in 1..Len(h) : h[i] = s[Len(s) - Len(h) + i]
        /\ Len(h) = Retention \/ Len(h) = Len(s)
    BY DEF Newest
  <1> DEFINE rh == [i \in 1..Len(h) |-> h[(Len(h) - i) + 1]]
             rs == [i \in 1..Len(s) |-> s[(Len(s) - i) + 1]]
  <1>2. Reverse(h) = rh /\ Reverse(s) = rs
    BY DEF Reverse
  <1>3. rh \in Seq(S) /\ Len(rh) = Len(h)
    BY <1>1
  <1>4. rs \in Seq(S) /\ Len(rs) = Len(s)
    BY <1>1
  <1>5. \A i \in 1..Len(h) : rh[i] = rs[i]
    <2> SUFFICES ASSUME NEW i \in 1..Len(h) PROVE rh[i] = rs[i]
      OBVIOUS
    <2>1. (Len(h) - i) + 1 \in 1..Len(h)
      BY <1>1
    <2>2. h[(Len(h) - i) + 1] = s[Len(s) - Len(h) + ((Len(h) - i) + 1)]
      BY <2>1, <1>1
    <2>3. Len(s) - Len(h) + ((Len(h) - i) + 1) = (Len(s) - i) + 1
      BY <1>1
    <2>4. i \in 1..Len(s)
      BY <1>1
    <2> QED
      BY <2>2, <2>3, <2>4
  <1> HIDE DEF rh, rs
  <1>6. SubSeq(rh, 1, Len(rh)) = SubSeq(rs, 1, Len(rh))
    BY <1>1, <1>3, <1>4, <1>5
  <1>7. IsSuffix(h, s)
    BY <1>1, <1>2, <1>3, <1>4, <1>6 DEF IsSuffix, IsPrefix
  <1>8. Len(h) = Len(s) => h = s
    BY <1>1
  <1> QED
    BY <1>1, <1>7, <1>8

-----------------------------------------------------------------------------
(* The inductive invariant *)

\* No execution has begun.
LEMMA InitIInv == Init => IInv
  <1> SUFFICES ASSUME Init PROVE IInv
    OBVIOUS
  <1>1. TypeOK
    <2>1. exec \in [Execs -> [pc : PCs, code : Codes, heard : Heard]]
      BY DEF Init, PCs, Codes, Heard
    <2>2. session \in [Execs -> [tx : Transactions, sent : Messages, client : BOOLEAN]]
      BY DEF Init, Transactions, Messages
    <2>3. history \in Seq(Rows) /\ Len(history) <= Retention /\ stored \in Seq(Rows)
      BY RetentionAssumption DEF Init
    <2>4. library \in Libraries /\ bad \in BOOLEAN
      BY DEF Init, Degraded
    <2>5. faults \in 0..MaxFaults
      BY BoundAssumption DEF Init
    <2> QED
      BY <2>1, <2>2, <2>3, <2>4, <2>5 DEF TypeOK
  <1>2. ASSUME NEW x \in Execs PROVE ExecSound(x)
    BY DEF Init, ExecSound, Answered, Definite
  <1>3. RowsSound
    BY DEF Init, RowsSound
  <1>4. Newest(history, stored)
    BY DEF Init, Newest
  <1>5. LossReported
    BY DEF Init, LossReported, At
  <1> QED
    BY <1>1, <1>2, <1>3, <1>4, <1>5 DEF IInv

\* What is done to the entry of one execution keeps the types.
ExecRecs == [pc : PCs, code : Codes, heard : Heard]
SessionRecs == [tx : Transactions, sent : Messages, client : BOOLEAN]

LEMMA GotoTyped ==
    ASSUME exec \in [Execs -> ExecRecs], NEW x \in Execs, NEW pc \in PCs, Goto(x, pc)
    PROVE  exec' \in [Execs -> ExecRecs]
  BY DEF Goto, ExecRecs

LEMMA ReturnTyped ==
    ASSUME exec \in [Execs -> ExecRecs], NEW x \in Execs, NEW code \in Codes, Return(x, code)
    PROVE  exec' \in [Execs -> ExecRecs]
  <1>1. "cleanup" \in PCs
    BY DEF PCs
  <1>2. [exec[x] EXCEPT !.pc = "cleanup", !.code = code] \in ExecRecs
    BY <1>1 DEF ExecRecs
  <1> QED
    BY <1>2 DEF Return

LEMMA TellTyped ==
    ASSUME exec \in [Execs -> ExecRecs], NEW x \in Execs, NEW pc, NEW what \in Heard,
           Tell(x, pc, what)
    PROVE  exec' \in [Execs -> ExecRecs]
  BY DEF Tell, ExecRecs

LEMMA SessionTyped ==
    ASSUME session \in [Execs -> SessionRecs], NEW x \in Execs, NEW s \in SessionRecs
    PROVE  [session EXCEPT ![x] = s] \in [Execs -> SessionRecs]
  OBVIOUS

\* The session's transaction ends or goes on.
LEMMA SessionTold ==
    ASSUME session \in [Execs -> SessionRecs], NEW x \in Execs, NEW tx \in Transactions,
           session' = [session EXCEPT ![x] = [@ EXCEPT !.sent = "none", !.tx = tx]]
    PROVE  session' \in [Execs -> SessionRecs]
  <1>1. "none" \in Messages
    BY DEF Messages
  <1>2. [session[x] EXCEPT !.sent = "none", !.tx = tx] \in SessionRecs
    BY <1>1 DEF SessionRecs
  <1> QED
    BY <1>2

\* Every code that CommitCode gives is a code.
LEMMA CommitCodeTyped == \A heard : CommitCode(heard) \in Codes
  BY DEF CommitCode, Codes, Definite

\* Every step keeps the types.
LEMMA TypeStep == IInv /\ [Next]_vars => TypeOK'
  <1> SUFFICES ASSUME IInv, [Next]_vars PROVE TypeOK'
    OBVIOUS
  <1> DEFINE ExecOK == exec \in [Execs -> ExecRecs]
             SessionOK == session \in [Execs -> SessionRecs]
             HistoryOK == /\ history \in Seq(Rows) /\ Len(history) <= Retention
                          /\ stored \in Seq(Rows)
             RestOK == /\ library \in Libraries
                       /\ bad \in BOOLEAN
                       /\ faults \in 0..MaxFaults
  <1>0. ExecOK /\ SessionOK /\ HistoryOK /\ RestOK
    BY DEF IInv, TypeOK, ExecRecs, SessionRecs
  <1>t. ExecOK' /\ SessionOK' /\ HistoryOK' /\ RestOK' => TypeOK'
    BY DEF TypeOK, ExecRecs, SessionRecs
  <1>1. ASSUME NEW y \in Execs, Connect(y) PROVE TypeOK'
    <2>1. ExecOK'
      BY <1>0, <1>1, GotoTyped DEF Connect, PCs
    <2>2. SessionOK'
      BY <1>0, <1>1 DEF Connect, SessionRecs, Transactions
    <2>3. HistoryOK'
      BY <1>0, <1>1 DEF Connect, others
    <2>4. RestOK'
      BY <1>0, <1>1, BoundAssumption DEF Connect, others, Fault
    <2> QED
      BY <1>t, <2>1, <2>2, <2>3, <2>4
  <1>2. ASSUME NEW y \in Execs, ConnectFails(y) PROVE TypeOK'
    <2>1. ExecOK'
      <3>1. PICK code \in {"not_found", "endpoint_unavailable", "timeout", "sql_error"} : Return(y, code)
        BY <1>2 DEF ConnectFails
      <3>2. code \in Codes
        BY DEF Codes, Definite
      <3> QED
        BY <1>0, <3>1, <3>2, ReturnTyped
    <2>2. SessionOK'
      <3>1. PICK tx \in {"none", "open"} :
               session' = [session EXCEPT ![y] = [@ EXCEPT !.tx = tx, !.client = tx = "open"]]
        BY <1>2 DEF ConnectFails
      <3>2. tx \in Transactions /\ (tx = "open") \in BOOLEAN
        BY DEF Transactions
      <3>3. [session[y] EXCEPT !.tx = tx, !.client = tx = "open"] \in SessionRecs
        BY <1>0, <3>2 DEF SessionRecs
      <3> QED
        BY <1>0, <3>1, <3>3
    <2>3. HistoryOK'
      BY <1>0, <1>2 DEF ConnectFails, others
    <2>4. RestOK'
      BY <1>0, <1>2, BoundAssumption DEF ConnectFails, others, Fault
    <2> QED
      BY <1>t, <2>1, <2>2, <2>3, <2>4
  <1>3. ASSUME NEW y \in Execs, SendQuery(y) PROVE TypeOK'
    <2>1. ExecOK'
      BY <1>0, <1>3, GotoTyped DEF SendQuery, PCs
    <2>2. SessionOK'
      BY <1>0, <1>3 DEF SendQuery, Send, SessionRecs, Messages
    <2>3. HistoryOK'
      BY <1>0, <1>3 DEF SendQuery, others
    <2>4. RestOK'
      BY <1>0, <1>3, BoundAssumption DEF SendQuery, others, Fault
    <2> QED
      BY <1>t, <2>1, <2>2, <2>3, <2>4
  <1>4. ASSUME NEW y \in Execs, ReadRows(y) PROVE TypeOK'
    <2>1. ExecOK'
      <3>1. {"succeeded", "result_limit", "sql_error"} \subseteq Codes /\ "commit" \in PCs
        BY DEF Codes, Definite, PCs
      <3> QED
        BY <1>0, <1>4, <3>1, GotoTyped, ReturnTyped DEF ReadRows
    <2>2. SessionOK'
      BY <1>0, <1>4 DEF ReadRows
    <2>3. HistoryOK'
      BY <1>0, <1>4 DEF ReadRows, others
    <2>4. RestOK'
      BY <1>0, <1>4, BoundAssumption DEF ReadRows, others, Fault
    <2> QED
      BY <1>t, <2>1, <2>2, <2>3, <2>4
  <1>5. ASSUME NEW y \in Execs, QueryFails(y) PROVE TypeOK'
    <2>1. ExecOK'
      <3>1. "sql_error" \in Codes
        BY DEF Codes, Definite
      <3> QED
        BY <1>0, <1>5, <3>1, ReturnTyped DEF QueryFails
    <2>2. SessionOK'
      BY <1>0, <1>5 DEF QueryFails
    <2>3. HistoryOK'
      BY <1>0, <1>5 DEF QueryFails, others
    <2>4. RestOK'
      BY <1>0, <1>5, BoundAssumption DEF QueryFails, others, Fault
    <2> QED
      BY <1>t, <2>1, <2>2, <2>3, <2>4
  <1>6. ASSUME NEW y \in Execs, Cancel(y) PROVE TypeOK'
    <2>1. ExecOK'
      <3>1. "canceled" \in Codes
        BY DEF Codes, Definite
      <3> QED
        BY <1>0, <1>6, <3>1, ReturnTyped DEF Cancel
    <2>2. SessionOK'
      BY <1>0, <1>6 DEF Cancel
    <2>3. HistoryOK'
      BY <1>0, <1>6 DEF Cancel, others
    <2>4. RestOK'
      BY <1>0, <1>6, BoundAssumption DEF Cancel, others, Fault
    <2> QED
      BY <1>t, <2>1, <2>2, <2>3, <2>4
  <1>7. ASSUME NEW y \in Execs, SendCommit(y) PROVE TypeOK'
    <2>1. ExecOK'
      BY <1>0, <1>7 DEF SendCommit, ExecRecs, PCs, Heard
    <2>2. SessionOK'
      BY <1>0, <1>7 DEF SendCommit, Send, SessionRecs, Messages
    <2>3. HistoryOK'
      BY <1>0, <1>7 DEF SendCommit, others
    <2>4. RestOK'
      BY <1>0, <1>7, BoundAssumption DEF SendCommit, others, Fault
    <2> QED
      BY <1>t, <2>1, <2>2, <2>3, <2>4
  <1>8. ASSUME NEW y \in Execs, CommitAnswered(y) PROVE TypeOK'
    <2>1. ExecOK'
      BY <1>0, <1>8, CommitCodeTyped, ReturnTyped DEF CommitAnswered
    <2>2. SessionOK'
      BY <1>0, <1>8 DEF CommitAnswered
    <2>3. HistoryOK'
      BY <1>0, <1>8 DEF CommitAnswered, others
    <2>4. RestOK'
      BY <1>0, <1>8, BoundAssumption DEF CommitAnswered, others, Fault
    <2> QED
      BY <1>t, <2>1, <2>2, <2>3, <2>4
  <1>9. ASSUME NEW y \in Execs, CommitTimesOut(y) PROVE TypeOK'
    <2>1. ExecOK'
      BY <1>0, <1>9, CommitCodeTyped, ReturnTyped DEF CommitTimesOut
    <2>2. SessionOK'
      BY <1>0, <1>9 DEF CommitTimesOut
    <2>3. HistoryOK'
      BY <1>0, <1>9 DEF CommitTimesOut, others
    <2>4. RestOK'
      BY <1>0, <1>9, BoundAssumption DEF CommitTimesOut, others, Fault
    <2> QED
      BY <1>t, <2>1, <2>2, <2>3, <2>4
  <1>10. ASSUME NEW y \in Execs, Cleanup(y) PROVE TypeOK'
    <2>1. ExecOK'
      BY <1>0, <1>10, GotoTyped DEF Cleanup, PCs
    <2>2. SessionOK'
      BY <1>0, <1>10 DEF Cleanup, SessionRecs
    <2>3. HistoryOK'
      BY <1>0, <1>10 DEF Cleanup, others
    <2>4. RestOK'
      BY <1>0, <1>10, BoundAssumption DEF Cleanup, others, Fault
    <2> QED
      BY <1>t, <2>1, <2>2, <2>3, <2>4
  <1>11. ASSUME NEW y \in Execs, Record(y) PROVE TypeOK'
    <2>1. ExecOK'
      BY <1>0, <1>11, GotoTyped DEF Record, PCs
    <2>2. SessionOK'
      BY <1>0, <1>11 DEF Record
    <2>3. HistoryOK'
      <3> DEFINE row == [exec |-> y, status |-> HistoryStatus(exec[y].code)]
      <3>1. HistoryStatus(exec[y].code) \in {"succeeded", "outcome_unknown", "failed"}
        BY DEF HistoryStatus
      <3>2. row \in Rows
        BY <3>1 DEF Rows
      <3>3. \/ UNCHANGED <<history, stored>>
            \/ history' = Prune(Append(history, row)) /\ stored' = Append(stored, row)
        BY <1>11 DEF Record
      <3>4. Newest(history, stored)
        BY DEF IInv
      <3> HIDE DEF row
      <3>5. CASE UNCHANGED <<history, stored>>
        BY <1>0, <3>5
      <3>6. CASE history' = Prune(Append(history, row)) /\ stored' = Append(stored, row)
        <4>1. Prune(Append(history, row)) \in Seq(Rows) /\ Len(Prune(Append(history, row))) <= Retention
          BY <1>0, <3>2, <3>4, PruneKeepsNewest
        <4> QED
          BY <1>0, <3>2, <3>6, <4>1
      <3> QED
        BY <3>3, <3>5, <3>6
    <2>4. RestOK'
      <3>1. library' = library
        BY <1>11 DEF Record
      <3>2. faults' \in 0..MaxFaults
        <4>1. faults' = faults \/ Fault
          BY <1>11 DEF Record
        <4> QED
          BY <1>0, <4>1, BoundAssumption DEF Fault
      <3>3. bad' \in BOOLEAN
        BY <1>0, <1>11 DEF Record, Mark
      <3> QED
        BY <1>0, <3>1, <3>2, <3>3
    <2> QED
      BY <1>t, <2>1, <2>2, <2>3, <2>4
  <1>12. ASSUME NEW y \in Execs, ServerQuery(y) PROVE TypeOK'
    <2>1. ExecOK'
      <3>1. PICK what \in {"rows", "error"} : Tell(y, "rows", what)
        BY <1>12 DEF ServerQuery
      <3>2. what \in Heard
        BY DEF Heard
      <3> QED
        BY <1>0, <3>1, <3>2, TellTyped
    <2>2. SessionOK'
      <3>1. PICK tx \in {"open", "failed"} :
               session' = [session EXCEPT ![y] = [@ EXCEPT !.sent = "none", !.tx = tx]]
        BY <1>12 DEF ServerQuery
      <3>2. tx \in Transactions
        BY DEF Transactions
      <3> QED
        BY <1>0, <3>1, <3>2, SessionTold
    <2>3. HistoryOK'
      BY <1>0, <1>12 DEF ServerQuery, others
    <2>4. RestOK'
      BY <1>0, <1>12, BoundAssumption DEF ServerQuery, others, Fault
    <2> QED
      BY <1>t, <2>1, <2>2, <2>3, <2>4
  <1>13. ASSUME NEW y \in Execs, ServerCommit(y) PROVE TypeOK'
    <2>1. ExecOK'
      <3>1. PICK what \in {"committed", "refused"} : Tell(y, "await", what)
        BY <1>13 DEF ServerCommit
      <3>2. what \in Heard
        BY DEF Heard
      <3> QED
        BY <1>0, <3>1, <3>2, TellTyped
    <2>2. SessionOK'
      <3>1. PICK tx \in {"committed", "aborted"} :
               session' = [session EXCEPT ![y] = [@ EXCEPT !.sent = "none", !.tx = tx]]
        BY <1>13 DEF ServerCommit
      <3>2. tx \in Transactions
        BY DEF Transactions
      <3> QED
        BY <1>0, <3>1, <3>2, SessionTold
    <2>3. HistoryOK'
      BY <1>0, <1>13 DEF ServerCommit, others
    <2>4. RestOK'
      BY <1>0, <1>13, BoundAssumption DEF ServerCommit, others, Fault
    <2> QED
      BY <1>t, <2>1, <2>2, <2>3, <2>4
  <1>14. ASSUME NEW y \in Execs, ServerEnds(y) PROVE TypeOK'
    <2>1. ExecOK'
      BY <1>0, <1>14 DEF ServerEnds
    <2>2. SessionOK'
      <3>1. PICK tx \in {"aborted"} :
               session' = [session EXCEPT ![y] = [@ EXCEPT !.sent = "none", !.tx = tx]]
        BY <1>14 DEF ServerEnds
      <3>2. tx \in Transactions
        BY DEF Transactions
      <3> QED
        BY <1>0, <3>1, <3>2, SessionTold
    <2>3. HistoryOK'
      BY <1>0, <1>14 DEF ServerEnds, others
    <2>4. RestOK'
      BY <1>0, <1>14, BoundAssumption DEF ServerEnds, others, Fault
    <2> QED
      BY <1>t, <2>1, <2>2, <2>3, <2>4
  <1>15. ASSUME NEW y \in Execs, ConnectionLost(y) PROVE TypeOK'
    <2>1. ExecOK'
      <3> DEFINE pc == CASE At(y, "query") -> "rows"
                        [] At(y, "commit") -> "await"
                        [] OTHER -> exec[y].pc
      <3>1. exec' = [exec EXCEPT ![y] = [@ EXCEPT !.heard = "lost", !.pc = pc]]
        BY <1>15 DEF ConnectionLost
      <3>2. pc \in PCs /\ "lost" \in Heard
        BY <1>0 DEF PCs, Heard, ExecRecs
      <3> HIDE DEF pc
      <3>3. [exec[y] EXCEPT !.heard = "lost", !.pc = pc] \in ExecRecs
        BY <1>0, <3>2 DEF ExecRecs
      <3> QED
        BY <1>0, <3>1, <3>3
    <2>2. SessionOK'
      <3> DEFINE s == [session[y] EXCEPT !.client = FALSE]
                 ended == IF s.tx = "committed" THEN "committed" ELSE "aborted"
                 r == [s EXCEPT !.sent = "none", !.tx = ended]
      <3>1. s \in SessionRecs
        BY <1>0 DEF SessionRecs
      <3>2. ended \in Transactions /\ "none" \in Messages
        BY DEF Transactions, Messages
      <3>3. r \in SessionRecs
        BY <3>1, <3>2 DEF SessionRecs
      <3>4. session' \in {[session EXCEPT ![y] = s], [session EXCEPT ![y] = r]}
        BY <1>15 DEF ConnectionLost
      <3> HIDE DEF s, r
      <3> QED
        BY <1>0, <3>1, <3>3, <3>4, SessionTyped
    <2>3. HistoryOK'
      BY <1>0, <1>15 DEF ConnectionLost, others
    <2>4. RestOK'
      BY <1>0, <1>15, BoundAssumption DEF ConnectionLost, others, Fault
    <2> QED
      BY <1>t, <2>1, <2>2, <2>3, <2>4
  <1>16. CASE Crash
    <2>1. ExecOK'
      BY <1>0, <1>16 DEF Crash, PCs, ExecRecs
    <2>2. SessionOK'
      BY <1>0, <1>16 DEF Crash, SessionRecs
    <2>3. HistoryOK'
      <3>1. history' \in {history, Prune(history)} /\ stored' = stored
        BY <1>16 DEF Crash
      <3>2. Prune(history) = history
        BY <1>0, PrunedStays
      <3> QED
        BY <1>0, <3>1, <3>2
    <2>4. RestOK'
      <3>1. library' \in Libraries /\ bad' \in BOOLEAN
        BY <1>16 DEF Crash, Degraded
      <3>2. faults' \in 0..MaxFaults
        BY <1>0, <1>16, BoundAssumption DEF Crash, Fault
      <3> QED
        BY <1>0, <3>1, <3>2
    <2> QED
      BY <1>t, <2>1, <2>2, <2>3, <2>4
  <1>17. CASE UNCHANGED vars
    BY <1>17 DEF IInv, TypeOK, vars
  <1> QED
    BY <1>1, <1>2, <1>3, <1>4, <1>5, <1>6, <1>7, <1>8, <1>9, <1>10, <1>11, <1>12, <1>13,
       <1>14, <1>15, <1>16, <1>17
    DEF Next, ClientStep

\* Every step keeps what executions know in line with their sessions.
LEMMA SoundStep == IInv /\ [Next]_vars => \A x \in Execs : ExecSound(x)'
  <1> SUFFICES ASSUME IInv, [Next]_vars PROVE \A x \in Execs : ExecSound(x)'
    OBVIOUS
  <1>1. ASSUME NEW y \in Execs, Connect(y) PROVE \A x \in Execs : ExecSound(x)'
    BY <1>1 DEF IInv, TypeOK, ExecSound, Answered, Definite, At, Connect, Goto
  <1>2. ASSUME NEW y \in Execs, ConnectFails(y) PROVE \A x \in Execs : ExecSound(x)'
    BY <1>2 DEF IInv, TypeOK, ExecSound, Answered, Definite, At, ConnectFails, Return
  <1>3. ASSUME NEW y \in Execs, SendQuery(y) PROVE \A x \in Execs : ExecSound(x)'
    BY <1>3 DEF IInv, TypeOK, ExecSound, Answered, Definite, At, SendQuery, Goto, Send
  <1>4. ASSUME NEW y \in Execs, ReadRows(y) PROVE \A x \in Execs : ExecSound(x)'
    <2> SUFFICES ASSUME NEW x \in Execs PROVE ExecSound(x)'
      OBVIOUS
    <2>1. ExecSound(x) /\ ExecSound(y)
      BY DEF IInv
    <2>2. CASE x # y
      <3>1. exec'[x] = exec[x] /\ session'[x] = session[x]
        BY <1>4, <2>2 DEF IInv, TypeOK, ReadRows, Goto, Return
      <3> QED
        BY <2>1, <3>1 DEF ExecSound
    <2>3. CASE x = y
      <3>1. /\ exec[x] \in ExecRecs /\ exec[x].pc = "rows" /\ session' = session
            /\ exec[x].code = "none" /\ session[x].tx # "committed" /\ session[x].sent # "commit"
        BY <1>4, <2>1, <2>3 DEF IInv, TypeOK, ExecRecs, ExecSound, Answered, Codes, ReadRows, At
      <3>2. CASE x \in Reads /\ Return(y, "succeeded")
        <4>1. exec'[x].pc = "cleanup" /\ exec'[x].code = "succeeded" /\ x \notin Writes
          BY <2>3, <3>2, DisjointAssumption DEF IInv, TypeOK, Return
        <4> QED
          BY <3>1, <4>1 DEF ExecSound, Answered, Definite
      <3>3. CASE x \in Writes /\ Goto(y, "commit")
        <4>1. exec'[x].pc = "commit" /\ exec'[x].code = "none"
          BY <2>3, <3>1, <3>3 DEF IInv, TypeOK, Goto
        <4> QED
          BY <3>1, <3>3, <4>1 DEF ExecSound, Answered, Definite
      <3>4. ASSUME NEW code \in {"result_limit", "sql_error"}, Return(y, code)
            PROVE  ExecSound(x)'
        <4>1. exec'[x].pc = "cleanup" /\ exec'[x].code = code
          BY <2>3, <3>4 DEF IInv, TypeOK, Return
        <4>2. code \in Definite /\ code # "none" /\ code # "succeeded"
          BY DEF Definite
        <4> QED
          BY <3>1, <4>1, <4>2 DEF ExecSound, Answered
      <3> QED
        BY <1>4, <2>3, <3>2, <3>3, <3>4 DEF ReadRows
    <2> QED
      BY <2>2, <2>3
  <1>5. ASSUME NEW y \in Execs, QueryFails(y) PROVE \A x \in Execs : ExecSound(x)'
    BY <1>5 DEF IInv, TypeOK, ExecSound, Answered, Definite, At, QueryFails, Return
  <1>6. ASSUME NEW y \in Execs, Cancel(y) PROVE \A x \in Execs : ExecSound(x)'
    BY <1>6 DEF IInv, TypeOK, ExecSound, Answered, Definite, At, Cancel, Return
  <1>7. ASSUME NEW y \in Execs, SendCommit(y) PROVE \A x \in Execs : ExecSound(x)'
    BY <1>7 DEF IInv, TypeOK, ExecSound, Answered, Definite, At, SendCommit, Send
  <1>8. ASSUME NEW y \in Execs, CommitAnswered(y) PROVE \A x \in Execs : ExecSound(x)'
    BY <1>8
    DEF IInv, TypeOK, ExecSound, Answered, Definite, At, CommitAnswered, Return, CommitCode
  <1>9. ASSUME NEW y \in Execs, CommitTimesOut(y) PROVE \A x \in Execs : ExecSound(x)'
    BY <1>9
    DEF IInv, TypeOK, ExecSound, Answered, Definite, At, CommitTimesOut, Return, CommitCode
  <1>10. ASSUME NEW y \in Execs, Cleanup(y) PROVE \A x \in Execs : ExecSound(x)'
    BY <1>10 DEF IInv, TypeOK, ExecSound, Answered, Definite, At, Cleanup, Goto
  <1>11. ASSUME NEW y \in Execs, Record(y) PROVE \A x \in Execs : ExecSound(x)'
    BY <1>11 DEF IInv, TypeOK, ExecSound, Answered, Definite, At, Record, Goto
  <1>12. ASSUME NEW y \in Execs, ServerQuery(y) PROVE \A x \in Execs : ExecSound(x)'
    BY <1>12 DEF IInv, TypeOK, ExecSound, Answered, Definite, At, ServerQuery, Tell
  <1>13. ASSUME NEW y \in Execs, ServerCommit(y) PROVE \A x \in Execs : ExecSound(x)'
    <2> SUFFICES ASSUME NEW x \in Execs PROVE ExecSound(x)'
      OBVIOUS
    <2>1. ExecSound(x) /\ ExecSound(y)
      BY DEF IInv
    <2>2. CASE x # y
      <3>1. exec'[x] = exec[x] /\ session'[x] = session[x]
        BY <1>13, <2>2 DEF IInv, TypeOK, ServerCommit, Tell
      <3> QED
        BY <2>1, <3>1 DEF ExecSound
    <2>3. CASE x = y
      <3>1. /\ exec[x].pc \in Answered \cup {"await"} /\ exec[x].code \notin Definite
            /\ session[x].tx = "open" /\ session[x].sent = "commit"
        BY <1>13, <2>1, <2>3 DEF ExecSound, ServerCommit
      <3>2. exec[x].code = "succeeded" => x \notin Writes
        BY <2>1, <3>1 DEF ExecSound
      <3>3. PICK e \in {<<"committed", "committed">>, <<"aborted", "refused">>} :
               /\ session' = [session EXCEPT ![y] = [@ EXCEPT !.sent = "none", !.tx = e[1]]]
               /\ Tell(y, "await", e[2])
        BY <1>13 DEF ServerCommit
      <3>4. session'[x].sent = "none" /\ session'[x].tx = e[1]
        BY <2>3, <3>3 DEF IInv, TypeOK
      <3>5. /\ exec'[x].pc = exec[x].pc /\ exec'[x].code = exec[x].code
            /\ exec'[x].heard = e[2] \/ exec'[x].heard = exec[x].heard
        BY <2>3, <3>3 DEF IInv, TypeOK, Tell
      <3>6. exec[x].pc = "await" => exec[x].heard \in {"none", "lost"}
        BY <2>1, <3>1 DEF ExecSound
      <3> QED
        BY <2>1, <3>1, <3>2, <3>3, <3>4, <3>5, <3>6 DEF ExecSound, Answered
    <2> QED
      BY <2>2, <2>3
  <1>14. ASSUME NEW y \in Execs, ServerEnds(y) PROVE \A x \in Execs : ExecSound(x)'
    BY <1>14 DEF IInv, TypeOK, ExecSound, Answered, Definite, At, ServerEnds
  <1>15. ASSUME NEW y \in Execs, ConnectionLost(y) PROVE \A x \in Execs : ExecSound(x)'
    <2> SUFFICES ASSUME NEW x \in Execs PROVE ExecSound(x)'
      OBVIOUS
    <2>1. ExecSound(x) /\ ExecSound(y)
      BY DEF IInv
    <2>2. CASE x # y
      <3>1. exec'[x] = exec[x] /\ session'[x] = session[x]
        BY <1>15, <2>2 DEF IInv, TypeOK, ConnectionLost
      <3> QED
        BY <2>1, <3>1 DEF ExecSound
    <2>3. CASE x = y
      <3>1. /\ exec'[x].pc = CASE At(y, "query") -> "rows"
                             [] At(y, "commit") -> "await"
                             [] OTHER -> exec[y].pc
            /\ exec'[x].heard = "lost" /\ exec'[x].code = exec[x].code
            /\ exec[x].pc \in {"query", "rows", "commit", "await"}
        BY <1>15, <2>3 DEF IInv, TypeOK, ConnectionLost
      <3>2. /\ exec'[x].pc \in {"rows", "await"}
            /\ exec'[x].pc = "await" => exec[x].pc \in {"commit", "await"}
            /\ exec[x].pc = "await" => exec'[x].pc = "await"
        BY <2>3, <3>1 DEF At
      <3>3. /\ session'[x].tx = "committed" => session[x].tx = "committed"
            /\ session'[x].sent = "commit" => session[x].sent = "commit"
        BY <1>15, <2>3 DEF IInv, TypeOK, ConnectionLost
      <3>4. exec[x].code = "none" /\ exec'[x].code = "none"
        BY <2>1, <3>1 DEF ExecSound, Answered
      <3> QED
        BY <2>1, <3>1, <3>2, <3>3, <3>4 DEF ExecSound, Answered, Definite
    <2> QED
      BY <2>2, <2>3
  <1>16. CASE Crash
    BY <1>16 DEF IInv, TypeOK, ExecSound, Answered, Crash, At
  <1>17. CASE UNCHANGED vars
    BY <1>17 DEF IInv, ExecSound, vars
  <1> QED
    BY <1>1, <1>2, <1>3, <1>4, <1>5, <1>6, <1>7, <1>8, <1>9, <1>10, <1>11, <1>12, <1>13,
       <1>14, <1>15, <1>16, <1>17
    DEF Next, ClientStep

\* An execution is done by recording it; its answer stays, and what a process that went
\* down has answered stays so.
LEMMA DoneStep ==
    IInv /\ [Next]_vars =>
        \A x \in Execs :
            /\ exec[x].pc \in {"done", "gone"} =>
                  exec'[x].pc \in {exec[x].pc, "gone"} /\ exec'[x].code = exec[x].code
            /\ ~At(x, "done") /\ exec'[x].pc = "done" => Record(x)
  <1> DEFINE Good == \A x \in Execs :
                         /\ exec[x].pc \in {"done", "gone"} =>
                               exec'[x].pc \in {exec[x].pc, "gone"} /\ exec'[x].code = exec[x].code
                         /\ ~At(x, "done") /\ exec'[x].pc = "done" => Record(x)
  <1> SUFFICES ASSUME IInv, [Next]_vars PROVE Good
    OBVIOUS
  <1>0. exec \in [Execs -> ExecRecs]
    BY DEF IInv, TypeOK, ExecRecs
  <1>1. ASSUME NEW y \in Execs, Connect(y) PROVE Good
    BY <1>0, <1>1 DEF Connect, At, Goto, ExecRecs
  <1>2. ASSUME NEW y \in Execs, ConnectFails(y) PROVE Good
    BY <1>0, <1>2 DEF ConnectFails, At, Return, ExecRecs
  <1>3. ASSUME NEW y \in Execs, SendQuery(y) PROVE Good
    BY <1>0, <1>3 DEF SendQuery, At, Goto, ExecRecs
  <1>4. ASSUME NEW y \in Execs, ReadRows(y) PROVE Good
    BY <1>0, <1>4 DEF ReadRows, At, Goto, Return, ExecRecs
  <1>5. ASSUME NEW y \in Execs, QueryFails(y) PROVE Good
    BY <1>0, <1>5 DEF QueryFails, At, Return, ExecRecs
  <1>6. ASSUME NEW y \in Execs, Cancel(y) PROVE Good
    BY <1>0, <1>6 DEF Cancel, At, Return, ExecRecs
  <1>7. ASSUME NEW y \in Execs, SendCommit(y) PROVE Good
    BY <1>0, <1>7 DEF SendCommit, At, ExecRecs
  <1>8. ASSUME NEW y \in Execs, CommitAnswered(y) PROVE Good
    BY <1>0, <1>8 DEF CommitAnswered, At, Return, ExecRecs
  <1>9. ASSUME NEW y \in Execs, CommitTimesOut(y) PROVE Good
    BY <1>0, <1>9 DEF CommitTimesOut, At, Return, ExecRecs
  <1>10. ASSUME NEW y \in Execs, Cleanup(y) PROVE Good
    BY <1>0, <1>10 DEF Cleanup, At, Goto, ExecRecs
  <1>11. ASSUME NEW y \in Execs, Record(y) PROVE Good
    <2>1. At(y, "record") /\ Goto(y, "done")
      BY <1>11 DEF Record
    <2> QED
      BY <1>0, <1>11, <2>1 DEF At, Goto, ExecRecs
  <1>12. ASSUME NEW y \in Execs, ServerQuery(y) PROVE Good
    BY <1>0, <1>12 DEF ServerQuery, At, Tell, ExecRecs
  <1>13. ASSUME NEW y \in Execs, ServerCommit(y) PROVE Good
    BY <1>0, <1>13 DEF ServerCommit, At, Tell, ExecRecs
  <1>14. ASSUME NEW y \in Execs, ServerEnds(y) PROVE Good
    BY <1>0, <1>14 DEF ServerEnds, At, ExecRecs
  <1>15. ASSUME NEW y \in Execs, ConnectionLost(y) PROVE Good
    BY <1>0, <1>15 DEF ConnectionLost, At, ExecRecs
  <1>16. CASE Crash
    BY <1>0, <1>16 DEF Crash, At, ExecRecs
  <1>17. CASE UNCHANGED vars
    BY <1>17 DEF vars, At
  <1> QED
    BY <1>1, <1>2, <1>3, <1>4, <1>5, <1>6, <1>7, <1>8, <1>9, <1>10, <1>11, <1>12, <1>13,
       <1>14, <1>15, <1>16, <1>17
    DEF Next, ClientStep

\* What is stored grows by the rows of executions that end.
LEMMA StoredStep ==
    ASSUME IInv, [Next]_vars
    PROVE  \/ stored' = stored /\ Newest(history', stored')
           \/ \E x \in Execs :
                 /\ At(x, "record") /\ Goto(x, "done")
                 /\ LET row == [exec |-> x, status |-> HistoryStatus(exec[x].code)]
                    IN  stored' = Append(stored, row) /\ history' = Prune(Append(history, row))
  <1> DEFINE Kept == UNCHANGED <<history, stored>>
             Added(x) == /\ At(x, "record") /\ Goto(x, "done")
                         /\ LET row == [exec |-> x, status |-> HistoryStatus(exec[x].code)]
                            IN  stored' = Append(stored, row) /\ history' = Prune(Append(history, row))
  <1>1. Newest(history, stored) /\ Len(history) <= Retention /\ Len(history) \in Nat
    BY DEF IInv, TypeOK
  <1>2. Kept => stored' = stored /\ Newest(history', stored')
    BY <1>1
  <1>3. ASSUME NEW y \in Execs, Record(y) PROVE Kept \/ Added(y)
    BY <1>3 DEF Record
  <1>4. CASE Crash
    <2>1. history' \in {history, Prune(history)} /\ stored' = stored
      BY <1>4 DEF Crash
    <2> QED
      BY <1>1, <1>2, <2>1, PrunedStays
  <1>5. ASSUME NEW y \in Execs,
               \/ Connect(y) \/ SendQuery(y) \/ ReadRows(y) \/ QueryFails(y) \/ SendCommit(y)
               \/ CommitAnswered(y) \/ CommitTimesOut(y) \/ Cleanup(y) \/ ConnectFails(y) \/ Cancel(y)
        PROVE Kept
    BY <1>5
    DEF Connect, SendQuery, ReadRows, QueryFails, SendCommit, CommitAnswered, CommitTimesOut,
                Cleanup, ConnectFails, Cancel, others
  <1>6. ASSUME NEW y \in Execs,
               ServerQuery(y) \/ ServerCommit(y) \/ ServerEnds(y) \/ ConnectionLost(y)
        PROVE Kept
    BY <1>6 DEF ServerQuery, ServerCommit, ServerEnds, ConnectionLost, others
  <1>7. CASE UNCHANGED vars
    BY <1>2, <1>7 DEF vars
  <1> HIDE DEF Kept
  <1>8. CASE \E y \in Execs :
                \/ ClientStep(y) \/ ConnectFails(y) \/ Cancel(y)
                \/ ServerQuery(y) \/ ServerCommit(y) \/ ServerEnds(y) \/ ConnectionLost(y)
    <2>1. PICK y \in Execs :
             \/ ClientStep(y) \/ ConnectFails(y) \/ Cancel(y)
             \/ ServerQuery(y) \/ ServerCommit(y) \/ ServerEnds(y) \/ ConnectionLost(y)
      BY <1>8
    <2>2. Kept \/ Added(y)
      BY <1>3, <1>5, <1>6, <2>1 DEF ClientStep
    <2> QED
      BY <1>2, <2>2
  <1> QED
    BY <1>4, <1>7, <1>8 DEF Next

\* Every step leaves the newest rows, and rows that tell the executions' answers.
LEMMA RowsStep == IInv /\ [Next]_vars => RowsSound' /\ Newest(history', stored')
  <1> SUFFICES ASSUME IInv, [Next]_vars PROVE RowsSound' /\ Newest(history', stored')
    OBVIOUS
  <1>0. /\ exec \in [Execs -> ExecRecs] /\ history \in Seq(Rows) /\ stored \in Seq(Rows)
        /\ Len(history) <= Retention /\ Newest(history, stored) /\ RowsSound
    BY DEF IInv, TypeOK, ExecRecs
  <1>1. ASSUME NEW i \in DOMAIN stored
        PROVE  /\ exec'[stored[i].exec].pc \in {"done", "gone"}
               /\ exec'[stored[i].exec].code # "none"
               /\ stored[i].status = HistoryStatus(exec'[stored[i].exec].code)
    <2>0. stored[i] \in Rows
      BY <1>0
    <2>1. stored[i].exec \in Execs
      BY <2>0 DEF Rows
    <2>2. /\ exec[stored[i].exec].pc \in {"done", "gone"} /\ exec[stored[i].exec].code # "none"
          /\ stored[i].status = HistoryStatus(exec[stored[i].exec].code)
      BY <1>0 DEF RowsSound
    <2>3. /\ exec'[stored[i].exec].pc \in {"done", "gone"}
          /\ exec'[stored[i].exec].code = exec[stored[i].exec].code
      BY <2>1, <2>2, DoneStep
    <2> QED
      BY <2>2, <2>3
  <1>2. CASE stored' = stored /\ Newest(history', stored')
    BY <1>1, <1>2 DEF RowsSound
  <1>3. ASSUME NEW x \in Execs, At(x, "record"), Goto(x, "done"),
               NEW row, row = [exec |-> x, status |-> HistoryStatus(exec[x].code)],
               stored' = Append(stored, row), history' = Prune(Append(history, row))
        PROVE  RowsSound' /\ Newest(history', stored')
    <2>1. row \in Rows
      BY <1>3 DEF Rows, HistoryStatus
    <2>2. Newest(history', stored')
      BY <1>0, <1>3, <2>1, PruneKeepsNewest
    <2>3. exec'[x].pc = "done" /\ exec'[x].code = exec[x].code /\ exec[x].code # "none"
      BY <1>0, <1>3 DEF IInv, ExecSound, At, Goto, ExecRecs
    <2>4. row.exec = x /\ row.status = HistoryStatus(exec'[x].code)
      BY <1>3, <2>3
    <2>5. \A i \in DOMAIN stored' : (i \in DOMAIN stored /\ stored'[i] = stored[i]) \/ stored'[i] = row
      BY <1>0, <1>3, <2>1
    <2>6. RowsSound'
      BY <1>1, <2>3, <2>4, <2>5 DEF RowsSound
    <2> QED
      BY <2>2, <2>6
  <1> QED
    BY <1>2, <1>3, StoredStep

\* The health check forgets nothing while the process runs.
LEMMA BadStep ==
    ASSUME IInv, [Next]_vars
    PROVE  bad' = bad \/ bad' = TRUE \/ Crash
  <1>1. ASSUME NEW y \in Execs, Record(y) PROVE bad' = bad \/ bad' = TRUE
    BY <1>1 DEF IInv, TypeOK, Record, Mark
  <1>2. ASSUME NEW y \in Execs,
               \/ Connect(y) \/ SendQuery(y) \/ ReadRows(y) \/ QueryFails(y) \/ SendCommit(y)
               \/ CommitAnswered(y) \/ CommitTimesOut(y) \/ Cleanup(y) \/ ConnectFails(y) \/ Cancel(y)
        PROVE bad' = bad
    BY <1>2
    DEF Connect, SendQuery, ReadRows, QueryFails, SendCommit, CommitAnswered, CommitTimesOut,
                Cleanup, ConnectFails, Cancel, others
  <1>3. ASSUME NEW y \in Execs,
               ServerQuery(y) \/ ServerCommit(y) \/ ServerEnds(y) \/ ConnectionLost(y)
        PROVE bad' = bad
    BY <1>3 DEF ServerQuery, ServerCommit, ServerEnds, ConnectionLost, others
  <1> QED
    BY <1>1, <1>2, <1>3 DEF Next, ClientStep, vars

\* What was stored stays stored.
LEMMA StoredGrows ==
    ASSUME IInv, [Next]_vars
    PROVE  \A i \in DOMAIN stored : i \in DOMAIN stored' /\ stored'[i] = stored[i]
  <1>1. ASSUME NEW row \in Rows, stored' = Append(stored, row)
        PROVE  \A i \in DOMAIN stored : i \in DOMAIN stored' /\ stored'[i] = stored[i]
    BY <1>1 DEF IInv, TypeOK
  <1>2. ASSUME NEW x \in Execs
        PROVE  [exec |-> x, status |-> HistoryStatus(exec[x].code)] \in Rows
    BY DEF Rows, HistoryStatus
  <1> QED
    BY <1>1, <1>2, StoredStep

\* A loss that was reported stays so, and a new one is reported.
LEMMA LossStep == IInv /\ [Next]_vars => LossReported'
  <1> SUFFICES ASSUME IInv, [Next]_vars, NEW x \in Execs, exec'[x].pc = "done"
               PROVE  bad' \/ \E i \in DOMAIN stored' : stored'[i].exec = x
    BY DEF LossReported, At
  <1> DEFINE row == [exec |-> x, status |-> HistoryStatus(exec[x].code)]
  <1>1. CASE ~At(x, "done")
    <2>1. Record(x)
      BY <1>1, DoneStep
    <2>2. bad' = TRUE \/ stored' = Append(stored, row)
      BY <2>1 DEF Record, Mark
    <2>3. CASE stored' = Append(stored, row)
      <3>1. stored \in Seq(Rows) /\ row \in Rows
        BY DEF IInv, TypeOK, Rows, HistoryStatus
      <3>2. Len(stored) + 1 \in DOMAIN stored' /\ stored'[Len(stored) + 1] = row
        BY <2>3, <3>1
      <3> QED
        BY <3>2
    <2> QED
      BY <2>2, <2>3
  <1>2. CASE At(x, "done")
    <2>1. ~Crash
      <3>1. exec[x] \in ExecRecs
        BY DEF IInv, TypeOK, ExecRecs
      <3>2. Crash => exec'[x] = [exec[x] EXCEPT !.pc = "gone"]
        BY <1>2 DEF Crash, At
      <3> QED
        BY <3>1, <3>2 DEF ExecRecs
    <2>2. bad \/ \E i \in DOMAIN stored : stored[i].exec = x
      BY <1>2 DEF IInv, LossReported
    <2> QED
      BY <2>1, <2>2, BadStep, StoredGrows
  <1> QED
    BY <1>1, <1>2

\* The invariant holds of every state of every behaviour.
LEMMA Invariance == Spec => []IInv
  <1>1. Init => IInv
    BY InitIInv
  <1>2. IInv /\ [Next]_vars => IInv'
    BY TypeStep, SoundStep, RowsStep, LossStep DEF IInv
  <1> QED
    BY <1>1, <1>2, PTL DEF Spec

-----------------------------------------------------------------------------
(* The theorems *)

\* The variables have the values the code gives them; the history never exceeds its
\* retention.
THEOREM TypeCorrect == Spec => []TypeOK
  <1>1. IInv => TypeOK
    BY DEF IInv
  <1> QED
    BY <1>1, Invariance, PTL

\* What Execute answers, and what the history says of it afterwards, is true of the
\* session's transaction for good: no write that is reported as failed, timed out,
\* cancelled or rolled back is ever committed.
THEOREM AnswersAreTrue == Spec => []AnswersTrue
  <1>1. IInv => AnswersTrue
    <2> SUFFICES ASSUME IInv PROVE AnswersTrue
      OBVIOUS
    <2>1. ASSUME NEW x \in Execs
          PROVE  /\ exec[x].code \in Definite => ~Committed(x)
                 /\ exec[x].code = "succeeded" /\ x \in Writes => Committed(x)
      BY DEF IInv, ExecSound, Committed
    <2>2. ASSUME NEW i \in DOMAIN stored
          PROVE  /\ stored[i].status = "failed" => ~Committed(stored[i].exec)
                 /\ stored[i].status = "succeeded" /\ stored[i].exec \in Writes
                       => Committed(stored[i].exec)
      <3> DEFINE x == stored[i].exec
      <3>0. stored[i] \in Rows /\ exec \in [Execs -> ExecRecs]
        BY DEF IInv, TypeOK, ExecRecs
      <3>1. x \in Execs /\ exec[x] \in ExecRecs
        BY <3>0 DEF Rows
      <3>2. stored[i].status = HistoryStatus(exec[x].code) /\ exec[x].code # "none"
        BY DEF IInv, RowsSound
      <3>3. exec[x].code \in Codes /\ exec[x].code # "none"
        BY <3>1, <3>2 DEF ExecRecs
      <3>4. stored[i].status = "failed" => exec[x].code \in Definite
        BY <3>2, <3>3 DEF HistoryStatus, Codes
      <3>5. stored[i].status = "succeeded" => exec[x].code = "succeeded"
        BY <3>2 DEF HistoryStatus
      <3> QED
        BY <2>1, <3>1, <3>4, <3>5
    <2> QED
      BY <2>1, <2>2 DEF AnswersTrue
  <1> QED
    BY <1>1, Invariance, PTL

\* The history holds the newest rows of all that were stored, whatever failed and however
\* often the controller restarted.
THEOREM NewestKept == Spec => []HistoryNewest
  <1>1. IInv => HistoryNewest
    BY NewestIsSuffix DEF IInv, TypeOK, HistoryNewest
  <1> QED
    BY <1>1, Invariance, PTL

\* No answered execution is missing from what was stored without the health check saying
\* so for as long as the process runs, whatever succeeds after it.
THEOREM LossIsReported == Spec => []LossReported
  <1>1. IInv => LossReported
    BY DEF IInv
  <1> QED
    BY <1>1, Invariance, PTL
=============================================================================
