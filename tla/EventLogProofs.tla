---------------------------- MODULE EventLogProofs ----------------------------
(***************************************************************************)
(* What holds of EventLog for every number of data points.                 *)
(*                                                                         *)
(* The invariants are not inductive by themselves.  ProtocolInv says who   *)
(* owns the buffer in each phase of the user: the flag is set only while   *)
(* the user sets up or waits, __schedule is about to write only while it   *)
(* is, and the signal is pending only behind it.  LastEntryInv relates     *)
(* where __schedule is to the last entry of a log that is being written.   *)
(***************************************************************************)
EXTENDS EventLog, TLAPS

\* Who owns the buffer.
ProtocolInv ==
    /\ task_spin_lock = 1 <=> user = "setting"
    /\ pc \in {"logging_in", "logging_out"} => is_log_enabled = 1
    /\ is_log_enabled = 1 => user \in {"setting", "waiting"} /\ allocated = 1 /\ SIGUSR1 = 0
    /\ SIGUSR1 = 1 => user = "waiting" /\ allocated = 1 /\ buf_offset = 2 * no_data_points
    /\ user = "setting" => is_log_enabled = 1 /\ buf = <<>>
    /\ user = "waiting" => is_log_enabled = 1 \/ SIGUSR1 = 1
    /\ user \in {"signalled", "copied"} => allocated = 1 /\ buf_offset = 2 * no_data_points
    /\ user # "setting" => buf_offset = Len(buf)
    /\ buf_offset <= 2 * no_data_points
    /\ fault # "freed_buffer"

\* leader is set before it is followed.
LeaderInv ==
    is_budget_set = 1 => fault # "null_leader" /\ (pc = "leaving" => leader = "set")

\* Two neighbouring entries of a log, and the place of those taken too early.
Alternates(s) == \A i \in 2 .. Len(s) : s[i - 1] # s[i] \/ (i = 2 /\ s[i] = "garbage")

EarlyOnly(s, reserved) == \A i \in 1 .. Len(s) : s[i] = "garbage" => i <= 2 /\ reserved = 0

\* Where __schedule is, and the last entry of a log that is being written.
LastEntryInv ==
    /\ is_log_enabled = 1 /\ Len(buf) > 0 =>
         /\ pc \in {"running", "leaving", "logging_out"} => buf[Len(buf)] # "duration"
         /\ pc \in {"out", "stamped", "logging_in"} => buf[Len(buf)] # "timestamp"
         /\ pc \in {"stamped", "logging_in"} => exec_time = "taken"
         /\ Len(buf) >= 2 /\ pc # "out" => exec_time = "taken"
    /\ is_budget_set = 1 /\ pc # "out" => exec_time = "taken"

\* What is in the buffer.
ContentInv ==
    /\ Alternates(buf)
    /\ EarlyOnly(buf, is_budget_set)
    /\ user = "copied" => log = buf

-----------------------------------------------------------------------------

\* What is written is an entry.
LEMMA EntryType ==
    /\ (IF exec_time = "taken" THEN "timestamp" ELSE "garbage") \in Entry
    /\ (IF exec_time = "taken" THEN "duration" ELSE "garbage") \in Entry
BY DEF Entry

\* The empty log.
LEMMA EmptyLog == <<>> \in Seq(Entry) /\ Len(<<>>) = 0
OBVIOUS

\* Writing an entry behind the others.
LEMMA AppendEntry ==
    ASSUME NEW s \in Seq(Entry), NEW e \in Entry
    PROVE  /\ Append(s, e) \in Seq(Entry) /\ Len(s) \in Nat
           /\ Len(Append(s, e)) = Len(s) + 1
           /\ Append(s, e)[Len(s) + 1] = e
OBVIOUS

\* Offsets are within a buffer that holds two entries for each data point.
LEMMA OffsetRange ==
    ASSUME NEW offset \in 0 .. 2 * MaxPoints, NEW points \in 0 .. MaxPoints
    PROVE  /\ offset <= 2 * points /\ offset >= 2 * points => offset = 2 * points
           /\ ~(offset >= 2 * points) => offset + 1 \in 0 .. 2 * MaxPoints
           /\ ~(offset >= 2 * points) => offset + 1 <= 2 * points
           /\ 0 \in 0 .. 2 * MaxPoints /\ 0 <= 2 * points
           /\ offset \in Nat
BY MaxPointsAssumption

\* An entry that differs from the last, or an early second one, continues a log.
LEMMA AppendAlternates ==
    ASSUME NEW s \in Seq(Entry), NEW e \in Entry, Alternates(s),
           Len(s) = 0 \/ s[Len(s)] # e \/ (Len(s) = 1 /\ e = "garbage")
    PROVE  Alternates(Append(s, e))
<1>1. SUFFICES ASSUME NEW i \in 2 .. Len(Append(s, e))
               PROVE  \/ Append(s, e)[i - 1] # Append(s, e)[i]
                      \/ i = 2 /\ Append(s, e)[i] = "garbage"
  BY DEF Alternates
<1>2. Len(Append(s, e)) = Len(s) + 1 /\ Len(s) \in Nat
  OBVIOUS
<1>3. CASE i <= Len(s)
  <2>1. Append(s, e)[i - 1] = s[i - 1] /\ Append(s, e)[i] = s[i]
    BY <1>2, <1>3
  <2>2. i \in 2 .. Len(s)
    BY <1>2, <1>3
  <2>3. QED
    BY <2>1, <2>2 DEF Alternates
<1>4. CASE i = Len(s) + 1
  <2>1. Append(s, e)[i - 1] = s[Len(s)] /\ Append(s, e)[i] = e /\ Len(s) >= 1
    BY <1>2, <1>4
  <2>2. QED
    BY <1>2, <1>4, <2>1
<1>5. QED
  BY <1>2, <1>3, <1>4

\* Of the entries of a log only the first two may be early.
LEMMA AppendEarly ==
    ASSUME NEW s \in Seq(Entry), NEW e \in Entry, NEW reserved, EarlyOnly(s, reserved),
           e = "garbage" => Len(s) <= 1 /\ reserved = 0
    PROVE  EarlyOnly(Append(s, e), reserved)
<1>1. SUFFICES ASSUME NEW i \in 1 .. Len(Append(s, e)), Append(s, e)[i] = "garbage"
               PROVE  i <= 2 /\ reserved = 0
  BY DEF EarlyOnly
<1>2. Len(Append(s, e)) = Len(s) + 1 /\ Len(s) \in Nat
  OBVIOUS
<1>3. CASE i <= Len(s)
  <2>1. Append(s, e)[i] = s[i] /\ i \in 1 .. Len(s)
    BY <1>2, <1>3
  <2>2. QED
    BY <1>1, <2>1 DEF EarlyOnly
<1>4. CASE i = Len(s) + 1
  <2>1. Append(s, e)[i] = e
    BY <1>2, <1>4
  <2>2. QED
    BY <1>1, <1>2, <1>4, <2>1
<1>5. QED
  BY <1>2, <1>3, <1>4

\* Copying all of a sequence yields the sequence.
LEMMA CopyIsWhole ==
    ASSUME NEW s \in Seq(Entry), NEW n \in Nat, n = Len(s)
    PROVE  SubSeq(s, 1, n) = s
OBVIOUS

\* In every behaviour the variables have their types, the user and __schedule keep to
\* the protocol, and the buffer is not overrun.
THEOREM LogProtocol == Spec => [](TypeOK /\ ProtocolInv)
<1>1. Init => TypeOK /\ ProtocolInv
  BY MaxPointsAssumption DEF Init, TypeOK, ProtocolInv, Entry
<1>2. TypeOK /\ ProtocolInv /\ [Next]_vars => TypeOK' /\ ProtocolInv'
  <2>1. SUFFICES ASSUME TypeOK, ProtocolInv, [Next]_vars
                 PROVE  TypeOK' /\ ProtocolInv'
    OBVIOUS
  <2> USE MaxPointsAssumption
  <2>R. /\ Full /\ buf_offset <= 2 * no_data_points => buf_offset = 2 * no_data_points
        /\ ~Full => /\ buf_offset + 1 \in 0 .. 2 * MaxPoints
                    /\ buf_offset + 1 <= 2 * no_data_points
        /\ 0 \in 0 .. 2 * MaxPoints /\ 0 <= 2 * request
        /\ buf_offset \in Nat
    <3>1. buf_offset \in 0 .. 2 * MaxPoints /\ no_data_points \in 0 .. MaxPoints
      BY <2>1 DEF TypeOK
    <3>2. request \in 0 .. MaxPoints
      BY <2>1 DEF TypeOK
    <3>3. QED
      BY <3>1, <3>2, OffsetRange DEF Full
  <2>2. CASE SwitchIn
    BY <2>2, <2>1 DEF SwitchIn, TypeOK, ProtocolInv, schedVars, logVars, userVars
  <2>3. CASE SwitchInTest
    BY <2>3, <2>1 DEF SwitchInTest, TypeOK, ProtocolInv, schedVars, logVars, userVars
  <2>4. CASE LogTimestamp
    <3>1. user # "setting" /\ is_log_enabled = 1 /\ pc = "logging_in"
      BY <2>1, <2>4 DEF LogTimestamp, TypeOK, ProtocolInv
    <3>2. CASE Full
      <4>1. buf_offset = 2 * no_data_points
        BY <2>1, <3>2, <2>R DEF ProtocolInv
      <4>2. QED
        BY <2>1, <2>4, <3>1, <3>2, <4>1 DEF LogTimestamp, log_data_point, TypeOK, ProtocolInv, userVars
    <3>3. CASE ~Full
      <4>1. PICK e \in Entry : log_data_point(e)
        BY <2>4, EntryType DEF LogTimestamp
      <4>2. /\ buf' \in Seq(Entry)
            /\ Len(buf') = Len(buf) + 1
        BY <2>1, <3>3, <4>1, AppendEntry DEF log_data_point, Write, TypeOK
      <4>3. /\ buf_offset' = buf_offset + 1
            /\ buf_offset' \in 0 .. 2 * MaxPoints
            /\ buf_offset' <= 2 * no_data_points
        BY <3>3, <4>1, <2>R DEF log_data_point, Write
      <4>4. /\ fault' = fault
            /\ UNCHANGED <<is_log_enabled, SIGUSR1, allocated, no_data_points, task_spin_lock>>
        BY <2>1, <3>1, <3>3, <4>1 DEF log_data_point, Write, ProtocolInv
      <4>5. /\ pc' \in {"running", "out"}
            /\ UNCHANGED <<leader, exec_time, is_budget_set, user, request, log>>
        BY <2>4 DEF LogTimestamp, userVars
      <4>6. TypeOK'
        BY <2>1, <4>2, <4>3, <4>4, <4>5 DEF TypeOK
      <4>7. ProtocolInv'
        BY <2>1, <3>1, <4>2, <4>3, <4>4, <4>5 DEF TypeOK, ProtocolInv
      <4>8. QED
        BY <4>6, <4>7
    <3>4. QED
      BY <3>2, <3>3
  <2>5. CASE SwitchOut
    BY <2>5, <2>1 DEF SwitchOut, TypeOK, ProtocolInv, schedVars, logVars, userVars
  <2>6. CASE SwitchOutTest
    BY <2>6, <2>1 DEF SwitchOutTest, TypeOK, ProtocolInv, schedVars, logVars, userVars
  <2>7. CASE LogDuration
    <3>1. user # "setting" /\ is_log_enabled = 1 /\ pc = "logging_out"
      BY <2>1, <2>7 DEF LogDuration, TypeOK, ProtocolInv
    <3>2. CASE Full
      <4>1. buf_offset = 2 * no_data_points
        BY <2>1, <3>2, <2>R DEF ProtocolInv
      <4>2. QED
        BY <2>1, <2>7, <3>1, <3>2, <4>1 DEF LogDuration, log_data_point, TypeOK, ProtocolInv, userVars
    <3>3. CASE ~Full
      <4>1. PICK e \in Entry : log_data_point(e)
        BY <2>7, EntryType DEF LogDuration
      <4>2. /\ buf' \in Seq(Entry)
            /\ Len(buf') = Len(buf) + 1
        BY <2>1, <3>3, <4>1, AppendEntry DEF log_data_point, Write, TypeOK
      <4>3. /\ buf_offset' = buf_offset + 1
            /\ buf_offset' \in 0 .. 2 * MaxPoints
            /\ buf_offset' <= 2 * no_data_points
        BY <3>3, <4>1, <2>R DEF log_data_point, Write
      <4>4. /\ fault' = fault
            /\ UNCHANGED <<is_log_enabled, SIGUSR1, allocated, no_data_points, task_spin_lock>>
        BY <2>1, <3>1, <3>3, <4>1 DEF log_data_point, Write, ProtocolInv
      <4>5. /\ pc' \in {"running", "out"}
            /\ UNCHANGED <<leader, exec_time, is_budget_set, user, request, log>>
        BY <2>7 DEF LogDuration, userVars
      <4>6. TypeOK'
        BY <2>1, <4>2, <4>3, <4>4, <4>5 DEF TypeOK
      <4>7. ProtocolInv'
        BY <2>1, <3>1, <4>2, <4>3, <4>4, <4>5 DEF TypeOK, ProtocolInv
      <4>8. QED
        BY <4>6, <4>7
    <3>4. QED
      BY <3>2, <3>3
  <2>8. ASSUME NEW points \in 0 .. MaxPoints, SetLoggingCheck(points)
       PROVE  TypeOK' /\ ProtocolInv'
    BY <2>8, <2>1 DEF SetLoggingCheck, TypeOK, ProtocolInv, schedVars, logVars, userVars
  <2>9. CASE SetLogging
    <3>1. buf' = <<>> /\ buf' \in Seq(Entry)
      BY <2>9, EmptyLog DEF SetLogging
    <3>2. SIGUSR1 = 0
      BY <2>1, <2>9 DEF SetLogging, TypeOK, ProtocolInv
    <3>3. TypeOK'
      BY <2>1, <2>9, <3>1 DEF SetLogging, TypeOK, schedVars
    <3>4. ProtocolInv'
      BY <2>1, <2>9, <3>1, <3>2 DEF SetLogging, TypeOK, ProtocolInv, schedVars
    <3>5. QED
      BY <3>3, <3>4
  <2>10. CASE SetLoggingEnd
    <3>1. /\ buf_offset' = Len(buf')
          /\ buf_offset' = 0
          /\ 0 \in 0 .. 2 * MaxPoints
          /\ buf_offset' <= 2 * no_data_points'
      BY <2>1, <2>10, <2>R, EmptyLog DEF SetLoggingEnd, ProtocolInv
    <3>2. TypeOK'
      BY <2>1, <2>10, <3>1 DEF SetLoggingEnd, TypeOK, schedVars
    <3>3. is_log_enabled = 1 /\ allocated = 1 /\ SIGUSR1 = 0
      BY <2>1, <2>10 DEF SetLoggingEnd, ProtocolInv
    <3>4. ProtocolInv'
      BY <2>1, <2>10, <3>1, <3>3 DEF SetLoggingEnd, TypeOK, ProtocolInv, schedVars
    <3>5. QED
      BY <3>2, <3>4
  <2>11. CASE Signalled
    BY <2>11, <2>1 DEF Signalled, TypeOK, ProtocolInv, schedVars, logVars, userVars
  <2>12. CASE GetLogCopy
    <3>1. user # "setting"
      BY <2>12, <2>1 DEF GetLogCopy, TypeOK
    <3>2. log' = buf
      <4>1. buf \in Seq(Entry) /\ buf_offset \in Nat /\ buf_offset = Len(buf)
        BY <2>1, <3>1, <2>R DEF TypeOK, ProtocolInv
      <4>2. SubSeq(buf, 1, buf_offset) = buf
        BY <4>1, CopyIsWhole
      <4>3. QED
        BY <2>12, <4>2 DEF GetLogCopy
    <3>3. allocated = 1 /\ fault' = fault
      BY <2>12, <2>1 DEF GetLogCopy, ProtocolInv
    <3>4. TypeOK'
      BY <2>12, <2>1, <3>2, <3>3 DEF GetLogCopy, TypeOK, schedVars, logVars
    <3>5. ProtocolInv'
      BY <2>12, <2>1, <3>3 DEF GetLogCopy, ProtocolInv, schedVars, logVars
    <3>6. QED
      BY <3>4, <3>5
  <2>13. CASE GetLogFree
    BY <2>13, <2>1 DEF GetLogFree, TypeOK, ProtocolInv, schedVars, logVars, userVars
  <2>14. CASE UNCHANGED vars
    BY <2>14, <2>1 DEF vars, TypeOK, ProtocolInv
  <2>15. QED
    BY <2>1, <2>2, <2>3, <2>4, <2>5, <2>6, <2>7, <2>8, <2>9, <2>10, <2>11, <2>12, <2>13, <2>14 DEF Next, Schedule, User
<1>3. QED
  BY <1>1, <1>2, PTL DEF Spec

\* The variables of EventLog have their types, the offset within the buffer, for every
\* number of data points.
THEOREM LogTypeCorrect == Spec => []TypeOK
BY LogProtocol, PTL

\* No buffer is written, copied or freed once it is freed.
THEOREM LogBufferSafe == Spec => []BufferOutlivesLogging
<1>1. TypeOK /\ ProtocolInv => BufferOutlivesLogging
  BY DEF TypeOK, ProtocolInv, BufferOutlivesLogging
<1>2. QED
  BY <1>1, LogProtocol, PTL

\* setLogging never makes __schedule follow a null leader in a reserved process.
THEOREM ReservedFollowsLeader == Spec => []OnlyUnreservedFaults
<1>1. Init => LeaderInv
  BY DEF Init, LeaderInv
<1>2. LeaderInv /\ TypeOK /\ [Next]_vars => LeaderInv'
  <2>1. SUFFICES ASSUME LeaderInv, TypeOK, [Next]_vars
                 PROVE  LeaderInv'
    OBVIOUS
  <2>2. CASE SwitchIn
    BY <2>2, <2>1 DEF SwitchIn, LeaderInv, schedVars, logVars, userVars
  <2>3. CASE SwitchInTest
    BY <2>3, <2>1 DEF SwitchInTest, LeaderInv, schedVars, logVars, userVars
  <2>4. CASE LogTimestamp
    BY <2>4, <2>1 DEF LogTimestamp, log_data_point, Write, LeaderInv, TypeOK
  <2>5. CASE SwitchOut
    BY <2>5, <2>1 DEF SwitchOut, LeaderInv, schedVars, logVars, userVars
  <2>6. CASE SwitchOutTest
    BY <2>6, <2>1 DEF SwitchOutTest, LeaderInv, schedVars, logVars, userVars
  <2>7. CASE LogDuration
    BY <2>7, <2>1 DEF LogDuration, log_data_point, Write, LeaderInv, TypeOK
  <2>8. ASSUME NEW points \in 0 .. MaxPoints, SetLoggingCheck(points)
       PROVE  LeaderInv'
    BY <2>8, <2>1 DEF SetLoggingCheck, LeaderInv, schedVars, logVars, userVars
  <2>9. CASE SetLogging
    BY <2>9, <2>1 DEF SetLogging, LeaderInv, schedVars, logVars, userVars
  <2>10. CASE SetLoggingEnd
    BY <2>10, <2>1 DEF SetLoggingEnd, LeaderInv, schedVars, logVars, userVars
  <2>11. CASE Signalled
    BY <2>11, <2>1 DEF Signalled, LeaderInv, schedVars, logVars, userVars
  <2>12. CASE GetLogCopy
    BY <2>12, <2>1 DEF GetLogCopy, LeaderInv, schedVars, logVars, userVars
  <2>13. CASE GetLogFree
    BY <2>13, <2>1 DEF GetLogFree, LeaderInv, schedVars, logVars, userVars
  <2>14. CASE UNCHANGED vars
    BY <2>14, <2>1 DEF vars, LeaderInv
  <2>15. QED
    BY <2>1, <2>2, <2>3, <2>4, <2>5, <2>6, <2>7, <2>8, <2>9, <2>10, <2>11, <2>12, <2>13, <2>14 DEF Next, Schedule, User
<1>3. LeaderInv => OnlyUnreservedFaults
  BY DEF LeaderInv, OnlyUnreservedFaults
<1>4. QED
  BY <1>1, <1>2, <1>3, LogTypeCorrect, PTL DEF Spec

\* What LogTimestamp adds to a buffer that is not full.
LEMMA LogTimestampAdds ==
    ASSUME TypeOK, ProtocolInv, LastEntryInv, LogTimestamp, ~Full
    PROVE  \E e \in {"timestamp", "garbage"} :
             /\ buf' = Append(buf, e)
             /\ Len(buf) = 0 \/ buf[Len(buf)] # e \/ (Len(buf) = 1 /\ e = "garbage")
             /\ e = "garbage" => Len(buf) <= 1 /\ is_budget_set = 0 /\ exec_time = "old"
<1>1. PICK e \in {"timestamp", "garbage"} :
        log_data_point(e) /\ e = IF exec_time = "taken" THEN "timestamp" ELSE "garbage"
  BY DEF LogTimestamp
<1>2. buf' = Append(buf, e)
  BY <1>1 DEF log_data_point, Write
<1>3. is_log_enabled = 1 /\ pc = "logging_in" /\ Len(buf) \in Nat
  BY DEF LogTimestamp, ProtocolInv, TypeOK
<1>4. e = "garbage" => exec_time = "old"
  BY <1>1 DEF TypeOK
<1>5. exec_time = "old" => Len(buf) <= 1 /\ is_budget_set = 0
  BY <1>3 DEF LastEntryInv, TypeOK
<1>6. Len(buf) = 0 \/ buf[Len(buf)] # e \/ (Len(buf) = 1 /\ e = "garbage")
  <2>1. Len(buf) > 0 => buf[Len(buf)] # "timestamp"
    BY <1>3 DEF LastEntryInv
  <2>2. CASE e = "timestamp"
    BY <1>3, <2>1, <2>2
  <2>3. CASE e = "garbage"
    <3>1. Len(buf) <= 1
      BY <1>4, <1>5, <2>3
    <3>2. Len(buf) = 0 \/ Len(buf) = 1
      <4>1. \A n \in Nat : n <= 1 => n = 0 \/ n = 1
        OBVIOUS
      <4>2. QED
        BY <1>3, <3>1, <4>1
    <3>3. QED
      BY <2>3, <3>2
  <2>4. QED
    BY <2>2, <2>3
<1>7. QED
  BY <1>2, <1>4, <1>5, <1>6

\* What LogDuration adds to a buffer that is not full.
LEMMA LogDurationAdds ==
    ASSUME TypeOK, ProtocolInv, LastEntryInv, LogDuration, ~Full
    PROVE  \E e \in {"duration", "garbage"} :
             /\ buf' = Append(buf, e)
             /\ Len(buf) = 0 \/ buf[Len(buf)] # e \/ (Len(buf) = 1 /\ e = "garbage")
             /\ e = "garbage" => Len(buf) <= 1 /\ is_budget_set = 0 /\ exec_time = "old"
<1>1. PICK e \in {"duration", "garbage"} :
        log_data_point(e) /\ e = IF exec_time = "taken" THEN "duration" ELSE "garbage"
  BY DEF LogDuration
<1>2. buf' = Append(buf, e)
  BY <1>1 DEF log_data_point, Write
<1>3. is_log_enabled = 1 /\ pc = "logging_out" /\ Len(buf) \in Nat
  BY DEF LogDuration, ProtocolInv, TypeOK
<1>4. e = "garbage" => exec_time = "old"
  BY <1>1 DEF TypeOK
<1>5. exec_time = "old" => Len(buf) <= 1 /\ is_budget_set = 0
  BY <1>3 DEF LastEntryInv, TypeOK
<1>6. Len(buf) = 0 \/ buf[Len(buf)] # e \/ (Len(buf) = 1 /\ e = "garbage")
  <2>1. Len(buf) > 0 => buf[Len(buf)] # "duration"
    BY <1>3 DEF LastEntryInv
  <2>2. CASE e = "duration"
    BY <1>3, <2>1, <2>2
  <2>3. CASE e = "garbage"
    <3>1. Len(buf) <= 1
      BY <1>4, <1>5, <2>3
    <3>2. Len(buf) = 0 \/ Len(buf) = 1
      <4>1. \A n \in Nat : n <= 1 => n = 0 \/ n = 1
        OBVIOUS
      <4>2. QED
        BY <1>3, <3>1, <4>1
    <3>3. QED
      BY <2>3, <3>2
  <2>4. QED
    BY <2>2, <2>3
<1>7. QED
  BY <1>2, <1>4, <1>5, <1>6

\* Timestamps and durations follow where __schedule is.
LEMMA LastEntryStep ==
    TypeOK /\ ProtocolInv /\ LastEntryInv /\ [Next]_vars => LastEntryInv'
<1>1. SUFFICES ASSUME TypeOK, ProtocolInv, LastEntryInv, [Next]_vars
               PROVE  LastEntryInv'
  OBVIOUS
<1>2. CASE SwitchIn
  BY <1>1, <1>2, EmptyLog DEF SwitchIn, LastEntryInv, ProtocolInv, TypeOK, schedVars, logVars, userVars
<1>3. CASE SwitchInTest
  BY <1>1, <1>3, EmptyLog DEF SwitchInTest, LastEntryInv, ProtocolInv, TypeOK, schedVars, logVars, userVars
<1>4. CASE LogTimestamp
  <2>1. /\ pc' = "running" /\ pc # "out"
        /\ UNCHANGED <<exec_time, is_budget_set>>
    BY <1>4 DEF LogTimestamp
  <2>2. CASE Full
    <3>1. is_log_enabled' = 0
      BY <1>4, <2>2 DEF LogTimestamp, log_data_point
    <3>2. QED
      BY <1>1, <2>1, <3>1 DEF LastEntryInv
  <2>3. CASE ~Full
    <3>1. PICK e \in {"timestamp", "garbage"} :
            /\ buf' = Append(buf, e)
            /\ e = "garbage" => Len(buf) <= 1 /\ is_budget_set = 0 /\ exec_time = "old"
      BY <1>1, <1>4, <2>3, LogTimestampAdds
    <3>2. e \in Entry /\ buf \in Seq(Entry)
      BY <1>1 DEF TypeOK, Entry
    <3>3. Len(buf') = Len(buf) + 1 /\ buf'[Len(buf')] = e /\ Len(buf) \in Nat
      BY <3>1, <3>2, AppendEntry
    <3>4. Len(buf) >= 1 /\ is_log_enabled = 1 => exec_time = "taken" \/ pc = "logging_out"
      BY <1>1, <1>4, <3>3 DEF LogTimestamp, LastEntryInv
    <3>5. QED
      BY <1>1, <2>1, <3>1, <3>3, <3>4, <1>4 DEF LastEntryInv, LogTimestamp, TypeOK, ProtocolInv
  <2>4. QED
    BY <2>2, <2>3
<1>5. CASE SwitchOut
  BY <1>1, <1>5, EmptyLog DEF SwitchOut, LastEntryInv, ProtocolInv, TypeOK, schedVars, logVars, userVars
<1>6. CASE SwitchOutTest
  BY <1>1, <1>6, EmptyLog DEF SwitchOutTest, LastEntryInv, ProtocolInv, TypeOK, schedVars, logVars, userVars
<1>7. CASE LogDuration
  <2>1. /\ pc' = "out" /\ pc # "out"
        /\ UNCHANGED <<exec_time, is_budget_set>>
    BY <1>7 DEF LogDuration
  <2>2. CASE Full
    <3>1. is_log_enabled' = 0
      BY <1>7, <2>2 DEF LogDuration, log_data_point
    <3>2. QED
      BY <1>1, <2>1, <3>1 DEF LastEntryInv
  <2>3. CASE ~Full
    <3>1. PICK e \in {"duration", "garbage"} :
            /\ buf' = Append(buf, e)
            /\ e = "garbage" => Len(buf) <= 1 /\ is_budget_set = 0 /\ exec_time = "old"
      BY <1>1, <1>7, <2>3, LogDurationAdds
    <3>2. e \in Entry /\ buf \in Seq(Entry)
      BY <1>1 DEF TypeOK, Entry
    <3>3. Len(buf') = Len(buf) + 1 /\ buf'[Len(buf')] = e /\ Len(buf) \in Nat
      BY <3>1, <3>2, AppendEntry
    <3>4. Len(buf) >= 1 /\ is_log_enabled = 1 => exec_time = "taken" \/ pc = "logging_out"
      BY <1>1, <1>7, <3>3 DEF LogDuration, LastEntryInv
    <3>5. QED
      BY <1>1, <2>1, <3>1, <3>3, <3>4, <1>7 DEF LastEntryInv, LogDuration, TypeOK, ProtocolInv
  <2>4. QED
    BY <2>2, <2>3
<1>8. ASSUME NEW points \in 0 .. MaxPoints, SetLoggingCheck(points)
     PROVE  LastEntryInv'
  BY <1>1, <1>8 DEF SetLoggingCheck, LastEntryInv, schedVars, logVars
<1>9. CASE SetLogging
  BY <1>1, <1>9, EmptyLog DEF SetLogging, LastEntryInv, ProtocolInv, TypeOK, schedVars, logVars, userVars
<1>10. CASE SetLoggingEnd
  BY <1>1, <1>10, EmptyLog DEF SetLoggingEnd, LastEntryInv, ProtocolInv, TypeOK, schedVars, logVars, userVars
<1>11. CASE Signalled
  BY <1>1, <1>11, EmptyLog DEF Signalled, LastEntryInv, ProtocolInv, TypeOK, schedVars, logVars, userVars
<1>12. CASE GetLogCopy
  BY <1>1, <1>12, EmptyLog DEF GetLogCopy, LastEntryInv, ProtocolInv, TypeOK, schedVars, logVars, userVars
<1>13. CASE GetLogFree
  BY <1>1, <1>13, EmptyLog DEF GetLogFree, LastEntryInv, ProtocolInv, TypeOK, schedVars, logVars, userVars
<1>14. CASE UNCHANGED vars
  BY <1>1, <1>14 DEF vars, LastEntryInv
<1>15. QED
  BY <1>1, <1>2, <1>3, <1>4, <1>5, <1>6, <1>7, <1>8, <1>9, <1>10, <1>11, <1>12, <1>13, <1>14 DEF Next, Schedule, User

\* Writing to the buffer, and copying it, keeps it in order.
LEMMA ContentStep ==
    TypeOK /\ ProtocolInv /\ LastEntryInv /\ ContentInv /\ [Next]_vars => ContentInv'
<1>1. SUFFICES ASSUME TypeOK, ProtocolInv, LastEntryInv, ContentInv, [Next]_vars
               PROVE  ContentInv'
  OBVIOUS
<1>2. CASE LogTimestamp /\ ~Full
  <2>1. PICK e \in Entry :
          /\ buf' = Append(buf, e)
          /\ Len(buf) = 0 \/ buf[Len(buf)] # e \/ (Len(buf) = 1 /\ e = "garbage")
          /\ e = "garbage" => Len(buf) <= 1 /\ is_budget_set = 0
    BY <1>1, <1>2, LogTimestampAdds DEF Entry
  <2>2. buf \in Seq(Entry)
    BY <1>1 DEF TypeOK
  <2>3. Alternates(buf)
    BY <1>1 DEF ContentInv
  <2>4. EarlyOnly(buf, is_budget_set)
    BY <1>1 DEF ContentInv
  <2>5. Alternates(buf')
    BY <2>1, <2>2, <2>3, AppendAlternates
  <2>6. EarlyOnly(buf', is_budget_set)
    BY <2>1, <2>2, <2>4, AppendEarly
  <2>7. is_budget_set' = is_budget_set /\ user' # "copied"
    BY <1>1, <1>2 DEF LogTimestamp, ProtocolInv, userVars
  <2>8. QED
    BY <2>5, <2>6, <2>7 DEF ContentInv
<1>3. CASE LogDuration /\ ~Full
  <2>1. PICK e \in Entry :
          /\ buf' = Append(buf, e)
          /\ Len(buf) = 0 \/ buf[Len(buf)] # e \/ (Len(buf) = 1 /\ e = "garbage")
          /\ e = "garbage" => Len(buf) <= 1 /\ is_budget_set = 0
    BY <1>1, <1>3, LogDurationAdds DEF Entry
  <2>2. buf \in Seq(Entry)
    BY <1>1 DEF TypeOK
  <2>3. Alternates(buf)
    BY <1>1 DEF ContentInv
  <2>4. EarlyOnly(buf, is_budget_set)
    BY <1>1 DEF ContentInv
  <2>5. Alternates(buf')
    BY <2>1, <2>2, <2>3, AppendAlternates
  <2>6. EarlyOnly(buf', is_budget_set)
    BY <2>1, <2>2, <2>4, AppendEarly
  <2>7. is_budget_set' = is_budget_set /\ user' # "copied"
    BY <1>1, <1>3 DEF LogDuration, ProtocolInv, userVars
  <2>8. QED
    BY <2>5, <2>6, <2>7 DEF ContentInv
<1>4. CASE SetLogging
  <2>1. Alternates(<<>>) /\ EarlyOnly(<<>>, is_budget_set)
    BY EmptyLog DEF Alternates, EarlyOnly
  <2>2. buf' = <<>> /\ is_budget_set' = is_budget_set /\ user' = "setting"
    BY <1>4 DEF SetLogging
  <2>3. QED
    BY <2>1, <2>2 DEF ContentInv
<1>5. CASE GetLogCopy
  <2>1. buf \in Seq(Entry) /\ buf_offset \in Nat /\ buf_offset = Len(buf)
    BY <1>1, <1>5 DEF GetLogCopy, TypeOK, ProtocolInv
  <2>2. SubSeq(buf, 1, buf_offset) = buf
    BY <2>1, CopyIsWhole
  <2>3. log' = buf /\ buf' = buf /\ is_budget_set' = is_budget_set
    BY <1>5, <2>2 DEF GetLogCopy, logVars
  <2>4. QED
    BY <1>1, <2>3 DEF ContentInv
<1>6. ASSUME buf' = buf, log' = log, is_budget_set' = is_budget_set,
             user' = "copied" => user = "copied"
      PROVE  ContentInv'
  BY <1>1, <1>6 DEF ContentInv
<1>7. ASSUME NEW points \in 0 .. MaxPoints, SetLoggingCheck(points)
      PROVE  ContentInv'
  BY <1>6, <1>7 DEF SetLoggingCheck, logVars
<1>8. CASE (LogTimestamp \/ LogDuration) /\ Full
  BY <1>6, <1>8 DEF LogTimestamp, LogDuration, log_data_point, userVars
<1>9. CASE SwitchIn
  BY <1>6, <1>9 DEF SwitchIn, logVars, userVars
<1>10. CASE SwitchInTest
  BY <1>6, <1>10 DEF SwitchInTest, logVars, userVars
<1>11. CASE SwitchOut
  BY <1>6, <1>11 DEF SwitchOut, logVars, userVars
<1>12. CASE SwitchOutTest
  BY <1>6, <1>12 DEF SwitchOutTest, logVars, userVars
<1>13. CASE SetLoggingEnd
  BY <1>6, <1>13 DEF SetLoggingEnd
<1>14. CASE Signalled
  BY <1>6, <1>14 DEF Signalled
<1>15. CASE GetLogFree
  BY <1>6, <1>15 DEF GetLogFree
<1>16. CASE UNCHANGED vars
  BY <1>6, <1>16 DEF vars
<1>17. QED
  BY <1>1, <1>2, <1>3, <1>4, <1>5, <1>7, <1>8, <1>9, <1>10, <1>11, <1>12, <1>13, <1>14, <1>15, <1>16
     DEF Next, Schedule, User

\* A log a user copies holds its data points, timestamps and durations by turns, and only
\* its first two entries can be from before exec_time was taken.
THEOREM LogContents == Spec => []LogSound
<1>1. Init => LastEntryInv /\ ContentInv
  BY EmptyLog DEF Init, LastEntryInv, ContentInv, Alternates, EarlyOnly
<1>2. TypeOK /\ ProtocolInv /\ ContentInv => LogSound
  <2>1. SUFFICES ASSUME TypeOK, ProtocolInv, ContentInv, user = "copied"
                 PROVE  /\ Len(log) = 2 * no_data_points
                        /\ \A i \in 2 .. Len(log) :
                             log[i - 1] # log[i] \/ (i = 2 /\ log[i] = "garbage")
                        /\ \A i \in DOMAIN log : log[i] = "garbage" => i <= 2 /\ is_budget_set = 0
    BY DEF LogSound
  <2>2. log = buf /\ log \in Seq(Entry) /\ Len(log) = 2 * no_data_points
    BY <2>1 DEF TypeOK, ProtocolInv, ContentInv
  <2>3. Alternates(log) /\ EarlyOnly(log, is_budget_set)
    BY <2>1, <2>2 DEF ContentInv
  <2>4. DOMAIN log = 1 .. Len(log)
    BY <2>2
  <2>5. QED
    BY <2>2, <2>3, <2>4 DEF Alternates, EarlyOnly
<1>3. QED
  BY <1>1, <1>2, LastEntryStep, ContentStep, LogProtocol, PTL DEF Spec

=============================================================================
