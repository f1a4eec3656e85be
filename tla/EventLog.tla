------------------------------- MODULE EventLog -------------------------------
(***************************************************************************)
(* The log of the scheduling of a process of one thread: __schedule writes *)
(* a timestamp when the process is switched in and a duration when it is   *)
(* switched out, into a buffer that another process, the user, allocates   *)
(* with setLogging and copies and frees with getLog.  When the buffer is   *)
(* full logging ends and the user gets SIGUSR1.                            *)
(*                                                                         *)
(* __schedule reads the flag without a lock and logs under task_spin_lock; *)
(* setLogging allocates and enables under that lock, getLog takes none.    *)
(* A step of the model is what happens between two of those reads or       *)
(* within one such section.                                                *)
(*                                                                         *)
(* The user is one that waits for the signal, gets the log and only then   *)
(* asks for another: getLog leaves the pointer to the freed buffer.  It is *)
(* awake when the signal comes: log_data_point takes tasklist_lock, and    *)
(* wakes a sleeper up, with rq->lock held.                                 *)
(***************************************************************************)
EXTENDS Naturals, Sequences

CONSTANT MaxPoints       \* bound: the most data points a user asks for

ASSUME MaxPointsAssumption == MaxPoints \in Nat

VARIABLES
    pc,                \* where __schedule is with the process
    leader,            \* the local variable: "null", or "set" to the process
    exec_time,         \* "taken" when the process came in, or "old"
    is_budget_set,     \* 1 if the process has a reservation; never changes here
    is_log_enabled,
    buf,               \* what was written to the buffer
    allocated,         \* 1 if the buffer is
    buf_offset, no_data_points,
    task_spin_lock,    \* 1 if setLogging holds it
    SIGUSR1,           \* 1 if the signal is pending
    user,              \* where the user is
    request,           \* the data points the user asks for
    log,               \* what the user copied last
    fault              \* the access that ended all, if any

schedVars == <<pc, leader, exec_time>>
logVars == <<is_log_enabled, buf, allocated, buf_offset, no_data_points, SIGUSR1>>
userVars == <<user, request, log>>
vars == <<pc, leader, exec_time, is_budget_set, is_log_enabled, buf, allocated, buf_offset,
          no_data_points, task_spin_lock, SIGUSR1, user, request, log, fault>>

Entry == {"timestamp", "duration", "garbage"}

\* Every variable has its type; nothing is written behind the end of the buffer.
TypeOK ==
    /\ pc \in {"out", "stamped", "logging_in", "running", "leaving", "logging_out"}
    /\ leader \in {"null", "set"} /\ exec_time \in {"taken", "old"}
    /\ is_budget_set \in {0, 1} /\ is_log_enabled \in {0, 1}
    /\ buf \in Seq(Entry) /\ log \in Seq(Entry)
    /\ allocated \in {0, 1}
    /\ buf_offset \in 0 .. 2 * MaxPoints
    /\ no_data_points \in 0 .. MaxPoints /\ request \in 0 .. MaxPoints
    /\ task_spin_lock \in {0, 1} /\ SIGUSR1 \in {0, 1}
    /\ user \in {"idle", "checked", "setting", "waiting", "signalled", "copied"}
    /\ fault \in {"none", "null_leader", "freed_buffer"}

Init ==
    /\ pc = "out" /\ leader = "null" /\ exec_time = "old"
    /\ is_budget_set \in {0, 1}
    /\ is_log_enabled = 0
    /\ buf = <<>> /\ allocated = 0
    /\ buf_offset = 0 /\ no_data_points = 0
    /\ task_spin_lock = 0 /\ SIGUSR1 = 0
    /\ user = "idle" /\ request = 0 /\ log = <<>>
    /\ fault = "none"

-----------------------------------------------------------------------------
(***************************************************************************)
(* __schedule.                                                             *)
(***************************************************************************)

Full == buf_offset >= 2 * no_data_points

Write(entry) ==
    /\ IF allocated = 1 THEN fault' = fault ELSE fault' = "freed_buffer"
    /\ buf' = Append(buf, entry)
    /\ buf_offset' = buf_offset + 1
    /\ UNCHANGED <<is_log_enabled, SIGUSR1>>

\* Mutant: full when there is one entry more than room.
log_past_end(entry) ==
    /\ IF buf_offset > 2 * no_data_points
       THEN /\ is_log_enabled' = 0 /\ SIGUSR1' = 1
            /\ UNCHANGED <<buf, buf_offset, fault>>
       ELSE Write(entry)
    /\ UNCHANGED <<allocated, no_data_points, task_spin_lock>>

\* Mutant: full when there is room for one entry.
log_early(entry) ==
    /\ IF buf_offset + 1 >= 2 * no_data_points
       THEN /\ is_log_enabled' = 0 /\ SIGUSR1' = 1
            /\ UNCHANGED <<buf, buf_offset, fault>>
       ELSE Write(entry)
    /\ UNCHANGED <<allocated, no_data_points, task_spin_lock>>

\* Mutant: the user is not found and gets no signal.
log_silent(entry) ==
    /\ IF Full
       THEN is_log_enabled' = 0 /\ UNCHANGED <<SIGUSR1, buf, buf_offset, fault>>
       ELSE Write(entry)
    /\ UNCHANGED <<allocated, no_data_points, task_spin_lock>>

\* The entry that finds the buffer full is not written.
log_data_point(entry) ==
    /\ IF Full
       THEN /\ is_log_enabled' = 0 /\ SIGUSR1' = 1
            /\ UNCHANGED <<buf, buf_offset, fault>>
       ELSE Write(entry)
    /\ UNCHANGED <<allocated, no_data_points, task_spin_lock>>

\* exec_time is taken for a process with a reservation or a log.
SwitchIn ==
    /\ pc = "out"
    /\ exec_time' = IF is_budget_set = 1 \/ is_log_enabled = 1 THEN "taken" ELSE "old"
    /\ pc' = "stamped"
    /\ UNCHANGED <<leader, is_budget_set, logVars, task_spin_lock, userVars, fault>>

SwitchInTest ==
    /\ pc = "stamped"
    /\ pc' = IF is_log_enabled = 1 THEN "logging_in" ELSE "running"
    /\ UNCHANGED <<leader, exec_time, is_budget_set, logVars, task_spin_lock, userVars, fault>>

LogTimestamp ==
    /\ pc = "logging_in" /\ task_spin_lock = 0
    /\ log_data_point(IF exec_time = "taken" THEN "timestamp" ELSE "garbage")
    /\ pc' = "running"
    /\ UNCHANGED <<leader, exec_time, is_budget_set, userVars>>

\* Mutant: leader is set for a process with a log only.
SwitchOutLogged ==
    /\ pc = "running"
    /\ leader' = IF is_log_enabled = 1 THEN "set" ELSE "null"
    /\ pc' = "leaving"
    /\ UNCHANGED <<exec_time, is_budget_set, logVars, task_spin_lock, userVars, fault>>

\* leader is set for a process with a reservation or a log.
SwitchOut ==
    /\ pc = "running"
    /\ leader' = IF is_budget_set = 1 \/ is_log_enabled = 1 THEN "set" ELSE "null"
    /\ pc' = "leaving"
    /\ UNCHANGED <<exec_time, is_budget_set, logVars, task_spin_lock, userVars, fault>>

\* A log begins with a timestamp: a duration that comes first is passed over.
SwitchOutTest ==
    /\ pc = "leaving"
    /\ fault' = IF is_log_enabled = 1 /\ leader = "null" THEN "null_leader" ELSE fault
    /\ pc' = IF is_log_enabled = 1 /\ buf_offset # 0 THEN "logging_out" ELSE "out"
    /\ UNCHANGED <<leader, exec_time, is_budget_set, logVars, task_spin_lock, userVars>>

LogDuration ==
    /\ pc = "logging_out" /\ task_spin_lock = 0
    /\ log_data_point(IF exec_time = "taken" THEN "duration" ELSE "garbage")
    /\ pc' = "out"
    /\ UNCHANGED <<leader, exec_time, is_budget_set, userVars>>

Schedule ==
    \/ SwitchIn \/ SwitchInTest \/ LogTimestamp
    \/ SwitchOut \/ SwitchOutTest \/ LogDuration

-----------------------------------------------------------------------------
(***************************************************************************)
(* The user.                                                               *)
(***************************************************************************)

\* A call that finds the log enabled is refused and changes nothing.
SetLoggingCheck(points) ==
    /\ user = "idle" /\ is_log_enabled = 0
    /\ request' = points
    /\ user' = "checked"
    /\ UNCHANGED <<schedVars, is_budget_set, logVars, task_spin_lock, log, fault>>

\* Mutant: a buffer there was is used again.
SetLoggingReuse ==
    /\ user = "checked"
    /\ task_spin_lock' = 1
    /\ buf' = <<>> /\ allocated' = IF no_data_points = 0 THEN 1 ELSE allocated
    /\ is_log_enabled' = 1
    /\ user' = "setting"
    /\ UNCHANGED <<schedVars, is_budget_set, buf_offset, no_data_points, SIGUSR1, request,
                   log, fault>>

\* The flag is set while buf_offset is still that of the last log.
SetLogging ==
    /\ user = "checked"
    /\ task_spin_lock' = 1
    /\ buf' = <<>> /\ allocated' = 1
    /\ is_log_enabled' = 1
    /\ user' = "setting"
    /\ UNCHANGED <<schedVars, is_budget_set, buf_offset, no_data_points, SIGUSR1, request,
                   log, fault>>

SetLoggingEnd ==
    /\ user = "setting"
    /\ buf_offset' = 0 /\ no_data_points' = request
    /\ task_spin_lock' = 0
    /\ user' = "waiting"
    /\ UNCHANGED <<schedVars, is_budget_set, is_log_enabled, buf, allocated, SIGUSR1,
                   request, log, fault>>

\* The user's own handler of the signal.
Signalled ==
    /\ user = "waiting" /\ SIGUSR1 = 1
    /\ SIGUSR1' = 0
    /\ user' = "signalled"
    /\ UNCHANGED <<schedVars, is_budget_set, is_log_enabled, buf, allocated, buf_offset,
                   no_data_points, task_spin_lock, request, log, fault>>

GetLogCopy ==
    /\ user = "signalled"
    /\ log' = SubSeq(buf, 1, buf_offset)
    /\ fault' = IF allocated = 1 THEN fault ELSE "freed_buffer"
    /\ user' = "copied"
    /\ UNCHANGED <<schedVars, is_budget_set, logVars, task_spin_lock, request>>

\* The buffer is freed, too, when nothing could be copied.
GetLogFree ==
    /\ user \in {"signalled", "copied"}
    /\ allocated' = 0
    /\ fault' = IF allocated = 1 THEN fault ELSE "freed_buffer"
    /\ user' = "idle"
    /\ UNCHANGED <<schedVars, is_budget_set, is_log_enabled, buf, buf_offset, no_data_points,
                   task_spin_lock, SIGUSR1, request, log>>

User ==
    \/ \E points \in 0 .. MaxPoints : SetLoggingCheck(points)
    \/ SetLogging \/ SetLoggingEnd \/ Signalled \/ GetLogCopy \/ GetLogFree

-----------------------------------------------------------------------------

\* A fault ends everything.
Next == fault = "none" /\ (Schedule \/ User)

Spec == Init /\ [][Next]_vars

\* The process is switched in and out again and again, and a system call that has
\* begun goes on.
FairSpec ==
    /\ Spec
    /\ WF_vars(fault = "none" /\ Schedule)
    /\ WF_vars(fault = "none" /\ (SetLogging \/ SetLoggingEnd \/ Signalled \/ GetLogCopy
                                    \/ GetLogFree))

-----------------------------------------------------------------------------
(***************************************************************************)
(* Properties.                                                             *)
(***************************************************************************)

\* Whenever the user starts, gets and frees the log, __schedule writes to no freed
\* buffer, none is freed twice and none is read behind its end: the flag is cleared
\* before the signal that leads to getLog.
BufferOutlivesLogging ==
    /\ fault # "freed_buffer"
    /\ buf_offset # 0 => user = "setting" \/ buf_offset = Len(buf)

\* Only a process without a reservation can be caught by setLogging between the two
\* reads of its flag, where __schedule follows a leader that is not set.
OnlyUnreservedFaults == is_budget_set = 1 => fault # "null_leader"

\* A log holds two entries for each data point, by turns, and only its first two can
\* have been taken before exec_time was, in a process without a reservation.
LogSound ==
    user = "copied" =>
        /\ Len(log) = 2 * no_data_points
        /\ \A i \in 2 .. Len(log) : log[i - 1] # log[i] \/ (i = 2 /\ log[i] = "garbage")
        /\ \A i \in DOMAIN log : log[i] = "garbage" => i <= 2 /\ is_budget_set = 0

\* A user that waits for its log gets it.
WaitingIsSignalled == user = "waiting" ~> user = "signalled" \/ fault # "none"
=============================================================================
