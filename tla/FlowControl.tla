----------------------------- MODULE FlowControl ----------------------------
(***************************************************************************)
(* The sliding window that limits what a sender writes,                    *)
(* core/connection/manager/softbus_conn_flow_control.c.  A history keeps   *)
(* its age in place of its time stamp, up to the largest window; Age lets  *)
(* a unit of time pass.  Apply is called by the module that extends this   *)
(* one: it either grants an amount or has to sleep and to try again.       *)
(***************************************************************************)
EXTENDS Integers, Sequences, FiniteSetsExt, Functions

CONSTANTS
  Config,                \* the limits that may be configured: [window, quota]
  MAX_WINDOW_IN_MILLIS   \* the longest window, in the model's unit of time

ASSUME ConfigPositive ==
  /\ MAX_WINDOW_IN_MILLIS \in Nat /\ Config # {}
  /\ \A c \in Config : c.window \in 1 .. MAX_WINDOW_IN_MILLIS /\ c.quota \in Nat \ {0}

VARIABLES
  active,     \* active
  limit,      \* windowInMillis, quotaInBytes
  histories,  \* histories, the newest first
  granted     \* ghost: what Apply has granted under this configuration

flow == <<active, limit, histories, granted>>

\* appliedTotal, the walk over the histories: what those in the window amount to
Applied(s, window) ==
  LET total[i \in 0 .. Len(s)] ==
        IF i = 0 THEN 0
        ELSE total[i - 1] + (IF s[i].age < window THEN s[i].amount ELSE 0)
  IN  total[Len(s)]

\* the histories that the walk keeps
Within(s, window) ==
  LET kept[i \in 0 .. Len(s)] ==
        IF i = 0 THEN <<>>
        ELSE IF s[i].age < window THEN Append(kept[i - 1], s[i]) ELSE kept[i - 1]
  IN  kept[Len(s)]

Older(s) ==
  [i \in DOMAIN s |->
    [s[i] EXCEPT !.age = IF @ < MAX_WINDOW_IN_MILLIS THEN @ + 1 ELSE @]]

\* ConnSlideWindowControllerConstructor
FlowInit ==
  /\ active = FALSE
  /\ limit = CHOOSE c \in Config : TRUE
  /\ histories = <<>>
  /\ granted = <<>>

\* the histories that Apply keeps
Unexpired == Within(histories, limit.window)

\* Apply finds the quota used up
MustSleep == active /\ limit.quota <= Applied(histories, limit.window)

\* Mutant: the sleep ends one unit too early.
SleepTimeShort == limit.window - 1 - Unexpired[Len(Unexpired)].age
\* the rest of the window of the oldest history
SleepTime == limit.window - Unexpired[Len(Unexpired)].age

\* Mutant: what is left of the quota is not looked at.
GrantAll(expect) == expect
\* what Apply grants
Grant(expect) ==
  LET remain == limit.quota - Applied(histories, limit.window)
  IN  IF active /\ remain <= expect THEN remain ELSE expect

\* Apply grants. Left out: when no memory is left for the history, Apply grants
\* all that is asked for, beyond the quota (softbus_conn_flow_control.c:65-68).
ApplyGrants(expect) ==
  LET history == [age |-> 0, amount |-> Grant(expect)] IN
  /\ ~MustSleep
  /\ histories' = IF active THEN <<history>> \o Unexpired ELSE histories
  /\ granted' = IF active THEN <<history>> \o Within(granted, limit.window) ELSE granted
  /\ UNCHANGED <<active, limit>>

\* Apply forgets what has expired and goes to sleep
ApplySleeps ==
  /\ MustSleep
  /\ histories' = Unexpired
  /\ UNCHANGED <<active, limit, granted>>

\* ChangeConfiguration, from Enable with a limit or from Disable
ChangeConfiguration(on, c) ==
  /\ active' = on
  /\ limit' = c   \* of no consequence unless on
  /\ histories' = <<>>
  /\ granted' = <<>>

Age ==
  /\ histories' = Older(histories)
  /\ granted' = Within(Older(granted), limit.window)
  /\ UNCHANGED <<active, limit>>

\* Under a configuration, no window of its length sees more than its quota.
QuotaKept == active => Applied(granted, limit.window) <= limit.quota
=============================================================================
