----------------------------- MODULE Reminders -----------------------------
(***************************************************************************)
(* services/backgroundScheduler, maintenanceReminderWorker and the part of *)
(* services/notification they use.  A chain of timers runs the job: every  *)
(* cycle reads the configuration, collects the maintenance records that    *)
(* are due page by page, drops the reminders sent in the last 24 hours and *)
(* inserts the others, then arms the next timer.                           *)
(*                                                                         *)
(* Whether reminders are wanted is a setting, kept in the server's memory  *)
(* for 30 seconds; a load of it may be on its way while it is changed.     *)
(* The server may crash and start again: its memory is lost, the rows of   *)
(* the database are not.  Offices are left out: all records are of one,    *)
(* and Users are the recipients of its reminders.                          *)
(***************************************************************************)
EXTENDS Integers, FiniteSets

CONSTANTS Records,      \* bound: maintenance records; their numbers are the
                        \*   order of their _id
          Plans(_),     \* bound: what a record gets due for
          Users,        \* bound: heads, caretakers and org admins to remind
          Requests,     \* bound: other requests that load the setting
          BatchSize,    \* MAINTENANCE_REMINDER_BATCH_SIZE
          MaxFaults     \* bound: crashes and failed calls of the database

ASSUME RemindersConstants ==
    /\ Records \subseteq Nat \ {0} /\ BatchSize \in Nat \ {0} /\ MaxFaults \in Nat
    /\ "NONE" \notin Requests
    /\ \A r \in Records : Plans(r) \subseteq {"MAINTENANCE_DUE", "MAINTENANCE_OVERDUE"}

VARIABLES due,       \* due[r]: "NO", or the reminder record r is due for
          fresh,     \* fresh[i]: the notifications of identity i that are not
                     \*   older than 24 hours
          enabled,   \* the settings in the database: scheduler.enabled
          wants,     \*   and notifications.maintenance_reminders
          at,        \* where the job is; "dead" when nothing will run it again
          armed,     \* its timers that are pending
          cursor,    \* the worker: the last record read,
          found,     \*   the records to remind of
          toSend,    \*   and the notifications to insert
          cache,     \* cachedNotificationSettings: "NONE", or the value kept
          load,      \* load[l]: what load l of the setting has got so far
          inFlight,  \* notificationSettingsInFlight: a load, or "NONE"
          waits,     \* the load the job waits for, or "NONE"
          faults

database == <<due, fresh, enabled, wants>>
job == <<at, armed, cursor, found, toSend, waits>>
settings == <<cache, load, inFlight>>
remvars == <<database, job, settings, faults>>

(* A load belongs to the job or to a request. *)
Loads == Requests \cup {"job"}
Preference == {"WANTED", "UNWANTED"}
Kinds == {"MAINTENANCE_DUE", "MAINTENANCE_OVERDUE"}
Identities == {i \in Users \X Kinds \X Records : i[2] \in Plans(i[3])}
Working == {"collect", "settings", "filter", "insert"}

RemindersInit ==
    /\ due = [r \in Records |-> "NO"]
    /\ fresh = [i \in Identities |-> 0]
    /\ enabled = TRUE /\ wants = "WANTED"
    /\ at = "idle" /\ armed = 1
    /\ cursor = <<0, 0>> /\ found = {} /\ toSend = {} /\ waits = "NONE"
    /\ cache = "NONE" /\ load = [l \in Loads |-> "IDLE"] /\ inFlight = "NONE"
    /\ faults = 0

-----------------------------------------------------------------------------
(* What happens around the job.                                            *)

(* A record is scheduled, rescheduled, completed or removed, or its date   *)
(* comes nearer.                                                           *)
Replan(r, k) ==
    /\ due' = [due EXCEPT ![r] = k]
    /\ UNCHANGED <<fresh, enabled, wants, job, settings, faults>>

(* 24 hours later *)
GrowsOld(i) ==
    /\ fresh[i] > 0 /\ fresh' = [fresh EXCEPT ![i] = 0]
    /\ UNCHANGED <<due, enabled, wants, job, settings, faults>>

(* PUT /settings: the row is saved, then the cache is dropped with the load *)
(* on its way, which nobody stops.                                          *)
SetEnabled(b) ==
    /\ at # "down" /\ enabled' = b
    /\ UNCHANGED <<due, fresh, wants, job, settings, faults>>

(* Saving and dropping the cache are two steps in the code, and one here.  *)
SetWants(p) ==
    /\ at # "down"
    /\ wants' = p /\ cache' = "NONE" /\ inFlight' = "NONE"
    /\ UNCHANGED <<due, fresh, enabled, job, load, faults>>

-----------------------------------------------------------------------------
(* getNotificationSettingsSnapshot                                         *)

Begin(l) == /\ load[l] = "IDLE"
            /\ load' = [load EXCEPT ![l] = "ASKED"] /\ inFlight' = l

(* Some request sends a notification and finds neither.                    *)
OtherSender(l) ==
    /\ at # "down" /\ cache = "NONE" /\ inFlight = "NONE" /\ Begin(l)
    /\ UNCHANGED <<database, job, cache, faults>>

(* The database answers; the answer still has to arrive.                   *)
ReadSettings(l) ==
    /\ load[l] = "ASKED" /\ load' = [load EXCEPT ![l] = wants]
    /\ UNCHANGED <<database, job, cache, inFlight, faults>>

Forget(l) == /\ load' = [load EXCEPT ![l] = "IDLE"]
             /\ inFlight' = IF inFlight = l THEN "NONE" ELSE inFlight

(* Mutant: the kept value is used however old it is. *)
NeverExpires == FALSE /\ UNCHANGED remvars

(* expiresAt has passed.                                                   *)
CacheExpires ==
    /\ cache # "NONE" /\ cache' = "NONE"
    /\ UNCHANGED <<database, job, load, inFlight, faults>>

-----------------------------------------------------------------------------
(* The cycle of the job                                                    *)

Rest == cursor' = <<0, 0>> /\ found' = {} /\ toSend' = {} /\ waits' = "NONE"

(* scheduleNext, and nothing left to do until then                         *)
Rearm == at' = "idle" /\ armed' = armed + 1 /\ Rest

(* The timer fires.                                                        *)
Fire ==
    /\ armed > 0 /\ at = "idle"
    /\ armed' = armed - 1 /\ at' = "config"
    /\ UNCHANGED <<cursor, found, toSend, waits, database, settings, faults>>

(* Mutant: having armed the timer of a disabled job it goes on. *)
ReadConfigGoesOn ==
    /\ at = "config" /\ at' = "collect"
    /\ armed' = IF enabled THEN armed ELSE armed + 1
    /\ UNCHANGED <<cursor, found, toSend, waits, database, settings, faults>>

(* runJobCycle reads the configuration, past its cache.                    *)
ReadConfig ==
    /\ at = "config"
    /\ IF enabled THEN at' = "collect" /\ UNCHANGED <<armed, cursor, found, toSend, waits>>
                  ELSE Rearm
    /\ UNCHANGED <<database, settings, faults>>

(* When it cannot, its callback fails before the next timer is armed.      *)
ConfigFails ==
    /\ at = "config" /\ faults < MaxFaults
    /\ at' = "dead" /\ faults' = faults + 1
    /\ UNCHANGED <<armed, cursor, found, toSend, waits, database, settings>>

(* Overdue records have the earlier dates.                                 *)
Rank(k) == IF k = "MAINTENANCE_OVERDUE" THEN 1 ELSE 2
Place(r) == <<Rank(due[r]), r>>
Before(p, q) == p[1] < q[1] \/ (p[1] = q[1] /\ p[2] < q[2])

(* Mutant: the next page begins after the date of the last record. *)
AfterDate(r) == cursor[1] < Place(r)[1]

(* The filter of the next page: a later date, or the same and a higher _id *)
AfterCursor(r) == Before(cursor, Place(r))

Unread == {r \in Records : due[r] # "NO" /\ AfterCursor(r)}
Page == {r \in Unread :
            Cardinality({q \in Unread : Before(Place(q), Place(r))}) < BatchSize}

(* Bound: every record's item is in an office; the worker skips the others. *)
ReadPage ==
    /\ at = "collect" /\ Page # {}
    /\ found' = found \cup {<<due[r], r>> : r \in Page}
    /\ cursor' \in {Place(r) : r \in Page}
    /\ \A r \in Page : cursor' = Place(r) \/ Before(Place(r), cursor')
    /\ UNCHANGED <<at, armed, toSend, waits, database, settings, faults>>

Collected ==
    /\ at = "collect" /\ Page = {}
    /\ IF found = {} THEN Rearm
       ELSE at' = "settings" /\ cursor' = <<0, 0>> /\ UNCHANGED <<armed, found, toSend, waits>>
    /\ UNCHANGED <<database, settings, faults>>

(* createBulkNotifications goes on when reminders are wanted.              *)
GoOn(p) == IF p = "WANTED"
           THEN /\ at' = "filter" /\ waits' = "NONE"
                /\ UNCHANGED <<armed, cursor, found, toSend>>
           ELSE Rearm

UseCached ==
    /\ at = "settings" /\ waits = "NONE" /\ cache # "NONE" /\ GoOn(cache)
    /\ UNCHANGED <<database, settings, faults>>

JoinLoad ==
    /\ at = "settings" /\ waits = "NONE" /\ cache = "NONE" /\ inFlight # "NONE"
    /\ waits' = inFlight
    /\ UNCHANGED <<at, armed, cursor, found, toSend, database, settings, faults>>

StartLoad ==
    /\ at = "settings" /\ waits = "NONE" /\ cache = "NONE" /\ inFlight = "NONE"
    /\ Begin("job") /\ waits' = "job"
    /\ UNCHANGED <<at, armed, cursor, found, toSend, database, cache, faults>>

(* A load arrives: its value is kept and handed to those who wait for it.  *)
Resolve(l) ==
    /\ load[l] \in Preference
    /\ cache' = load[l] /\ Forget(l)
    /\ IF waits = l THEN GoOn(load[l]) ELSE UNCHANGED job
    /\ UNCHANGED <<database, faults>>

(* Mutant: a failed load does not fail those who wait for it. *)
LoadFailsSilently(l) ==
    /\ load[l] = "ASKED" /\ faults < MaxFaults /\ faults' = faults + 1
    /\ Forget(l)
    /\ UNCHANGED <<job, database, cache>>

(* runJobCycle catches what the worker throws, and arms the timer.         *)
LoadFails(l) ==
    /\ load[l] = "ASKED" /\ faults < MaxFaults /\ faults' = faults + 1
    /\ Forget(l)
    /\ IF waits = l THEN Rearm ELSE UNCHANGED job
    /\ UNCHANGED <<database, cache>>

(* Mutant: every reminder is new. *)
AllNew(sent, i) == TRUE

(* filterDuplicateNotifications                                            *)
IsNew(sent, i) == sent[i] = 0

Filter ==
    /\ at = "filter"
    /\ toSend' = {i \in Identities : <<i[2], i[3]>> \in found /\ IsNew(fresh, i)}
    /\ IF toSend' = {} THEN at' = "idle" /\ armed' = armed + 1 ELSE at' = "insert" /\ UNCHANGED armed
    /\ found' = {}
    /\ UNCHANGED <<cursor, waits, database, settings, faults>>

Inserted(s) == fresh' = [i \in Identities |-> fresh[i] + (IF i \in s THEN 1 ELSE 0)]

Insert ==
    /\ at = "insert" /\ Inserted(toSend) /\ Rearm
    /\ UNCHANGED <<due, enabled, wants, settings, faults>>

(* Mutant: the timer is armed only after a cycle that went well. *)
WorkerFailsUnarmed ==
    /\ at \in Working /\ waits = "NONE" /\ faults < MaxFaults
    /\ faults' = faults + 1 /\ at' = "idle" /\ armed' = armed /\ Rest
    /\ UNCHANGED <<database, settings>>

(* A call fails; an unordered insert may have stored some of the rows.     *)
WorkerFails ==
    /\ at \in Working /\ waits = "NONE" /\ faults < MaxFaults
    /\ faults' = faults + 1 /\ Rearm
    /\ \E s \in SUBSET toSend : Inserted(s)
    /\ UNCHANGED <<due, enabled, wants, settings>>

-----------------------------------------------------------------------------
(* The server's memory is lost; an insert on its way may be done or not.   *)
Crash ==
    /\ at # "down" /\ faults < MaxFaults /\ faults' = faults + 1
    /\ at' = "down" /\ armed' = 0 /\ Rest
    /\ \E s \in SUBSET toSend : Inserted(s)
    /\ cache' = "NONE" /\ load' = [l \in Loads |-> "IDLE"] /\ inFlight' = "NONE"
    /\ UNCHANGED <<due, enabled, wants>>

(* server.ts: startBackgroundScheduler                                     *)
Restart ==
    /\ at = "down" /\ Rearm
    /\ UNCHANGED <<database, settings, faults>>

JobStep ==
    \/ Fire \/ ReadConfig \/ ReadPage \/ Collected \/ UseCached \/ JoinLoad
    \/ StartLoad \/ Filter \/ Insert \/ Restart

LoadStep(l) == ReadSettings(l) \/ Resolve(l)

RemindersNext ==
    \/ JobStep \/ ConfigFails \/ WorkerFails \/ Crash \/ CacheExpires
    \/ \E l \in Requests : OtherSender(l)
    \/ \E l \in Loads : LoadStep(l) \/ LoadFails(l)
    \/ \E r \in Records : \E k \in (Plans(r) \cup {"NO"}) \ {due[r]} : Replan(r, k)
    \/ \E i \in Identities : GrowsOld(i)
    \/ SetEnabled(~enabled)
    \/ \E p \in Preference : SetWants(p)

(* Timers fire, promises settle, what is kept expires and the server is    *)
(* started again.  Nothing is assumed of users, of the clock that makes    *)
(* rows old, or of faults, of which there are only MaxFaults.              *)
RemindersFairness ==
    /\ WF_remvars(JobStep) /\ WF_remvars(CacheExpires)
    /\ \A l \in Loads : WF_remvars(LoadStep(l))

RemindersSpec == RemindersInit /\ [][RemindersNext]_remvars /\ RemindersFairness

-----------------------------------------------------------------------------
(* Every variable holds a value the code can give it, and the job only     *)
(* ever waits for a load that will settle.                                 *)
RemindersTypeOK ==
    /\ due \in [Records -> Kinds \cup {"NO"}]
    /\ fresh \in [Identities -> Nat]
    /\ enabled \in BOOLEAN /\ wants \in Preference
    /\ at \in Working \cup {"idle", "config", "down", "dead"} /\ armed \in Nat
    /\ found \subseteq Kinds \X Records /\ toSend \subseteq Identities
    /\ cache \in Preference \cup {"NONE"}
    /\ load \in [Loads -> Preference \cup {"IDLE", "ASKED"}]
    /\ inFlight \in Loads \cup {"NONE"} /\ waits \in Loads \cup {"NONE"}
    /\ faults \in 0 .. MaxFaults
    /\ waits # "NONE" => at = "settings" /\ load[waits] # "IDLE"

(* However the cycles, their failures and a restart fall, nobody is sent   *)
(* the same reminder of a record twice in 24 hours (dedupeWindowHours: 24): *)
(* filterDuplicateNotifications reads before it inserts, in no transaction. *)
RemindedOnce == \A i \in Identities : fresh[i] <= 1

(* There is one chain: while a timer is pending no cycle is running, and   *)
(* there are never two timers, on whatever path a cycle ends.              *)
OneChain == armed + (IF at \in {"idle", "down", "dead"} THEN 0 ELSE 1) <= 1

(* Pages: no record that stays due is passed over.  Someone to remind of   *)
(* it has been reminded within 24 hours, or will be, unless it is no longer *)
(* due, reminders are switched off, or the configuration could not be read. *)
DueIsReminded ==
    \A i \in Identities :
        (due[i[3]] = i[2]) ~>
            \/ fresh[i] > 0 \/ due[i[3]] # i[2]
            \/ ~enabled \/ wants = "UNWANTED" \/ at = "dead"

(* A job that fails or is disabled runs again: only a configuration that   *)
(* cannot be read ends it until the server is started again.               *)
JobGoesOn == []<>(at = "config") \/ <>[](at = "dead")

(* A load that began before a change and arrives after it leaves the old   *)
(* value in the cache, but not for good.                                   *)
CacheCatchesUp ==
    \A p \in Preference : <>[](wants = p) => <>[](cache \in {p, "NONE"})
=============================================================================
