-------------------------- MODULE Reminders_proofs --------------------------
(***************************************************************************)
(* Proofs about the reminders, for any records, recipients, requests and   *)
(* page size, and for any number of crashes and failed calls.              *)
(***************************************************************************)
EXTENDS Reminders, TLAPS

-----------------------------------------------------------------------------
(* The inductive invariant: its parts beside the type invariant.           *)

(* Who joins the load in flight joins one that is not over. *)
InFlightRuns == inFlight # "NONE" => load[inFlight] # "IDLE"

(* OneChain says nothing of a server that is down or of a chain that is    *)
(* dead: no timer is pending then, so that a restart makes the only one.   *)
OneTimer == armed <= 1 /\ (at # "idle" => armed = 0)

(* From the lookup until the insert nobody else inserts what is to be sent. *)
OnlyNewToSend == \A i \in toSend : at = "insert" /\ fresh[i] = 0

RemindersInv == /\ RemindersTypeOK /\ InFlightRuns
                /\ OneTimer /\ OnlyNewToSend /\ RemindedOnce

-----------------------------------------------------------------------------
(* Inserting notifications that are new leaves none there twice. *)
LEMMA InsertedOnce ==
    ASSUME RemindersInv, NEW s \in SUBSET toSend, Inserted(s)
    PROVE  fresh' \in [Identities -> Nat] /\ RemindedOnce'
<1>1. fresh \in [Identities -> Nat] /\ s \subseteq Identities
  BY DEF RemindersInv, RemindersTypeOK
<1>2. \A i \in Identities : fresh'[i] = IF i \in s THEN 1 ELSE fresh[i]
  BY <1>1 DEF Inserted, RemindersInv, OnlyNewToSend
<1>3. fresh' \in [Identities -> Nat]
  BY <1>1 DEF Inserted
<1> QED
  BY <1>2, <1>3 DEF RemindedOnce, RemindersInv

(* What every way to end a cycle leaves behind. *)
LEMMA RearmEndsCycle ==
    ASSUME RemindersInv, at # "idle", Rearm
    PROVE  /\ at' = "idle" /\ armed' = 1 /\ armed' \in Nat /\ OneTimer'
           /\ found' = {} /\ toSend' = {} /\ waits' = "NONE"
  BY DEF Rearm, Rest, RemindersInv, OneTimer

LEMMA InitHolds == RemindersInit => RemindersInv
<1> SUFFICES ASSUME RemindersInit PROVE RemindersInv
  OBVIOUS
<1>1. RemindersTypeOK
  BY RemindersConstants
     DEF RemindersInit, RemindersTypeOK, Preference, Kinds, Working, Loads
<1> QED
  BY <1>1 DEF RemindersInit, RemindersInv, InFlightRuns, OneTimer, OnlyNewToSend, RemindedOnce

(* The steps outside the job. *)
LEMMA OutsidePreserves ==
    ASSUME RemindersInv,
           \/ CacheExpires
           \/ \E l \in Requests : OtherSender(l)
           \/ \E l \in Loads : ReadSettings(l)
           \/ \E r \in Records : \E k \in (Plans(r) \cup {"NO"}) \ {due[r]} : Replan(r, k)
           \/ \E i \in Identities : GrowsOld(i)
           \/ SetEnabled(~enabled)
           \/ \E p \in Preference : SetWants(p)
    PROVE  RemindersInv'
<1> USE DEF RemindersInv, RemindersTypeOK, job, settings, database
<1>1. CASE CacheExpires
  BY <1>1 DEF CacheExpires, InFlightRuns, OneTimer, OnlyNewToSend, RemindedOnce
<1>2. ASSUME NEW l \in Requests, OtherSender(l)
      PROVE  RemindersInv'
  BY <1>2, RemindersConstants
     DEF OtherSender, Begin, Loads, InFlightRuns, OneTimer, OnlyNewToSend, RemindedOnce
<1>3. ASSUME NEW l \in Loads, ReadSettings(l)
      PROVE  RemindersInv'
  BY <1>3 DEF ReadSettings, Preference, InFlightRuns, OneTimer, OnlyNewToSend, RemindedOnce
<1>4. ASSUME NEW r \in Records, NEW k \in (Plans(r) \cup {"NO"}) \ {due[r]}, Replan(r, k)
      PROVE  RemindersInv'
  <2>1. k \in Kinds \cup {"NO"}
    BY RemindersConstants DEF Kinds
  <2>2. due' \in [Records -> Kinds \cup {"NO"}]
    BY <1>4, <2>1 DEF Replan
  <2> QED
    BY <1>4, <2>2 DEF Replan, InFlightRuns, OneTimer, OnlyNewToSend, RemindedOnce
<1>5. ASSUME NEW i \in Identities, GrowsOld(i)
      PROVE  RemindersInv'
  BY <1>5 DEF GrowsOld, InFlightRuns, OneTimer, OnlyNewToSend, RemindedOnce
<1>6. CASE SetEnabled(~enabled)
  BY <1>6 DEF SetEnabled, InFlightRuns, OneTimer, OnlyNewToSend, RemindedOnce
<1>7. ASSUME NEW p \in Preference, SetWants(p)
      PROVE  RemindersInv'
  BY <1>7 DEF SetWants, InFlightRuns, OneTimer, OnlyNewToSend, RemindedOnce
<1> QED
  BY <1>1, <1>2, <1>3, <1>4, <1>5, <1>6, <1>7

(* The steps of a cycle up to the lookup, and its failures. *)
LEMMA CyclePreserves ==
    ASSUME RemindersInv,
           \/ Fire \/ ReadConfig \/ ConfigFails \/ ReadPage \/ Collected
           \/ Filter \/ Insert \/ WorkerFails \/ Crash \/ Restart
    PROVE  RemindersInv'
<1> USE DEF RemindersInv, RemindersTypeOK, settings, database
<1>1. CASE Fire
  BY <1>1 DEF Fire, InFlightRuns, OneTimer, OnlyNewToSend, RemindedOnce
<1>2. CASE ReadConfig
  <2>1. CASE enabled
    BY <1>2, <2>1 DEF ReadConfig, Working, InFlightRuns, OneTimer, OnlyNewToSend, RemindedOnce
  <2>2. CASE ~enabled
    <3>1. Rearm /\ at = "config"
      BY <1>2, <2>2 DEF ReadConfig
    <3> QED
      BY <1>2, <3>1, RearmEndsCycle DEF ReadConfig, InFlightRuns, OnlyNewToSend, RemindedOnce
  <2> QED
    BY <2>1, <2>2
<1>3. CASE ConfigFails
  BY <1>3, RemindersConstants
     DEF ConfigFails, InFlightRuns, OneTimer, OnlyNewToSend, RemindedOnce
<1>4. CASE ReadPage
  <2>1. {<<due[r], r>> : r \in Page} \subseteq Kinds \X Records
    <3>1. \A r \in Page : r \in Records /\ due[r] # "NO"
      BY DEF Page, Unread
    <3> QED
      BY <3>1
  <2> QED
    BY <1>4, <2>1 DEF ReadPage, InFlightRuns, OneTimer, OnlyNewToSend, RemindedOnce
<1>5. CASE Collected
  <2>1. CASE found = {}
    <3>1. Rearm /\ at = "collect"
      BY <1>5, <2>1 DEF Collected
    <3> QED
      BY <1>5, <3>1, RearmEndsCycle DEF Collected, InFlightRuns, OnlyNewToSend, RemindedOnce
  <2>2. CASE found # {}
    BY <1>5, <2>2 DEF Collected, Working, InFlightRuns, OneTimer, OnlyNewToSend, RemindedOnce
  <2> QED
    BY <2>1, <2>2
<1>6. CASE Filter
  <2>1. toSend' \subseteq Identities /\ \A i \in toSend' : fresh[i] = 0
    BY <1>6 DEF Filter, IsNew
  <2>2. waits = "NONE" /\ armed = 0
    BY <1>6 DEF Filter, OneTimer
  <2>3. CASE toSend' = {}
    <3>1. at' = "idle" /\ armed' = 1
      BY <1>6, <2>2, <2>3 DEF Filter
    <3> QED
      BY <1>6, <2>2, <2>3, <3>1 DEF Filter, InFlightRuns, OneTimer, OnlyNewToSend, RemindedOnce
  <2>4. CASE toSend' # {}
    <3>1. at' = "insert" /\ armed' = armed
      BY <1>6, <2>4 DEF Filter
    <3> QED
      BY <1>6, <2>1, <2>2, <3>1
         DEF Filter, Working, InFlightRuns, OneTimer, OnlyNewToSend, RemindedOnce
  <2> QED
    BY <2>3, <2>4
<1>7. CASE Insert
  <2>1. fresh' \in [Identities -> Nat] /\ RemindedOnce'
    BY <1>7, InsertedOnce DEF Insert
  <2>2. Rearm /\ at = "insert"
    BY <1>7 DEF Insert
  <2> QED
    BY <1>7, <2>1, <2>2, RearmEndsCycle DEF Insert, InFlightRuns, OnlyNewToSend
<1>8. CASE WorkerFails
  <2>1. fresh' \in [Identities -> Nat] /\ RemindedOnce'
    BY <1>8, InsertedOnce DEF WorkerFails
  <2>2. Rearm /\ at \in Working /\ at # "idle"
    BY <1>8 DEF WorkerFails, Working
  <2>3. faults' \in 0 .. MaxFaults
    BY <1>8, RemindersConstants DEF WorkerFails
  <2> QED
    BY <1>8, <2>1, <2>2, <2>3, RearmEndsCycle DEF WorkerFails, InFlightRuns, OnlyNewToSend
<1>9. CASE Crash
  <2>1. fresh' \in [Identities -> Nat] /\ RemindedOnce'
    BY <1>9, InsertedOnce DEF Crash
  <2>2. faults' \in 0 .. MaxFaults
    BY <1>9, RemindersConstants DEF Crash
  <2> QED
    BY <1>9, <2>1, <2>2 DEF Crash, Rest, InFlightRuns, OneTimer, OnlyNewToSend
<1>10. CASE Restart
  <2>1. Rearm /\ at = "down"
    BY <1>10 DEF Restart
  <2> QED
    BY <1>10, <2>1, RearmEndsCycle DEF Restart, InFlightRuns, OnlyNewToSend, RemindedOnce
<1> QED
  BY <1>1, <1>2, <1>3, <1>4, <1>5, <1>6, <1>7, <1>8, <1>9, <1>10

(* The job that waits for the setting, and goes on with what it gets. *)
LEMMA GoOnPreserves ==
    ASSUME RemindersInv, at = "settings", NEW p \in Preference, GoOn(p)
    PROVE  /\ at' \in Working \cup {"idle"} /\ armed' \in Nat /\ OneTimer'
           /\ found' \subseteq Kinds \X Records /\ toSend' = {} /\ waits' = "NONE"
<1> USE DEF RemindersInv, RemindersTypeOK
<1>1. toSend = {}
  BY DEF OnlyNewToSend
<1>2. CASE p = "WANTED"
  BY <1>1, <1>2 DEF GoOn, Working, OneTimer
<1>3. CASE p # "WANTED"
  <2>1. Rearm
    BY <1>3 DEF GoOn
  <2> QED
    BY <2>1, RearmEndsCycle
<1> QED
  BY <1>2, <1>3

LEMMA SettingsPreserve ==
    ASSUME RemindersInv,
           \/ UseCached \/ JoinLoad \/ StartLoad
           \/ \E l \in Loads : Resolve(l) \/ LoadFails(l)
    PROVE  RemindersInv'
<1> USE DEF RemindersInv, RemindersTypeOK, settings, database
<1>1. CASE UseCached
  <2>1. at = "settings" /\ cache \in Preference /\ GoOn(cache)
    BY <1>1 DEF UseCached
  <2> QED
    BY <1>1, <2>1, GoOnPreserves DEF UseCached, InFlightRuns, OnlyNewToSend, RemindedOnce
<1>2. CASE JoinLoad
  BY <1>2 DEF JoinLoad, InFlightRuns, OneTimer, OnlyNewToSend, RemindedOnce
<1>3. CASE StartLoad
  BY <1>3 DEF StartLoad, Begin, Loads, InFlightRuns, OneTimer, OnlyNewToSend, RemindedOnce
<1>4. ASSUME NEW l \in Loads, Resolve(l)
      PROVE  RemindersInv'
  <2>1. /\ cache' \in Preference /\ load' \in [Loads -> Preference \cup {"IDLE", "ASKED"}]
        /\ inFlight' \in Loads \cup {"NONE"} /\ InFlightRuns'
    BY <1>4 DEF Resolve, Forget, InFlightRuns
  <2>2. CASE waits = l
    <3>1. l # "NONE"
      BY RemindersConstants DEF Loads
    <3>2. at = "settings" /\ load[l] \in Preference /\ GoOn(load[l])
      BY <1>4, <2>2, <3>1 DEF Resolve
    <3> QED
      BY <1>4, <2>1, <3>2, GoOnPreserves DEF Resolve, OnlyNewToSend, RemindedOnce
  <2>3. CASE waits # l
    <3>1. UNCHANGED job /\ (waits # "NONE" => load'[waits] # "IDLE")
      BY <1>4, <2>3 DEF Resolve, Forget
    <3> QED
      BY <1>4, <2>1, <3>1 DEF Resolve, job, OneTimer, OnlyNewToSend, RemindedOnce
  <2> QED
    BY <2>2, <2>3
<1>5. ASSUME NEW l \in Loads, LoadFails(l)
      PROVE  RemindersInv'
  <2>1. /\ load' \in [Loads -> Preference \cup {"IDLE", "ASKED"}]
        /\ inFlight' \in Loads \cup {"NONE"} /\ InFlightRuns'
        /\ faults' \in 0 .. MaxFaults
    BY <1>5, RemindersConstants DEF LoadFails, Forget, InFlightRuns
  <2>2. CASE waits = l
    <3>1. l # "NONE"
      BY RemindersConstants DEF Loads
    <3>2. at = "settings" /\ Rearm
      BY <1>5, <2>2, <3>1 DEF LoadFails
    <3> QED
      BY <1>5, <2>1, <3>2, RearmEndsCycle DEF LoadFails, OnlyNewToSend, RemindedOnce
  <2>3. CASE waits # l
    <3>1. UNCHANGED job /\ (waits # "NONE" => load'[waits] # "IDLE")
      BY <1>5, <2>3 DEF LoadFails, Forget
    <3> QED
      BY <1>5, <2>1, <3>1 DEF LoadFails, job, OneTimer, OnlyNewToSend, RemindedOnce
  <2> QED
    BY <2>2, <2>3
<1> QED
  BY <1>1, <1>2, <1>3, <1>4, <1>5

LEMMA StutterPreserves == RemindersInv /\ UNCHANGED remvars => RemindersInv'
  BY DEF remvars, job, settings, database, RemindersInv, RemindersTypeOK, InFlightRuns,
         OneTimer, OnlyNewToSend, RemindedOnce

(* The inductive invariant of the reminders. *)
THEOREM RemindersInvariant == RemindersSpec => []RemindersInv
<1>1. RemindersInv /\ [RemindersNext]_remvars => RemindersInv'
  BY OutsidePreserves, CyclePreserves, SettingsPreserve, StutterPreserves
     DEF RemindersNext, JobStep, LoadStep
<1> QED
  BY InitHolds, <1>1, PTL DEF RemindersSpec

(* However a cycle, a load of the setting or a restart falls, each variable *)
(* has its type and the job waits only for a load that will settle.        *)
THEOREM RemindersTypesHold == RemindersSpec => []RemindersTypeOK
<1>1. RemindersInv => RemindersTypeOK
  BY DEF RemindersInv
<1> QED
  BY <1>1, RemindersInvariant, PTL

(* Nobody is reminded of the same thing twice within the dedupe window:     *)
(* filterDuplicateNotifications and the insert are one chain's own steps.   *)
THEOREM RemindedAtMostOnce == RemindersSpec => []RemindedOnce
<1>1. RemindersInv => RemindedOnce
  BY DEF RemindersInv
<1> QED
  BY <1>1, RemindersInvariant, PTL

(* runJobCycle and scheduleNext never make a second timer or a second      *)
(* cycle, on whatever path a cycle ends.                                   *)
THEOREM OneChainOnly == RemindersSpec => []OneChain
<1>1. RemindersInv => OneChain
  BY DEF RemindersInv, RemindersTypeOK, OneTimer, OneChain
<1> QED
  BY <1>1, RemindersInvariant, PTL
=============================================================================
