------------------------- MODULE RuntimeManagerProofs -------------------------
(***************************************************************************)
(* Proofs about RuntimeManager: what the registry hands out and where an   *)
(* answer goes, for any number of keys, goroutines, workers and requests.  *)
(***************************************************************************)
EXTENDS RuntimeManager, TLAPS

\* A worker that was never started is nobody's.
FreshIsNobodys ==
  \A w \in Workers : launch[w] = "none" =>
    /\ proc[w] = "none"
    /\ \A k \in Keys : entries[k] # w
    /\ \A c \in Callers : caller[c].worker # w /\ w \notin caller[c].victims

\* Between its start and its registration a worker belongs to the goroutine that
\* started it, and to no other: nobody can stop it or call it.
StarterOwns ==
  \A c \in Callers : caller[c].at \in {"spawned", "ready"} =>
    LET w == caller[c].worker IN
    /\ w # None
    /\ caller[c].at = "ready" => lease[w] = "held" /\ launch[w] = "ready"
    /\ launch[w] # "none" /\ proc[w] # "killed"
    /\ \A k \in Keys : entries[k] # w
    /\ \A d \in Callers : w \notin caller[d].victims
    /\ \A d \in Callers : d # c => caller[d].worker # w

\* A worker is registered for one key.
OneKeyPerWorker ==
  \A k, l \in Keys : k # l /\ entries[k] # None => entries[k] # entries[l]

\* A registered worker has its lease and its launch, and no stop is after it.
RegisteredIsWhole ==
  \A k \in Keys : entries[k] # None =>
    /\ lease[entries[k]] = "held" /\ launch[entries[k]] = "ready"
    /\ proc[entries[k]] # "killed"
    /\ \A c \in Callers : entries[k] \notin caller[c].victims

\* No two stops are after the same worker.
VictimsApart ==
  \A c, d \in Callers : c # d => caller[c].victims \cap caller[d].victims = {}

RegistryInv ==
  /\ FreshIsNobodys
  /\ StarterOwns
  /\ OneKeyPerWorker
  /\ RegisteredIsWhole
  /\ VictimsApart

\* A call is one of its worker's requests, and nothing was asked before the write.
CallIsRequest ==
  \A c \in Callers : caller[c].at \in InCall \cup {"late"} =>
    /\ caller[c].worker # None
    /\ caller[c].id \in DOMAIN calls[caller[c].worker]
    /\ caller[c].at \in {"called", "writing"} => Call(c).wire = "unsent"

\* The answer of a request is the runtime's.
AnswerWasGiven ==
  \A w \in Workers : \A i \in DOMAIN calls[w] :
    calls[w][i].chan = "answer" => calls[w][i].wire = "answered"

CallInv ==
  /\ CallIsRequest
  /\ AnswerWasGiven
  /\ AnswersOwnCall
  /\ NoCallIsStranded

ManagerInv == RuntimeTypeOK /\ RegistryInv /\ CallInv

-----------------------------------------------------------------------------
Whys == {"probe", "reprobe", "call", "stop"}

\* Setting one field of a goroutine's state keeps it one, and the rest of it.
Sets(f, g, c, field) ==
  /\ g \in [Callers -> CallerState]
  /\ \A d \in Callers \ {c} : g[d] = f[d]
  /\ field # "at" => g[c].at = f[c].at
  /\ field # "why" => g[c].why = f[c].why
  /\ field # "key" => g[c].key = f[c].key
  /\ field # "worker" => g[c].worker = f[c].worker
  /\ field # "id" => g[c].id = f[c].id
  /\ field # "victims" => g[c].victims = f[c].victims

\* The step it is at.
LEMMA SetAt ==
  ASSUME NEW f \in [Callers -> CallerState], NEW c \in Callers, NEW x \in Steps
  PROVE  LET g == [f EXCEPT ![c].at = x] IN Sets(f, g, c, "at") /\ g[c].at = x
BY DEF Sets, CallerState, Whys

\* Why it calls or stops.
LEMMA SetWhy ==
  ASSUME NEW f \in [Callers -> CallerState], NEW c \in Callers, NEW x \in Whys
  PROVE  LET g == [f EXCEPT ![c].why = x] IN Sets(f, g, c, "why") /\ g[c].why = x
BY DEF Sets, CallerState, Whys

\* The key it works on.
LEMMA SetKey ==
  ASSUME NEW f \in [Callers -> CallerState], NEW c \in Callers, NEW x \in Keys
  PROVE  LET g == [f EXCEPT ![c].key = x] IN Sets(f, g, c, "key") /\ g[c].key = x
BY DEF Sets, CallerState, Whys

\* Its worker, or none.
LEMMA SetWorker ==
  ASSUME NEW f \in [Callers -> CallerState], NEW c \in Callers, NEW x \in Workers \cup {None}
  PROVE  LET g == [f EXCEPT ![c].worker = x] IN Sets(f, g, c, "worker") /\ g[c].worker = x
BY DEF Sets, CallerState, Whys

\* The id of its request.
LEMMA SetId ==
  ASSUME NEW f \in [Callers -> CallerState], NEW c \in Callers, NEW x \in Nat
  PROVE  LET g == [f EXCEPT ![c].id = x] IN Sets(f, g, c, "id") /\ g[c].id = x
BY DEF Sets, CallerState, Whys

\* The workers it is about to kill.
LEMMA SetVictims ==
  ASSUME NEW f \in [Callers -> CallerState], NEW c \in Callers, NEW x \in SUBSET Workers
  PROVE  LET g == [f EXCEPT ![c].victims = x] IN Sets(f, g, c, "victims") /\ g[c].victims = x
BY DEF Sets, CallerState, Whys

\* The fields of a goroutine's state.
LEMMA CallerTyped ==
  ASSUME RuntimeTypeOK, NEW c \in Callers
  PROVE  /\ caller[c].at \in Steps /\ caller[c].why \in Whys /\ caller[c].key \in Keys
         /\ caller[c].worker \in Workers \cup {None} /\ caller[c].id \in Nat
         /\ caller[c].victims \in SUBSET Workers
BY DEF RuntimeTypeOK, CallerState, Whys

\* A step moves goroutine c, and no other, to this state.
Moves(c, at, worker, id, victims) ==
  /\ caller' \in [Callers -> CallerState]
  /\ \A d \in Callers \ {c} : caller'[d] = caller[d]
  /\ caller'[c].at = at /\ caller'[c].worker = worker
  /\ caller'[c].id = id /\ caller'[c].victims = victims

(***************************************************************************)
(* How each step moves the goroutine that takes it.                        *)
(***************************************************************************)
LEMMA GotoMoves ==
  ASSUME RuntimeTypeOK, NEW c \in Callers, NEW at \in Steps, Goto(c, at)
  PROVE  Moves(c, at, caller[c].worker, caller[c].id, caller[c].victims)
<1> DEFINE g == [caller EXCEPT ![c].at = at]
<1>1. caller' = g /\ caller \in [Callers -> CallerState]
  BY DEF Goto, RuntimeTypeOK
<1>2. Sets(caller, g, c, "at") /\ g[c].at = at
  BY <1>1, SetAt
<1> QED  BY <1>1, <1>2 DEF Sets, Moves

\* The start of an operation.
LEMMA BeginMoves ==
  ASSUME RuntimeTypeOK, NEW c \in Callers, NEW k \in Keys, NEW at \in Steps,
         NEW why \in Whys, Begin(c, k, at, why)
  PROVE  /\ caller[c].at = "idle"
         /\ Moves(c, at, caller[c].worker, caller[c].id, caller[c].victims)
<1> DEFINE g1 == [caller EXCEPT ![c].at = at]
           g2 == [g1 EXCEPT ![c].why = why]
           g3 == [g2 EXCEPT ![c].key = k]
<1>1. caller' = g3 /\ caller \in [Callers -> CallerState]
  BY DEF Begin, RuntimeTypeOK
<1>2. Sets(caller, g1, c, "at") /\ g1[c].at = at
  BY <1>1, SetAt
<1> HIDE DEF g1
<1>3. Sets(g1, g2, c, "why")
  BY <1>2, SetWhy DEF Sets
<1> HIDE DEF g2
<1>4. Sets(g2, g3, c, "key")
  BY <1>3, SetKey DEF Sets
<1> QED  BY <1>1, <1>2, <1>3, <1>4 DEF Sets, Begin, Moves

\* Its end.
LEMMA ReturnMoves ==
  ASSUME RuntimeTypeOK, NEW c \in Callers, Return(c)
  PROVE  Moves(c, "idle", None, 0, caller[c].victims)
<1> DEFINE g1 == [caller EXCEPT ![c].at = "idle"]
           g2 == [g1 EXCEPT ![c].why = "stop"]
           g3 == [g2 EXCEPT ![c].worker = None]
           g4 == [g3 EXCEPT ![c].id = 0]
<1>1. caller' = g4 /\ caller \in [Callers -> CallerState]
  BY DEF Return, RuntimeTypeOK
<1>2. Sets(caller, g1, c, "at") /\ g1[c].at = "idle"
  <2>1. "idle" \in Steps
    BY DEF Steps
  <2> QED  BY <1>1, <2>1, SetAt
<1> HIDE DEF g1
<1>3. Sets(g1, g2, c, "why")
  <2>1. "stop" \in Whys
    BY DEF Whys
  <2> QED  BY <1>2, <2>1, SetWhy DEF Sets
<1> HIDE DEF g2
<1>4. Sets(g2, g3, c, "worker") /\ g3[c].worker = None
  BY <1>3, SetWorker DEF Sets
<1> HIDE DEF g3
<1>5. Sets(g3, g4, c, "id") /\ g4[c].id = 0
  BY <1>4, SetId DEF Sets
<1> QED  BY <1>1, <1>2, <1>3, <1>4, <1>5 DEF Sets, Moves

\* The start of a worker.
LEMMA TakesWorker ==
  ASSUME RuntimeTypeOK, NEW c \in Callers, NEW w \in Workers, NEW at \in Steps,
         caller' = [caller EXCEPT ![c].at = at, ![c].worker = w]
  PROVE  Moves(c, at, w, caller[c].id, caller[c].victims)
<1> DEFINE g1 == [caller EXCEPT ![c].at = at]
           g2 == [g1 EXCEPT ![c].worker = w]
<1>1. caller' = g2 /\ caller \in [Callers -> CallerState]
  BY DEF RuntimeTypeOK
<1>2. Sets(caller, g1, c, "at") /\ g1[c].at = at
  BY <1>1, SetAt
<1> HIDE DEF g1
<1>3. Sets(g1, g2, c, "worker") /\ g2[c].worker = w
  BY <1>2, SetWorker DEF Sets
<1> QED  BY <1>1, <1>2, <1>3 DEF Sets, Moves

\* The start of a call.
LEMMA TakesCall ==
  ASSUME RuntimeTypeOK, NEW c \in Callers, NEW w \in Workers, NEW at \in Steps, NEW n \in Nat,
         caller' = [caller EXCEPT ![c].at = at, ![c].worker = w, ![c].id = n]
  PROVE  Moves(c, at, w, n, caller[c].victims)
<1> DEFINE g1 == [caller EXCEPT ![c].at = at]
           g2 == [g1 EXCEPT ![c].worker = w]
           g3 == [g2 EXCEPT ![c].id = n]
<1>1. caller' = g3 /\ caller \in [Callers -> CallerState]
  BY DEF RuntimeTypeOK
<1>2. Sets(caller, g1, c, "at") /\ g1[c].at = at
  BY <1>1, SetAt
<1> HIDE DEF g1
<1>3. Sets(g1, g2, c, "worker") /\ g2[c].worker = w
  BY <1>2, SetWorker DEF Sets
<1> HIDE DEF g2
<1>4. Sets(g2, g3, c, "id") /\ g3[c].id = n
  BY <1>3, SetId DEF Sets
<1> QED  BY <1>1, <1>2, <1>3, <1>4 DEF Sets, Moves

\* What a stop goes on to is a step, and no start or call.
LEMMA AfterStopIs ==
  ASSUME NEW c
  PROVE  AfterStop(c) \in {"running", "missed", "idle"}
BY DEF AfterStop

\* Why it goes on is a reason.
LEMMA WhyTyped ==
  ASSUME NEW why \in Whys, NEW next
  PROVE  WhyNext(why, next) \in Whys
BY DEF WhyNext, Whys

\* The state of a goroutine after a step of a stop.
LEMMA StopMoves ==
  ASSUME RuntimeTypeOK, NEW c \in Callers, NEW ks \in SUBSET Keys, StopKeys(c, ks)
  PROVE  \E next \in {"running", "missed", "idle", "removed"} :
           Moves(c, next, None, 0, {entries[k] : k \in ks} \ {None})
<1> DEFINE found == {entries[k] : k \in ks} \ {None}
           next == IF found = {} THEN AfterStop(c) ELSE "removed"
           g1 == [caller EXCEPT ![c].at = next]
           why == WhyNext(caller[c].why, next)
           g2 == [g1 EXCEPT ![c].why = why]
           g3 == [g2 EXCEPT ![c].worker = None]
           g4 == [g3 EXCEPT ![c].id = 0]
           g5 == [g4 EXCEPT ![c].victims = found]
<1>1. caller' = g5 /\ caller \in [Callers -> CallerState]
  <2>1. caller' = g5
    BY DEF StopKeys
  <2>2. caller \in [Callers -> CallerState]
    BY DEF RuntimeTypeOK
  <2> QED  BY <2>1, <2>2
<1>2. found \in SUBSET Workers
  BY DEF RuntimeTypeOK
<1>3. next \in {"running", "missed", "idle", "removed"} /\ next \in Steps
  BY AfterStopIs DEF Steps
<1> HIDE DEF found, next
<1>4. Sets(caller, g1, c, "at") /\ g1[c].at = next
  BY <1>1, <1>3, SetAt
<1> HIDE DEF g1
<1>5. why \in Whys
  <2>1. caller[c].why \in Whys
    BY <1>1 DEF CallerState, Whys
  <2> QED  BY <2>1, WhyTyped
<1> HIDE DEF why
<1>6. Sets(g1, g2, c, "why")
  BY <1>4, <1>5, SetWhy DEF Sets
<1> HIDE DEF g2
<1>7. Sets(g2, g3, c, "worker") /\ g3[c].worker = None
  BY <1>6, SetWorker DEF Sets
<1> HIDE DEF g3
<1>8. Sets(g3, g4, c, "id") /\ g4[c].id = 0
  BY <1>7, SetId DEF Sets
<1> HIDE DEF g4
<1>9. Sets(g4, g5, c, "victims") /\ g5[c].victims = found
  BY <1>2, <1>8, SetVictims DEF Sets
<1>10. Moves(c, next, None, 0, found)
  BY <1>1, <1>4, <1>6, <1>7, <1>8, <1>9 DEF Sets, Moves
<1> QED  BY <1>3, <1>10 DEF found

\* A worker killed, the goroutine goes on or is done.
LEMMA KillMoves ==
  ASSUME RuntimeTypeOK, NEW c \in Callers, NEW w \in Workers, NEW next \in Steps,
         caller' = [caller EXCEPT ![c].at = next, ![c].victims = caller[c].victims \ {w},
                                  ![c].why = WhyNext(@, next)]
  PROVE  Moves(c, next, caller[c].worker, caller[c].id, caller[c].victims \ {w})
<1> DEFINE rest == caller[c].victims \ {w}
           g1 == [caller EXCEPT ![c].at = next]
           g2 == [g1 EXCEPT ![c].victims = rest]
           why == WhyNext(caller[c].why, next)
           g3 == [g2 EXCEPT ![c].why = why]
<1>1. caller' = g3 /\ caller \in [Callers -> CallerState]
  BY DEF RuntimeTypeOK
<1>2. rest \in SUBSET Workers
  BY <1>1 DEF CallerState
<1> HIDE DEF rest
<1>3. Sets(caller, g1, c, "at") /\ g1[c].at = next
  BY <1>1, SetAt
<1> HIDE DEF g1
<1>4. Sets(g1, g2, c, "victims") /\ g2[c].victims = rest
  <2>1. g1 \in [Callers -> CallerState]
    BY <1>3 DEF Sets
  <2> QED  BY <1>2, <2>1, SetVictims
<1> HIDE DEF g2
<1>5. why \in Whys
  <2>1. caller[c].why \in Whys
    BY <1>1 DEF CallerState, Whys
  <2> QED  BY <2>1, WhyTyped
<1> HIDE DEF why
<1>6. Sets(g2, g3, c, "why")
  BY <1>4, <1>5, SetWhy DEF Sets
<1> QED  BY <1>1, <1>3, <1>4, <1>6 DEF Sets, Moves, rest

-----------------------------------------------------------------------------
(***************************************************************************)
(* The requests of a worker after one is added, and after one is changed.  *)
(***************************************************************************)
LEMMA Appended ==
  ASSUME NEW s \in Seq(CallRecord), NEW r \in CallRecord
  PROVE  /\ Append(s, r) \in Seq(CallRecord)
         /\ Len(s) + 1 \in Nat /\ Len(s) + 1 \notin DOMAIN s
         /\ DOMAIN Append(s, r) = DOMAIN s \cup {Len(s) + 1}
         /\ \A i \in DOMAIN s : Append(s, r)[i] = s[i]
         /\ Append(s, r)[Len(s) + 1] = r
<1> DEFINE R == CallRecord
<1>1. s \in Seq(R) /\ r \in R
  OBVIOUS
<1> HIDE DEF R
<1>2. /\ Append(s, r) \in Seq(R)
      /\ Len(s) + 1 \in Nat /\ Len(s) + 1 \notin DOMAIN s
      /\ DOMAIN Append(s, r) = DOMAIN s \cup {Len(s) + 1}
      /\ \A i \in DOMAIN s : Append(s, r)[i] = s[i]
      /\ Append(s, r)[Len(s) + 1] = r
  BY <1>1
<1> QED  BY <1>2 DEF R

\* A call record set in place: the others stay.
LEMMA Updated ==
  ASSUME NEW s \in Seq(CallRecord), NEW i \in DOMAIN s, NEW r \in CallRecord
  PROVE  /\ [s EXCEPT ![i] = r] \in Seq(CallRecord)
         /\ DOMAIN [s EXCEPT ![i] = r] = DOMAIN s
         /\ \A j \in DOMAIN s \ {i} : [s EXCEPT ![i] = r][j] = s[j]
         /\ [s EXCEPT ![i] = r][i] = r
<1> DEFINE R == CallRecord
<1>1. s \in Seq(R) /\ r \in R
  OBVIOUS
<1> HIDE DEF R
<1>2. [s EXCEPT ![i] = r] \in Seq(R)
  BY <1>1
<1>3. /\ DOMAIN [s EXCEPT ![i] = r] = DOMAIN s
      /\ \A j \in DOMAIN s \ {i} : [s EXCEPT ![i] = r][j] = s[j]
      /\ [s EXCEPT ![i] = r][i] = r
  BY <1>1
<1> QED  BY <1>2, <1>3 DEF R

\* A step changes request i of worker w to r, and no other.
Changes(w, i, r) ==
  /\ calls' \in [Workers -> Seq(CallRecord)]
  /\ \A v \in Workers : DOMAIN calls'[v] = DOMAIN calls[v]
  /\ \A v \in Workers : \A j \in DOMAIN calls[v] :
       v # w \/ j # i => calls'[v][j] = calls[v][j]
  /\ calls'[w][i] = r

\* Changing one request changes no other.
LEMMA ChangesOne ==
  ASSUME RuntimeTypeOK, NEW w \in Workers, NEW i \in DOMAIN calls[w], NEW r \in CallRecord,
         calls' = [calls EXCEPT ![w] = [calls[w] EXCEPT ![i] = r]]
  PROVE  Changes(w, i, r)
<1> DEFINE Requests == Seq(CallRecord)
           t == [calls[w] EXCEPT ![i] = r]
<1>1. calls \in [Workers -> Requests] /\ calls[w] \in Requests
  BY DEF RuntimeTypeOK
<1>2. /\ t \in Requests /\ DOMAIN t = DOMAIN calls[w] /\ t[i] = r
      /\ \A j \in DOMAIN calls[w] \ {i} : t[j] = calls[w][j]
  BY <1>1, Updated
<1>3. calls' = [calls EXCEPT ![w] = t]
  OBVIOUS
<1> HIDE DEF Requests, t
<1>4. /\ calls' \in [Workers -> Requests]
      /\ \A v \in Workers \ {w} : calls'[v] = calls[v]
      /\ calls'[w] = t
  BY <1>1, <1>2, <1>3
<1> QED  BY <1>2, <1>4 DEF Changes, Requests

\* The fields of a request.
LEMMA RequestTyped ==
  ASSUME RuntimeTypeOK, NEW w \in Workers, NEW i \in DOMAIN calls[w]
  PROVE  calls[w][i] \in CallRecord
<1> DEFINE R == CallRecord
<1>1. calls[w] \in Seq(R)
  BY DEF RuntimeTypeOK
<1> HIDE DEF R
<1>2. calls[w][i] \in R
  BY <1>1
<1> QED  BY <1>2 DEF R

-----------------------------------------------------------------------------
(* The registry *)

\* Most steps leave the registry alone, and put no worker into the hands of a
\* goroutine but one that is registered.
LeavesRegistry(c) ==
  /\ UNCHANGED registry
  /\ \E at \in Steps \ {"spawned", "ready"}, id \in Nat,
        w \in {None, caller[c].worker} \cup {entries[k] : k \in Keys} :
       Moves(c, at, w, id, caller[c].victims)

Starts(c) ==
  \E w \in Workers :
    /\ launch[w] = "none"
    /\ launch' = [launch EXCEPT ![w] = "launching"]
    /\ proc' = [proc EXCEPT ![w] = "live"]
    /\ UNCHANGED <<entries, lease>>
    /\ Moves(c, "spawned", w, caller[c].id, caller[c].victims)

\* A start that fails, early or late: the goroutine lets the worker go.
GivesUpStart(c) ==
  LET w == caller[c].worker IN
  /\ caller[c].at = "spawned"
  /\ launch' \in [Workers -> {"none", "launching", "ready", "failed"}]
  /\ lease' \in [Workers -> {"none", "held", "released"}]
  /\ \A v \in Workers \ {w} : launch'[v] = launch[v] /\ lease'[v] = lease[v]
  /\ launch'[w] # "none"
  /\ UNCHANGED <<entries, proc>>
  /\ Moves(c, "idle", None, 0, caller[c].victims)

Records(c) ==
  LET w == caller[c].worker IN
  /\ caller[c].at = "spawned"
  /\ lease' = [lease EXCEPT ![w] = "held"]
  /\ launch' = [launch EXCEPT ![w] = "ready"]
  /\ UNCHANGED <<entries, proc>>
  /\ Moves(c, "ready", w, caller[c].id, caller[c].victims)

Registers(c) ==
  LET w == caller[c].worker IN
  /\ caller[c].at = "ready" /\ caller[c].key \in Keys
  /\ entries' = [entries EXCEPT ![caller[c].key] = w]
  /\ UNCHANGED <<proc, lease, launch>>
  /\ Moves(c, "running", w, caller[c].id, caller[c].victims)

TakesOut(c) ==
  \E ks \in SUBSET Keys, at \in {"running", "missed", "idle", "removed"} :
    /\ entries' = [k \in Keys |-> IF k \in ks THEN None ELSE entries[k]]
    /\ UNCHANGED <<proc, lease, launch>>
    /\ Moves(c, at, None, 0, {entries[k] : k \in ks} \ {None})

Kills(c) ==
  \E w \in caller[c].victims, at \in {"running", "missed", "idle", "removed"} :
    /\ proc' = [proc EXCEPT ![w] = IF @ = "live" THEN "killed" ELSE @]
    /\ lease' = [lease EXCEPT ![w] = "released"]
    /\ UNCHANGED <<entries, launch>>
    /\ Moves(c, at, caller[c].worker, caller[c].id, caller[c].victims \ {w})

\* Or a process exits, or nothing happens to registry and goroutines at all.
MachineStep ==
  /\ \/ \E w \in Workers : proc[w] # "none" /\ proc' = [proc EXCEPT ![w] = "exited"]
     \/ UNCHANGED proc
  /\ UNCHANGED <<entries, lease, launch, caller>>

RegistryStep ==
  \/ \E c \in Callers : \/ LeavesRegistry(c) \/ Starts(c) \/ GivesUpStart(c) \/ Records(c)
                        \/ Registers(c) \/ TakesOut(c) \/ Kills(c)
  \/ MachineStep

\* The worker a goroutine has started is one.
LEMMA StartedWorker ==
  ASSUME RuntimeTypeOK, StarterOwns, NEW c \in Callers, caller[c].at \in {"spawned", "ready"}
  PROVE  caller[c].worker \in Workers
BY CallerTyped DEF StarterOwns

(***************************************************************************)
(* The steps of the specification, as the registry sees them.              *)
(***************************************************************************)
LEMMA RegistrySteps ==
  ASSUME RuntimeTypeOK, StarterOwns, CallIsRequest, [Next]_vars
  PROVE  RegistryStep
<1> USE DEF registry, rpc
<1>1. ASSUME NEW c \in Callers, NEW k \in Keys, Ensure(c, k, "probe") PROVE LeavesRegistry(c)
  <2> DEFINE at == IF Registered(k) THEN "running" ELSE "missed"
  <2>1. at \in Steps \ {"spawned", "ready"} /\ "probe" \in Whys
    BY DEF Steps, Whys
  <2>2. Begin(c, k, at, "probe") /\ UNCHANGED registry
    BY <1>1 DEF Ensure
  <2> HIDE DEF at
  <2>3. Moves(c, at, caller[c].worker, caller[c].id, caller[c].victims)
    BY <2>1, <2>2, BeginMoves
  <2> QED  BY <2>1, <2>2, <2>3, CallerTyped DEF LeavesRegistry
<1>2. ASSUME NEW c \in Callers, NEW k \in Keys, BeginCall(c, k) PROVE LeavesRegistry(c)
  <2>1. "running" \in Steps \ {"spawned", "ready"} /\ "call" \in Whys
    BY DEF Steps, Whys
  <2>2. Begin(c, k, "running", "call") /\ UNCHANGED registry
    BY <1>2 DEF BeginCall
  <2>3. Moves(c, "running", caller[c].worker, caller[c].id, caller[c].victims)
    BY <2>1, <2>2, BeginMoves
  <2> QED  BY <2>1, <2>2, <2>3, CallerTyped DEF LeavesRegistry
<1>3. ASSUME NEW c \in Callers, Spawn(c) PROVE Starts(c)
  <2> DEFINE w == CHOOSE w \in Workers : launch[w] = "none"
  <2>1. w \in Workers /\ launch[w] = "none"
    BY <1>3 DEF Spawn
  <2>2. "spawned" \in Steps /\ caller' = [caller EXCEPT ![c].at = "spawned", ![c].worker = w]
    BY <1>3 DEF Spawn, Steps
  <2>3. launch' = [launch EXCEPT ![w] = "launching"] /\ proc' = [proc EXCEPT ![w] = "live"]
        /\ UNCHANGED <<entries, lease>>
    BY <1>3 DEF Spawn
  <2> HIDE DEF w
  <2>4. Moves(c, "spawned", w, caller[c].id, caller[c].victims)
    BY <2>1, <2>2, TakesWorker
  <2> QED  BY <2>1, <2>3, <2>4 DEF Starts
<1>4. ASSUME NEW c \in Callers, Return(c), UNCHANGED registry PROVE LeavesRegistry(c)
  <2>1. Moves(c, "idle", None, 0, caller[c].victims) /\ "idle" \in Steps \ {"spawned", "ready"}
    BY <1>4, ReturnMoves DEF Steps
  <2> QED  BY <1>4, <2>1 DEF LeavesRegistry
<1>5. ASSUME NEW c \in Callers, ExitedEarly(c) \/ RecordFails(c) PROVE GivesUpStart(c)
  <2>1. caller[c].worker \in Workers /\ caller[c].at = "spawned"
    BY <1>5, StartedWorker DEF ExitedEarly, RecordFails
  <2>2. Moves(c, "idle", None, 0, caller[c].victims)
    BY <1>5, ReturnMoves DEF ExitedEarly, RecordFails
  <2>3. launch[caller[c].worker] # "none"
    BY <2>1 DEF StarterOwns
  <2>4. CASE ExitedEarly(c)
    BY <2>1, <2>2, <2>4 DEF ExitedEarly, GivesUpStart, RuntimeTypeOK
  <2>5. CASE RecordFails(c)
    BY <2>1, <2>2, <2>3, <2>5 DEF RecordFails, GivesUpStart, RuntimeTypeOK
  <2> QED  BY <1>5, <2>4, <2>5
<1>6. ASSUME NEW c \in Callers, RecordReady(c) PROVE Records(c)
  <2>1. "ready" \in Steps /\ Goto(c, "ready")
    BY <1>6 DEF RecordReady, Steps
  <2>2. Moves(c, "ready", caller[c].worker, caller[c].id, caller[c].victims)
    BY <2>1, GotoMoves
  <2> QED  BY <1>6, <2>2 DEF RecordReady, Records
<1>7. ASSUME NEW c \in Callers, Register(c) PROVE Registers(c)
  <2>1. "running" \in Steps /\ Goto(c, "running")
    BY <1>7 DEF Register, Steps
  <2>2. Moves(c, "running", caller[c].worker, caller[c].id, caller[c].victims)
    BY <2>1, GotoMoves
  <2> QED  BY <1>7, <2>2, CallerTyped DEF Register, Registers
<1>8. ASSUME NEW c \in Callers, StartCall(c) PROVE LeavesRegistry(c)
  <2> DEFINE k == caller[c].key
             n == Len(calls[entries[k]]) + 1
  <2>1. k \in Keys /\ entries[k] \in Workers
    BY <1>8, CallerTyped DEF StartCall, Registered, RuntimeTypeOK
  <2>2. calls[entries[k]] \in Seq(CallRecord)
    BY <2>1 DEF RuntimeTypeOK
  <2>3. n \in Nat /\ "called" \in Steps \ {"spawned", "ready"}
    BY <2>2 DEF Steps
  <2>4. caller' = [caller EXCEPT ![c].at = "called", ![c].worker = entries[k], ![c].id = n]
        /\ UNCHANGED registry
    BY <1>8 DEF StartCall
  <2> HIDE DEF n, k
  <2>5. Moves(c, "called", entries[k], n, caller[c].victims)
    BY <2>1, <2>3, <2>4, TakesCall
  <2> QED  BY <2>1, <2>3, <2>4, <2>5 DEF LeavesRegistry
<1>9. ASSUME NEW c \in Callers, NEW at \in Steps \ {"spawned", "ready"}, Goto(c, at),
             UNCHANGED registry
      PROVE  LeavesRegistry(c)
  <2>1. Moves(c, at, caller[c].worker, caller[c].id, caller[c].victims)
    BY <1>9, GotoMoves
  <2> QED  BY <1>9, <2>1, CallerTyped DEF LeavesRegistry
<1>10. ASSUME NEW c \in Callers, CallStep(c) PROVE LeavesRegistry(c)
  <2>1. {"writing", "waiting", "late"} \subseteq Steps \ {"spawned", "ready"}
    BY DEF Steps
  <2>2. CASE StartCall(c)
    BY <1>8, <2>2
  <2>3. CASE MissingWorker(c) \/ WriteFails(c) \/ TakeAnswer(c) \/ WorkerGone(c)
    BY <1>4, <2>3 DEF MissingWorker, WriteFails, TakeAnswer, WorkerGone
  <2>4. CASE LockWrite(c) \/ Write(c) \/ TimeOut(c)
    BY <1>9, <2>1, <2>4 DEF LockWrite, Write, TimeOut
  <2> QED  BY <1>10, <2>2, <2>3, <2>4 DEF CallStep
<1>11. ASSUME NEW c \in Callers, NEW ks \in SUBSET Keys, StopKeys(c, ks) PROVE TakesOut(c)
  <2>1. PICK at \in {"running", "missed", "idle", "removed"} :
          Moves(c, at, None, 0, {entries[k] : k \in ks} \ {None})
    BY <1>11, StopMoves
  <2>2. /\ entries' = [k \in Keys |-> IF k \in ks THEN None ELSE entries[k]]
        /\ UNCHANGED <<proc, lease, launch>>
    BY <1>11 DEF StopKeys
  <2> QED  BY <2>1, <2>2 DEF TakesOut
<1>12. ASSUME NEW c \in Callers, KillAndRelease(c) PROVE Kills(c)
  <2>1. PICK w \in caller[c].victims :
          LET rest == caller[c].victims \ {w}
              next == IF rest = {} THEN AfterStop(c) ELSE "removed"
          IN /\ proc' = [proc EXCEPT ![w] = IF @ = "live" THEN "killed" ELSE @]
             /\ lease' = [lease EXCEPT ![w] = "released"]
             /\ caller' = [caller EXCEPT ![c].at = next, ![c].victims = rest,
                                         ![c].why = WhyNext(@, next)]
             /\ UNCHANGED <<entries, launch, rpc>>
    BY <1>12 DEF KillAndRelease
  <2> DEFINE next == IF caller[c].victims \ {w} = {} THEN AfterStop(c) ELSE "removed"
  <2>2. w \in Workers /\ next \in {"running", "missed", "idle", "removed"} /\ next \in Steps
    BY AfterStopIs, CallerTyped DEF Steps
  <2>3. caller' = [caller EXCEPT ![c].at = next, ![c].victims = caller[c].victims \ {w},
                                 ![c].why = WhyNext(@, next)]
    BY <2>1
  <2> HIDE DEF next
  <2>4. Moves(c, next, caller[c].worker, caller[c].id, caller[c].victims \ {w})
    BY <2>2, <2>3, KillMoves
  <2> QED  BY <2>1, <2>2, <2>4 DEF Kills
<1>13. ASSUME NEW c \in Callers, EnsureStep(c)
       PROVE  LeavesRegistry(c) \/ Starts(c) \/ GivesUpStart(c) \/ Records(c) \/ Registers(c)
  <2>1. CASE SpawnFails(c)
    BY <1>4, <2>1 DEF SpawnFails
  <2> QED  BY <1>13, <1>3, <1>5, <1>6, <1>7, <2>1 DEF EnsureStep
<1>14. ASSUME NEW c \in Callers, StopStep(c) PROVE TakesOut(c) \/ Kills(c)
  <2>1. CASE Stop(c)
    BY <1>11, <2>1 DEF Stop
  <2>2. CASE StopAll(c)
    BY <1>11, <2>2 DEF StopAll
  <2>3. CASE StopLate(c)
    BY <1>11, <2>3, CallerTyped DEF StopLate
  <2> QED  BY <1>12, <1>14, <2>1, <2>2, <2>3 DEF StopStep
<1>15. ASSUME NEW w \in Workers, Exit(w) \/ ReadAnswer(w) \/ EndLoop(w) PROVE MachineStep
  BY <1>15 DEF Exit, ReadAnswer, EndLoop, MachineStep
<1>16. CASE UNCHANGED vars
  BY <1>16 DEF vars, RegistryStep, MachineStep
<1> QED  BY <1>1, <1>2, <1>10, <1>13, <1>14, <1>15, <1>16 DEF Next, RegistryStep

\* What may hold a worker.
LEMMA HolderTypes ==
  ASSUME RuntimeTypeOK
  PROVE  /\ \A k \in Keys : entries[k] \in Workers \cup {None}
         /\ \A c \in Callers : /\ caller[c].worker \in Workers \cup {None}
                               /\ caller[c].victims \in SUBSET Workers
BY DEF RuntimeTypeOK, CallerState

(***************************************************************************)
(* A step that leaves the registry alone hands out no new worker.          *)
(***************************************************************************)
LEMMA LeavingKeepsRegistry ==
  ASSUME RuntimeTypeOK, RegistryInv, NEW c \in Callers, LeavesRegistry(c)
  PROVE  RegistryInv'
<1> USE ManagerAssumption
<1>0. FreshIsNobodys /\ StarterOwns /\ OneKeyPerWorker /\ RegisteredIsWhole /\ VictimsApart
  BY DEF RegistryInv
<1>1. PICK at \in Steps \ {"spawned", "ready"}, id \in Nat,
           w \in {None, caller[c].worker} \cup {entries[k] : k \in Keys} :
        Moves(c, at, w, id, caller[c].victims)
  BY DEF LeavesRegistry
<1>2. UNCHANGED <<entries, proc, lease, launch>>
  BY DEF LeavesRegistry, registry
<1>3. \A d \in Callers : caller'[d].victims = caller[d].victims
  BY <1>1 DEF Moves
<1>4. /\ \A d \in Callers \ {c} : caller'[d] = caller[d]
      /\ caller'[c].at = at /\ caller'[c].worker = w
  BY <1>1 DEF Moves
<1>a. FreshIsNobodys'
  BY <1>2, <1>3, <1>4, <1>0, HolderTypes DEF FreshIsNobodys
<1>b. StarterOwns'
  BY <1>2, <1>3, <1>4, <1>0, HolderTypes DEF StarterOwns
<1>c. OneKeyPerWorker'
  BY <1>2, <1>3, <1>4, <1>0, HolderTypes DEF OneKeyPerWorker
<1>d. RegisteredIsWhole'
  BY <1>2, <1>3, <1>4, <1>0, HolderTypes DEF RegisteredIsWhole
<1>e. VictimsApart'
  BY <1>2, <1>3, <1>4, <1>0, HolderTypes DEF VictimsApart
<1> QED  BY <1>a, <1>b, <1>c, <1>d, <1>e DEF RegistryInv

(***************************************************************************)
(* A new worker is nobody else's.                                          *)
(***************************************************************************)
LEMMA StartingKeepsRegistry ==
  ASSUME RuntimeTypeOK, RegistryInv, NEW c \in Callers, Starts(c)
  PROVE  RegistryInv'
<1> USE ManagerAssumption
<1>0. FreshIsNobodys /\ StarterOwns /\ OneKeyPerWorker /\ RegisteredIsWhole /\ VictimsApart
  BY DEF RegistryInv
<1>1. PICK w \in Workers :
        /\ launch[w] = "none"
        /\ launch' = [launch EXCEPT ![w] = "launching"]
        /\ proc' = [proc EXCEPT ![w] = "live"]
        /\ UNCHANGED <<entries, lease>>
        /\ Moves(c, "spawned", w, caller[c].id, caller[c].victims)
  BY DEF Starts
<1>2. /\ launch'[w] = "launching" /\ proc'[w] = "live"
      /\ \A v \in Workers \ {w} : launch'[v] = launch[v] /\ proc'[v] = proc[v]
      /\ entries' = entries /\ lease' = lease
  BY <1>1 DEF RuntimeTypeOK
<1>3. \A d \in Callers : caller'[d].victims = caller[d].victims
  BY <1>1 DEF Moves
<1>4. /\ \A d \in Callers \ {c} : caller'[d] = caller[d]
      /\ caller'[c].at = "spawned" /\ caller'[c].worker = w
  BY <1>1 DEF Moves
<1>5. /\ \A k \in Keys : entries[k] # w
      /\ \A d \in Callers : caller[d].worker # w /\ w \notin caller[d].victims
  BY <1>1 DEF RegistryInv, FreshIsNobodys
<1>a. FreshIsNobodys'
  BY <1>2, <1>3, <1>4, <1>5, <1>0, HolderTypes DEF FreshIsNobodys
<1>b. StarterOwns'
  BY <1>2, <1>3, <1>4, <1>5, <1>0, HolderTypes DEF StarterOwns
<1>c. OneKeyPerWorker'
  BY <1>2, <1>3, <1>4, <1>5, <1>0, HolderTypes DEF OneKeyPerWorker
<1>d. RegisteredIsWhole'
  BY <1>2, <1>3, <1>4, <1>5, <1>0, HolderTypes DEF RegisteredIsWhole
<1>e. VictimsApart'
  BY <1>2, <1>3, <1>4, <1>5, <1>0, HolderTypes DEF VictimsApart
<1> QED  BY <1>a, <1>b, <1>c, <1>d, <1>e DEF RegistryInv

(***************************************************************************)
(* A start that fails leaves a worker nobody knows.                        *)
(***************************************************************************)
LEMMA GivingUpKeepsRegistry ==
  ASSUME RuntimeTypeOK, RegistryInv, NEW c \in Callers, GivesUpStart(c)
  PROVE  RegistryInv'
<1> USE ManagerAssumption
<1>0. FreshIsNobodys /\ StarterOwns /\ OneKeyPerWorker /\ RegisteredIsWhole /\ VictimsApart
  BY DEF RegistryInv
<1> DEFINE w == caller[c].worker
<1>1. /\ w \in Workers /\ \A k \in Keys : entries[k] # w
      /\ \A d \in Callers \ {c} : caller[d].worker # w
  BY StartedWorker DEF GivesUpStart, RegistryInv, StarterOwns
<1>2. /\ \A v \in Workers \ {w} : launch'[v] = launch[v] /\ lease'[v] = lease[v]
      /\ launch'[w] # "none"
      /\ entries' = entries /\ proc' = proc
  BY DEF GivesUpStart
<1> HIDE DEF w
<1>3. Moves(c, "idle", None, 0, caller[c].victims)
  BY DEF GivesUpStart
<1>4. \A d \in Callers : caller'[d].victims = caller[d].victims
  BY <1>3 DEF Moves
<1>5. /\ \A d \in Callers \ {c} : caller'[d] = caller[d]
      /\ caller'[c].at = "idle" /\ caller'[c].worker = None
  BY <1>3 DEF Moves
<1>a. FreshIsNobodys'
  BY <1>1, <1>2, <1>4, <1>5, <1>0, HolderTypes DEF FreshIsNobodys
<1>b. StarterOwns'
  BY <1>1, <1>2, <1>4, <1>5, <1>0, HolderTypes DEF StarterOwns
<1>c. OneKeyPerWorker'
  BY <1>1, <1>2, <1>4, <1>5, <1>0, HolderTypes DEF OneKeyPerWorker
<1>d. RegisteredIsWhole'
  BY <1>1, <1>2, <1>4, <1>5, <1>0, HolderTypes DEF RegisteredIsWhole
<1>e. VictimsApart'
  BY <1>1, <1>2, <1>4, <1>5, <1>0, HolderTypes DEF VictimsApart
<1> QED  BY <1>a, <1>b, <1>c, <1>d, <1>e DEF RegistryInv

(***************************************************************************)
(* The lease and the launch are the worker's own.                          *)
(***************************************************************************)
LEMMA RecordingKeepsRegistry ==
  ASSUME RuntimeTypeOK, RegistryInv, NEW c \in Callers, Records(c)
  PROVE  RegistryInv'
<1> USE ManagerAssumption
<1>0. FreshIsNobodys /\ StarterOwns /\ OneKeyPerWorker /\ RegisteredIsWhole /\ VictimsApart
  BY DEF RegistryInv
<1> DEFINE w == caller[c].worker
<1>1. /\ w \in Workers /\ \A k \in Keys : entries[k] # w
      /\ \A d \in Callers : w \notin caller[d].victims
      /\ \A d \in Callers \ {c} : caller[d].worker # w
      /\ proc[w] # "killed" /\ launch[w] # "none"
  BY StartedWorker DEF Records, RegistryInv, StarterOwns
<1>2. /\ \A v \in Workers \ {w} : launch'[v] = launch[v] /\ lease'[v] = lease[v]
      /\ launch'[w] = "ready" /\ lease'[w] = "held"
      /\ entries' = entries /\ proc' = proc
  BY <1>1 DEF Records, RuntimeTypeOK
<1>3. Moves(c, "ready", w, caller[c].id, caller[c].victims)
  BY DEF Records
<1> HIDE DEF w
<1>4. \A d \in Callers : caller'[d].victims = caller[d].victims
  BY <1>3 DEF Moves
<1>5. /\ \A d \in Callers \ {c} : caller'[d] = caller[d]
      /\ caller'[c].at = "ready" /\ caller'[c].worker = w
  BY <1>3 DEF Moves
<1>a. FreshIsNobodys'
  BY <1>1, <1>2, <1>4, <1>5, <1>0, HolderTypes DEF FreshIsNobodys
<1>b. StarterOwns'
  BY <1>1, <1>2, <1>4, <1>5, <1>0, HolderTypes DEF StarterOwns
<1>c. OneKeyPerWorker'
  BY <1>1, <1>2, <1>4, <1>5, <1>0, HolderTypes DEF OneKeyPerWorker
<1>d. RegisteredIsWhole'
  BY <1>1, <1>2, <1>4, <1>5, <1>0, HolderTypes DEF RegisteredIsWhole
<1>e. VictimsApart'
  BY <1>1, <1>2, <1>4, <1>5, <1>0, HolderTypes DEF VictimsApart
<1> QED  BY <1>a, <1>b, <1>c, <1>d, <1>e DEF RegistryInv

(***************************************************************************)
(* What is registered has its lease, and nobody is after it.               *)
(***************************************************************************)
LEMMA RegisteringKeepsRegistry ==
  ASSUME RuntimeTypeOK, RegistryInv, NEW c \in Callers, Registers(c)
  PROVE  RegistryInv'
<1> USE ManagerAssumption
<1>0. FreshIsNobodys /\ StarterOwns /\ OneKeyPerWorker /\ RegisteredIsWhole /\ VictimsApart
  BY DEF RegistryInv
<1> DEFINE w == caller[c].worker
           key == caller[c].key
<1>1. /\ w \in Workers /\ \A k \in Keys : entries[k] # w
      /\ \A d \in Callers : w \notin caller[d].victims
      /\ \A d \in Callers \ {c} : caller[d].worker # w
      /\ proc[w] # "killed" /\ launch[w] = "ready" /\ lease[w] = "held"
  BY StartedWorker DEF Registers, RegistryInv, StarterOwns
<1>2. /\ key \in Keys /\ entries'[key] = w
      /\ \A k \in Keys \ {key} : entries'[k] = entries[k]
      /\ proc' = proc /\ lease' = lease /\ launch' = launch
  BY DEF Registers, RuntimeTypeOK
<1>3. Moves(c, "running", w, caller[c].id, caller[c].victims)
  BY DEF Registers
<1> HIDE DEF w, key
<1>4. \A d \in Callers : caller'[d].victims = caller[d].victims
  BY <1>3 DEF Moves
<1>5. /\ \A d \in Callers \ {c} : caller'[d] = caller[d]
      /\ caller'[c].at = "running" /\ caller'[c].worker = w
  BY <1>3 DEF Moves
<1>a. FreshIsNobodys'
  BY <1>1, <1>2, <1>4, <1>5, <1>0, HolderTypes DEF FreshIsNobodys
<1>b. StarterOwns'
  BY <1>1, <1>2, <1>4, <1>5, <1>0, HolderTypes DEF StarterOwns
<1>c. OneKeyPerWorker'
  BY <1>1, <1>2, <1>4, <1>5, <1>0, HolderTypes DEF OneKeyPerWorker
<1>d. RegisteredIsWhole'
  BY <1>1, <1>2, <1>4, <1>5, <1>0, HolderTypes DEF RegisteredIsWhole
<1>e. VictimsApart'
  BY <1>1, <1>2, <1>4, <1>5, <1>0, HolderTypes DEF VictimsApart
<1> QED  BY <1>a, <1>b, <1>c, <1>d, <1>e DEF RegistryInv

(***************************************************************************)
(* A stop is after the workers it has just taken out, and no other.        *)
(***************************************************************************)
LEMMA TakingOutKeepsRegistry ==
  ASSUME RuntimeTypeOK, RegistryInv, NEW c \in Callers, TakesOut(c)
  PROVE  RegistryInv'
<1> USE ManagerAssumption
<1>0. FreshIsNobodys /\ StarterOwns /\ OneKeyPerWorker /\ RegisteredIsWhole /\ VictimsApart
  BY DEF RegistryInv
<1>1. PICK ks \in SUBSET Keys, at \in {"running", "missed", "idle", "removed"} :
        /\ entries' = [k \in Keys |-> IF k \in ks THEN None ELSE entries[k]]
        /\ UNCHANGED <<proc, lease, launch>>
        /\ Moves(c, at, None, 0, {entries[k] : k \in ks} \ {None})
  BY DEF TakesOut
<1>2. /\ \A k \in Keys : entries'[k] = IF k \in ks THEN None ELSE entries[k]
      /\ proc' = proc /\ lease' = lease /\ launch' = launch
  BY <1>1
<1>3. /\ \A d \in Callers \ {c} : caller'[d] = caller[d]
      /\ caller'[c].at \notin {"spawned", "ready"} /\ caller'[c].worker = None
      /\ \A v \in caller'[c].victims : v # None /\ \E k \in ks : v = entries[k]
  BY <1>1 DEF Moves
<1>a. FreshIsNobodys'
  BY <1>2, <1>3, <1>0, HolderTypes DEF FreshIsNobodys
<1>b. StarterOwns'
  BY <1>2, <1>3, <1>0, HolderTypes DEF StarterOwns
<1>c. OneKeyPerWorker'
  BY <1>2, <1>3, <1>0, HolderTypes DEF OneKeyPerWorker
<1>4. \A k \in Keys : entries'[k] # None => k \notin ks /\ entries'[k] = entries[k]
  BY <1>2
<1>5. \A k \in Keys : entries'[k] # None => entries[k] \notin caller'[c].victims
  BY <1>0, <1>3, <1>4 DEF OneKeyPerWorker
<1>d. RegisteredIsWhole'
  BY <1>2, <1>3, <1>4, <1>5, <1>0, HolderTypes DEF RegisteredIsWhole
<1>6. \A d \in Callers \ {c} : caller'[c].victims \cap caller[d].victims = {}
  BY <1>3, <1>0 DEF RegisteredIsWhole
<1>e. VictimsApart'
  BY <1>3, <1>6, <1>0 DEF VictimsApart
<1> QED  BY <1>a, <1>b, <1>c, <1>d, <1>e DEF RegistryInv

(***************************************************************************)
(* A stop kills a worker that is not registered.                           *)
(***************************************************************************)
LEMMA KillingKeepsRegistry ==
  ASSUME RuntimeTypeOK, RegistryInv, NEW c \in Callers, Kills(c)
  PROVE  RegistryInv'
<1> USE ManagerAssumption
<1>0. FreshIsNobodys /\ StarterOwns /\ OneKeyPerWorker /\ RegisteredIsWhole /\ VictimsApart
  BY DEF RegistryInv
<1>1. PICK w \in caller[c].victims, at \in {"running", "missed", "idle", "removed"} :
        /\ proc' = [proc EXCEPT ![w] = IF @ = "live" THEN "killed" ELSE @]
        /\ lease' = [lease EXCEPT ![w] = "released"]
        /\ UNCHANGED <<entries, launch>>
        /\ Moves(c, at, caller[c].worker, caller[c].id, caller[c].victims \ {w})
  BY DEF Kills
<1>2. w \in Workers
  BY CallerTyped
<1>3. /\ launch[w] # "none"
      /\ \A k \in Keys : entries[k] # w
      /\ \A d \in Callers : caller[d].at \in {"spawned", "ready"} => caller[d].worker # w
  BY <1>2 DEF RegistryInv, FreshIsNobodys, StarterOwns, RegisteredIsWhole
<1>4. /\ \A v \in Workers \ {w} : proc'[v] = proc[v] /\ lease'[v] = lease[v]
      /\ entries' = entries /\ launch' = launch
  BY <1>1, <1>2 DEF RuntimeTypeOK
<1>5. /\ \A d \in Callers \ {c} : caller'[d] = caller[d]
      /\ caller'[c].at \notin {"spawned", "ready"} /\ caller'[c].worker = caller[c].worker
      /\ caller'[c].victims = caller[c].victims \ {w}
  BY <1>1 DEF Moves
<1>a. FreshIsNobodys'
  BY <1>2, <1>3, <1>4, <1>5, <1>0, HolderTypes DEF FreshIsNobodys
<1>b. StarterOwns'
  BY <1>2, <1>3, <1>4, <1>5, <1>0, HolderTypes DEF StarterOwns
<1>c. OneKeyPerWorker'
  BY <1>2, <1>3, <1>4, <1>5, <1>0, HolderTypes DEF OneKeyPerWorker
<1>d. RegisteredIsWhole'
  BY <1>2, <1>3, <1>4, <1>5, <1>0, HolderTypes DEF RegisteredIsWhole
<1>e. VictimsApart'
  BY <1>2, <1>3, <1>4, <1>5, <1>0, HolderTypes DEF VictimsApart
<1> QED  BY <1>a, <1>b, <1>c, <1>d, <1>e DEF RegistryInv

\* A process that exits was started, and is killed no more.
LEMMA MachineKeepsRegistry ==
  ASSUME RuntimeTypeOK, RegistryInv, MachineStep
  PROVE  RegistryInv'
<1>0. FreshIsNobodys /\ StarterOwns /\ OneKeyPerWorker /\ RegisteredIsWhole /\ VictimsApart
  BY DEF RegistryInv
<1>1. /\ entries' = entries /\ lease' = lease /\ launch' = launch /\ caller' = caller
      /\ \A v \in Workers : proc'[v] = proc[v] \/ (proc[v] # "none" /\ proc'[v] = "exited")
  BY DEF MachineStep, RuntimeTypeOK
<1>a. FreshIsNobodys'
  BY <1>1, <1>0 DEF FreshIsNobodys
<1>b. StarterOwns'
  BY <1>1, StartedWorker, <1>0 DEF StarterOwns
<1>c. OneKeyPerWorker'
  BY <1>1, <1>0 DEF OneKeyPerWorker
<1>d. RegisteredIsWhole'
  BY <1>1, <1>0, HolderTypes DEF RegisteredIsWhole
<1>e. VictimsApart'
  BY <1>1, <1>0 DEF VictimsApart
<1> QED  BY <1>a, <1>b, <1>c, <1>d, <1>e DEF RegistryInv

\* Every step keeps the registry sound.
LEMMA StepKeepsRegistry ==
  ASSUME RuntimeTypeOK, RegistryInv, RegistryStep
  PROVE  RegistryInv'
BY LeavingKeepsRegistry, StartingKeepsRegistry, GivingUpKeepsRegistry, RecordingKeepsRegistry,
   RegisteringKeepsRegistry, TakingOutKeepsRegistry, KillingKeepsRegistry, MachineKeepsRegistry
   DEF RegistryStep

-----------------------------------------------------------------------------
(* The exchange with a worker *)

\* Most steps leave the requests alone; the goroutine is in no call afterwards.
LeavesCalls(c) ==
  /\ UNCHANGED <<loop, calls>>
  /\ caller'[c].at \notin InCall \cup {"late"}
  /\ \A d \in Callers \ {c} : caller'[d] = caller[d]

\* A goroutine stays where it is in its call, or goes on to write.
HoldsCall(c) ==
  /\ UNCHANGED <<loop, calls>>
  /\ caller[c].at = "called"
  /\ Moves(c, "writing", caller[c].worker, caller[c].id, caller[c].victims)

Asks(c) ==
  \E w \in Workers :
    /\ calls' = [calls EXCEPT ![w] =
         Append(@, [wire |-> "unsent", chan |-> "empty", pending |-> TRUE])]
    /\ UNCHANGED loop
    /\ Moves(c, "called", w, Len(calls[w]) + 1, caller[c].victims)

Writes(c) ==
  /\ caller[c].at = "writing"
  /\ Changes(caller[c].worker, caller[c].id, [Call(c) EXCEPT !.wire = "asked"])
  /\ UNCHANGED loop
  /\ Moves(c, "waiting", caller[c].worker, caller[c].id, caller[c].victims)

LeavesLate(c) ==
  /\ caller[c].at = "waiting"
  /\ Changes(caller[c].worker, caller[c].id, [Call(c) EXCEPT !.pending = FALSE])
  /\ UNCHANGED loop
  /\ Moves(c, "late", caller[c].worker, caller[c].id, caller[c].victims)

Answers(w) ==
  /\ \E i \in DOMAIN calls[w] :
       /\ calls[w][i].wire = "asked"
       /\ Changes(w, i, [wire |-> "answered", pending |-> FALSE,
                         chan |-> IF calls[w][i].pending THEN "answer" ELSE calls[w][i].chan])
  /\ UNCHANGED <<loop, caller>>

Drains(w) ==
  /\ loop' = [loop EXCEPT ![w] = "ended"]
  /\ calls' = [calls EXCEPT ![w] = [i \in DOMAIN @ |->
       IF @[i].pending THEN [@[i] EXCEPT !.pending = FALSE, !.chan = "closed"]
       ELSE @[i]]]
  /\ UNCHANGED caller

ExchangeStep ==
  \/ \E c \in Callers : LeavesCalls(c) \/ HoldsCall(c) \/ Asks(c) \/ Writes(c) \/ LeavesLate(c)
  \/ \E w \in Workers : Answers(w) \/ Drains(w)
  \/ UNCHANGED <<loop, calls, caller>>

\* The request of a call.
LEMMA OwnRequest ==
  ASSUME RuntimeTypeOK, CallIsRequest, NEW c \in Callers, caller[c].at \in InCall \cup {"late"}
  PROVE  /\ caller[c].worker \in Workers
         /\ caller[c].id \in DOMAIN calls[caller[c].worker]
         /\ Call(c) \in CallRecord
BY CallerTyped, RequestTyped DEF CallIsRequest, Call

(***************************************************************************)
(* The steps of the specification, as the requests see them.               *)
(***************************************************************************)
LEMMA ExchangeSteps ==
  ASSUME RuntimeTypeOK, CallIsRequest, [Next]_vars
  PROVE  ExchangeStep
<1> USE DEF rpc, registry
<1>1. ASSUME NEW c \in Callers, NEW at \in Steps \ (InCall \cup {"late"}),
             NEW w, NEW id, NEW vs, Moves(c, at, w, id, vs), UNCHANGED <<loop, calls>>
      PROVE  LeavesCalls(c)
  BY <1>1 DEF LeavesCalls, Moves
<1>2. {"idle", "missed", "spawned", "ready", "running", "removed"}
        \subseteq Steps \ (InCall \cup {"late"})
  BY DEF Steps, InCall
<1>3. ASSUME NEW c \in Callers, Return(c), UNCHANGED <<loop, calls>> PROVE LeavesCalls(c)
  BY <1>1, <1>2, <1>3, ReturnMoves
<1>4. ASSUME NEW c \in Callers, NEW k \in Keys, Ensure(c, k, "probe") PROVE LeavesCalls(c)
  <2> DEFINE at == IF Registered(k) THEN "running" ELSE "missed"
  <2>1. at \in {"running", "missed"} /\ at \in Steps /\ "probe" \in Whys
    BY <1>2 DEF Whys
  <2>2. Begin(c, k, at, "probe") /\ UNCHANGED <<loop, calls>>
    BY <1>4 DEF Ensure
  <2> HIDE DEF at
  <2>3. Moves(c, at, caller[c].worker, caller[c].id, caller[c].victims)
    BY <2>1, <2>2, BeginMoves
  <2> QED  BY <1>1, <1>2, <2>1, <2>2, <2>3
<1>5. ASSUME NEW c \in Callers, NEW k \in Keys, BeginCall(c, k) PROVE LeavesCalls(c)
  <2>1. "running" \in Steps /\ "call" \in Whys
    BY <1>2 DEF Whys
  <2>2. Begin(c, k, "running", "call") /\ UNCHANGED <<loop, calls>>
    BY <1>5 DEF BeginCall
  <2> QED  BY <1>1, <1>2, <2>1, <2>2, BeginMoves
<1>6. ASSUME NEW c \in Callers, EnsureStep(c) PROVE LeavesCalls(c)
  <2>1. CASE SpawnFails(c) \/ ExitedEarly(c) \/ RecordFails(c)
    BY <1>3, <2>1 DEF SpawnFails, ExitedEarly, RecordFails
  <2>2. CASE Spawn(c)
    <3> DEFINE w == CHOOSE w \in Workers : launch[w] = "none"
    <3>1. w \in Workers /\ UNCHANGED <<loop, calls>>
      BY <2>2 DEF Spawn
    <3>2. caller' = [caller EXCEPT ![c].at = "spawned", ![c].worker = w]
      BY <2>2 DEF Spawn
    <3> HIDE DEF w
    <3> QED  BY <1>1, <1>2, <3>1, <3>2, TakesWorker
  <2>3. CASE RecordReady(c) \/ Register(c)
    <3>1. PICK at \in {"ready", "running"} : Goto(c, at) /\ UNCHANGED <<loop, calls>>
      BY <2>3 DEF RecordReady, Register
    <3> QED  BY <1>1, <1>2, <3>1, GotoMoves
  <2> QED  BY <1>6, <2>1, <2>2, <2>3 DEF EnsureStep
<1>7. ASSUME NEW c \in Callers, StopStep(c) PROVE LeavesCalls(c)
  <2>1. ASSUME NEW ks \in SUBSET Keys, StopKeys(c, ks) PROVE LeavesCalls(c)
    <3>1. PICK at \in {"running", "missed", "idle", "removed"} :
            Moves(c, at, None, 0, {entries[k] : k \in ks} \ {None})
      BY <2>1, StopMoves
    <3>2. UNCHANGED <<loop, calls>>
      BY <2>1 DEF StopKeys
    <3> QED  BY <1>1, <1>2, <3>1, <3>2
  <2>2. CASE Stop(c) \/ StopAll(c) \/ StopLate(c)
    BY <2>1, <2>2, CallerTyped DEF Stop, StopAll, StopLate
  <2>3. CASE KillAndRelease(c)
    <3>1. PICK w \in caller[c].victims :
            LET rest == caller[c].victims \ {w}
                next == IF rest = {} THEN AfterStop(c) ELSE "removed"
            IN /\ caller' = [caller EXCEPT ![c].at = next, ![c].victims = rest,
                                           ![c].why = WhyNext(@, next)]
               /\ UNCHANGED <<entries, launch, rpc>>
      BY <2>3 DEF KillAndRelease
    <3> DEFINE next == IF caller[c].victims \ {w} = {} THEN AfterStop(c) ELSE "removed"
    <3>2. w \in Workers /\ next \in {"running", "missed", "idle", "removed"}
      BY AfterStopIs, CallerTyped
    <3>3. caller' = [caller EXCEPT ![c].at = next, ![c].victims = caller[c].victims \ {w},
                                   ![c].why = WhyNext(@, next)]
      BY <3>1
    <3> HIDE DEF next
    <3>4. Moves(c, next, caller[c].worker, caller[c].id, caller[c].victims \ {w})
      BY <1>2, <3>2, <3>3, KillMoves
    <3> QED  BY <1>1, <1>2, <3>1, <3>2, <3>4
  <2> QED  BY <1>7, <2>2, <2>3 DEF StopStep
<1>8. ASSUME NEW c \in Callers, StartCall(c) PROVE Asks(c)
  <2> DEFINE w == entries[caller[c].key]
             n == Len(calls[w]) + 1
  <2>1. w \in Workers
    BY <1>8, CallerTyped DEF StartCall, Registered, RuntimeTypeOK
  <2>2. n \in Nat /\ "called" \in Steps
    BY <2>1 DEF RuntimeTypeOK, Steps
  <2>3. /\ calls' = [calls EXCEPT ![w] =
             Append(@, [wire |-> "unsent", chan |-> "empty", pending |-> TRUE])]
        /\ UNCHANGED loop
        /\ caller' = [caller EXCEPT ![c].at = "called", ![c].worker = w, ![c].id = n]
    BY <1>8 DEF StartCall
  <2> HIDE DEF w
  <2>4. Moves(c, "called", w, n, caller[c].victims)
    <3> HIDE DEF n
    <3> QED  BY <2>1, <2>2, <2>3, TakesCall
  <2> QED  BY <2>1, <2>3, <2>4 DEF Asks
<1>9. ASSUME NEW c \in Callers, CallStep(c)
      PROVE  LeavesCalls(c) \/ HoldsCall(c) \/ Asks(c) \/ Writes(c) \/ LeavesLate(c)
  <2> DEFINE w == caller[c].worker
  <2>1. {"writing", "waiting", "late"} \subseteq Steps /\ "waiting" \in InCall
        /\ "writing" \in InCall
    BY DEF Steps, InCall
  <2>2. CASE MissingWorker(c) \/ WriteFails(c) \/ TakeAnswer(c) \/ WorkerGone(c)
    BY <1>3, <2>2 DEF MissingWorker, WriteFails, TakeAnswer, WorkerGone
  <2>3. CASE LockWrite(c)
    BY <2>1, <2>3, GotoMoves DEF LockWrite, HoldsCall
  <2>4. CASE Write(c)
    <3>1. /\ w \in Workers /\ caller[c].id \in DOMAIN calls[w] /\ Call(c) \in CallRecord
          /\ caller[c].at = "writing"
      BY <2>1, <2>4, OwnRequest DEF Write
    <3>2. [Call(c) EXCEPT !.wire = "asked"] \in CallRecord
      BY <3>1 DEF CallRecord
    <3>3. calls' = [calls EXCEPT ![w] =
                      [calls[w] EXCEPT ![caller[c].id] = [Call(c) EXCEPT !.wire = "asked"]]]
      BY <2>4 DEF Write, Call
    <3>4. Changes(w, caller[c].id, [Call(c) EXCEPT !.wire = "asked"])
      BY <3>1, <3>2, <3>3, ChangesOne
    <3>5. Moves(c, "waiting", w, caller[c].id, caller[c].victims) /\ UNCHANGED loop
      BY <2>1, <2>4, GotoMoves DEF Write
    <3> QED  BY <3>1, <3>4, <3>5 DEF Writes
  <2>5. CASE TimeOut(c)
    <3>1. /\ w \in Workers /\ caller[c].id \in DOMAIN calls[w] /\ Call(c) \in CallRecord
          /\ caller[c].at = "waiting"
      BY <2>1, <2>5, OwnRequest DEF TimeOut
    <3>2. [Call(c) EXCEPT !.pending = FALSE] \in CallRecord
      BY <3>1 DEF CallRecord
    <3>3. calls' = [calls EXCEPT ![w] =
                      [calls[w] EXCEPT ![caller[c].id] = [Call(c) EXCEPT !.pending = FALSE]]]
      BY <2>5 DEF TimeOut, Call
    <3>4. Changes(w, caller[c].id, [Call(c) EXCEPT !.pending = FALSE])
      BY <3>1, <3>2, <3>3, ChangesOne
    <3>5. Moves(c, "late", w, caller[c].id, caller[c].victims) /\ UNCHANGED loop
      BY <2>1, <2>5, GotoMoves DEF TimeOut
    <3> QED  BY <3>1, <3>4, <3>5 DEF LeavesLate
  <2> QED  BY <1>8, <1>9, <2>2, <2>3, <2>4, <2>5 DEF CallStep
<1>10. ASSUME NEW w \in Workers, ReadAnswer(w) PROVE Answers(w)
  <2>1. PICK i \in DOMAIN calls[w] :
          /\ calls[w][i].wire = "asked"
          /\ calls' = [calls EXCEPT ![w][i] =
               [wire |-> "answered", pending |-> FALSE,
                chan |-> IF @.pending THEN "answer" ELSE @.chan]]
    BY <1>10 DEF ReadAnswer
  <2> DEFINE r == [wire |-> "answered", pending |-> FALSE,
                   chan |-> IF calls[w][i].pending THEN "answer" ELSE calls[w][i].chan]
  <2>2. r \in CallRecord
    BY RequestTyped DEF CallRecord
  <2>3. calls' = [calls EXCEPT ![w] = [calls[w] EXCEPT ![i] = r]]
    BY <2>1
  <2> HIDE DEF r
  <2>4. Changes(w, i, r)
    BY <2>2, <2>3, ChangesOne
  <2> QED  BY <1>10, <2>1, <2>4 DEF r, ReadAnswer, Answers
<1>11. ASSUME NEW w \in Workers, EndLoop(w) PROVE Drains(w)
  BY <1>11 DEF EndLoop, Drains
<1>12. ASSUME NEW w \in Workers, Exit(w) PROVE UNCHANGED <<loop, calls, caller>>
  BY <1>12 DEF Exit
<1>13. CASE UNCHANGED vars
  BY <1>13 DEF vars, ExchangeStep
<1> QED  BY <1>4, <1>5, <1>6, <1>7, <1>9, <1>10, <1>11, <1>12, <1>13 DEF Next, ExchangeStep

\* Who is in no call disturbs none.
LEMMA LeavingKeepsCalls ==
  ASSUME RuntimeTypeOK, CallInv, NEW c \in Callers, LeavesCalls(c)
  PROVE  CallInv'
<1>0. CallIsRequest /\ AnswerWasGiven /\ AnswersOwnCall /\ NoCallIsStranded
  BY DEF CallInv
<1>1. /\ calls' = calls /\ loop' = loop
      /\ caller'[c].at \notin InCall \cup {"late"}
      /\ \A d \in Callers \ {c} : caller'[d] = caller[d]
  BY DEF LeavesCalls
<1>a. CallIsRequest'
  BY <1>1, <1>0 DEF CallIsRequest, Call, InCall
<1>b. AnswerWasGiven'
  BY <1>1, <1>0 DEF AnswerWasGiven, Call, InCall
<1>c. AnswersOwnCall'
  BY <1>1, <1>0 DEF AnswersOwnCall, Call, InCall
<1>d. NoCallIsStranded'
  BY <1>1, <1>0 DEF NoCallIsStranded, Call, InCall
<1> QED  BY <1>a, <1>b, <1>c, <1>d DEF CallInv

\* Taking the mutex changes no request.
LEMMA HoldingKeepsCalls ==
  ASSUME RuntimeTypeOK, CallInv, NEW c \in Callers, HoldsCall(c)
  PROVE  CallInv'
<1>0. CallIsRequest /\ AnswerWasGiven /\ AnswersOwnCall /\ NoCallIsStranded
  BY DEF CallInv
<1>1. /\ calls' = calls /\ loop' = loop
      /\ caller[c].at = "called" /\ caller'[c].at = "writing"
      /\ caller'[c].worker = caller[c].worker /\ caller'[c].id = caller[c].id
      /\ \A d \in Callers \ {c} : caller'[d] = caller[d]
  BY DEF HoldsCall, Moves
<1>a. CallIsRequest'
  BY <1>1, <1>0 DEF CallIsRequest, Call, InCall
<1>b. AnswerWasGiven'
  BY <1>1, <1>0 DEF AnswerWasGiven, Call, InCall
<1>c. AnswersOwnCall'
  BY <1>1, <1>0 DEF AnswersOwnCall, Call, InCall
<1>d. NoCallIsStranded'
  BY <1>1, <1>0 DEF NoCallIsStranded, Call, InCall
<1> QED  BY <1>a, <1>b, <1>c, <1>d DEF CallInv

\* A new request has an id nobody has, and a channel the loop can reach.
LEMMA AskingKeepsCalls ==
  ASSUME RuntimeTypeOK, CallInv, NEW c \in Callers, Asks(c)
  PROVE  CallInv'
<1>0. CallIsRequest /\ AnswerWasGiven /\ AnswersOwnCall /\ NoCallIsStranded
  BY DEF CallInv
<1>1. PICK w \in Workers :
        /\ calls' = [calls EXCEPT ![w] =
             Append(@, [wire |-> "unsent", chan |-> "empty", pending |-> TRUE])]
        /\ UNCHANGED loop
        /\ Moves(c, "called", w, Len(calls[w]) + 1, caller[c].victims)
  BY DEF Asks
<1> DEFINE n == Len(calls[w]) + 1
           r == [wire |-> "unsent", chan |-> "empty", pending |-> TRUE]
<1>2. calls[w] \in Seq(CallRecord) /\ r \in CallRecord
  BY DEF RuntimeTypeOK, CallRecord
<1>3. /\ calls'[w] = Append(calls[w], r)
      /\ \A v \in Workers \ {w} : calls'[v] = calls[v]
  BY <1>1 DEF RuntimeTypeOK
<1>4. r.wire = "unsent" /\ r.chan = "empty" /\ r.pending
  OBVIOUS
<1> HIDE DEF r
<1>5. /\ n \notin DOMAIN calls[w]
      /\ DOMAIN calls'[w] = DOMAIN calls[w] \cup {n}
      /\ \A i \in DOMAIN calls[w] : calls'[w][i] = calls[w][i]
      /\ calls'[w][n] = r
  BY <1>2, <1>3, Appended
<1>6. /\ caller'[c].at = "called" /\ caller'[c].worker = w /\ caller'[c].id = n
      /\ \A d \in Callers \ {c} : caller'[d] = caller[d]
  BY <1>1 DEF Moves
<1>7. loop' = loop
  BY <1>1
<1> HIDE DEF n
<1>8. \A d \in Callers : caller[d].at \in InCall \cup {"late"} =>
        /\ caller[d].worker \in Workers /\ caller[d].id \in DOMAIN calls[caller[d].worker]
        /\ calls'[caller[d].worker][caller[d].id] = Call(d)
        /\ caller[d].worker = w => caller[d].id # n
  BY <1>3, <1>5, OwnRequest, <1>0 DEF Call
<1>9. \A v \in Workers : \A i \in DOMAIN calls'[v] :
        \/ i \in DOMAIN calls[v] /\ calls'[v][i] = calls[v][i]
        \/ v = w /\ i = n
  BY <1>3, <1>5
<1>10. w # None
  BY ManagerAssumption
<1>a. CallIsRequest'
  <2> SUFFICES ASSUME NEW d \in Callers, caller'[d].at \in InCall \cup {"late"}
               PROVE  /\ caller'[d].worker # None
                      /\ caller'[d].id \in DOMAIN calls'[caller'[d].worker]
                      /\ caller'[d].at \in {"called", "writing"} =>
                           calls'[caller'[d].worker][caller'[d].id].wire = "unsent"
    BY DEF CallIsRequest, Call, InCall
  <2>1. CASE d = c
    BY <1>4, <1>5, <1>6, <1>10, <2>1 DEF InCall
  <2>2. CASE d # c
    <3>1. /\ caller'[d] = caller[d] /\ caller[d].worker # None
          /\ caller[d].worker \in Workers /\ caller[d].id \in DOMAIN calls[caller[d].worker]
          /\ caller[d].at \in {"called", "writing"} => Call(d).wire = "unsent"
      BY <1>6, <2>2, <1>0, OwnRequest DEF CallIsRequest
    <3> QED  BY <1>3, <1>5, <1>8, <2>2, <3>1 DEF Call, InCall
  <2> QED  BY <2>1, <2>2
<1>b. AnswerWasGiven'
  BY <1>3, <1>4, <1>5, <1>6, <1>7, <1>8, <1>9, <1>10, <1>0 DEF AnswerWasGiven, Call, InCall
<1>c. AnswersOwnCall'
  <2>1. \A d \in Callers \ {c} : caller'[d].at \in InCall =>
          /\ caller'[d] = caller[d] /\ Call(d)' = Call(d)
          /\ caller'[d].worker = w => caller'[d].id # n
    BY <1>6, <1>8 DEF Call
  <2>2. /\ caller'[c].at = "called" /\ Call(c)'.chan = "empty"
        /\ caller'[c].worker = w /\ caller'[c].id = n
    BY <1>4, <1>5, <1>6 DEF Call
  <2> QED  BY <2>1, <2>2, <1>0 DEF AnswersOwnCall, InCall
<1>d. NoCallIsStranded'
  BY <1>3, <1>4, <1>5, <1>6, <1>7, <1>8, <1>9, <1>10, <1>0 DEF NoCallIsStranded, Call, InCall
<1> QED  BY <1>a, <1>b, <1>c, <1>d DEF CallInv

\* A request is written once, while no answer to it can be there.
LEMMA WritingKeepsCalls ==
  ASSUME RuntimeTypeOK, CallInv, NEW c \in Callers, Writes(c)
  PROVE  CallInv'
<1>0. CallIsRequest /\ AnswerWasGiven /\ AnswersOwnCall /\ NoCallIsStranded
  BY DEF CallInv
<1> DEFINE w == caller[c].worker
           n == caller[c].id
           r == [Call(c) EXCEPT !.wire = "asked"]
<1>1. /\ w \in Workers /\ n \in DOMAIN calls[w] /\ Call(c) \in CallRecord
      /\ caller[c].at = "writing"
  BY OwnRequest, <1>0 DEF Writes, InCall
<1>2. r.wire = "asked" /\ r.chan = Call(c).chan /\ r.pending = Call(c).pending
  BY <1>1 DEF CallRecord
<1> HIDE DEF r
<1>3. /\ caller'[c].at = "waiting" /\ caller'[c].worker = w /\ caller'[c].id = n
      /\ \A d \in Callers \ {c} : caller'[d] = caller[d]
      /\ loop' = loop
  BY DEF Writes, Moves
<1>4. /\ \A v \in Workers : DOMAIN calls'[v] = DOMAIN calls[v]
      /\ \A v \in Workers : \A j \in DOMAIN calls[v] :
           v # w \/ j # n => calls'[v][j] = calls[v][j]
      /\ calls'[w][n] = r
  BY DEF Writes, Changes, r
<1>5. r.pending => Call(c).pending
  BY <1>2
<1>6. Call(c) = calls[w][n]
  BY DEF Call
<1> HIDE DEF w, n
<1>7. \A d \in Callers \ {c} : caller[d].at \in InCall =>
        /\ caller[d].worker # w \/ caller[d].id # n
        /\ caller[d].worker \in Workers /\ caller[d].id \in DOMAIN calls[caller[d].worker]
        /\ calls'[caller[d].worker][caller[d].id] = Call(d)
  <2> SUFFICES ASSUME NEW d \in Callers \ {c}, caller[d].at \in InCall
               PROVE  /\ caller[d].worker # w \/ caller[d].id # n
                      /\ caller[d].worker \in Workers
                      /\ caller[d].id \in DOMAIN calls[caller[d].worker]
                      /\ calls'[caller[d].worker][caller[d].id] = Call(d)
    OBVIOUS
  <2>1. caller[d].worker # w \/ caller[d].id # n
    BY <1>1, <1>0 DEF AnswersOwnCall, w, n, InCall
  <2>2. caller[d].worker \in Workers /\ caller[d].id \in DOMAIN calls[caller[d].worker]
    BY OwnRequest, <1>0
  <2> QED  BY <2>1, <2>2, <1>4 DEF Call
<1>8. w # None
  BY <1>1, ManagerAssumption
<1>9. Call(c).wire = "unsent" /\ Call(c).chan # "answer"
  BY <1>0, <1>1, <1>6 DEF CallIsRequest, AnswerWasGiven, InCall
<1>a. CallIsRequest'
  <2> SUFFICES ASSUME NEW d \in Callers, caller'[d].at \in InCall \cup {"late"}
               PROVE  /\ caller'[d].worker # None
                      /\ caller'[d].id \in DOMAIN calls'[caller'[d].worker]
                      /\ caller'[d].at \in {"called", "writing"} =>
                           calls'[caller'[d].worker][caller'[d].id].wire = "unsent"
    BY DEF CallIsRequest, Call, InCall
  <2>1. CASE d = c
    BY <1>1, <1>3, <1>4, <1>8, <2>1 DEF InCall
  <2>2. CASE d # c
    <3>1. /\ caller'[d] = caller[d] /\ caller[d].worker # None
          /\ caller[d].worker \in Workers /\ caller[d].id \in DOMAIN calls[caller[d].worker]
          /\ caller[d].at \in {"called", "writing"} => Call(d).wire = "unsent"
      BY <1>3, <2>2, <1>0, OwnRequest DEF CallIsRequest
    <3> QED  BY <1>4, <1>7, <2>2, <3>1 DEF Call, InCall
  <2> QED  BY <2>1, <2>2
<1>b. AnswerWasGiven'
  BY <1>1, <1>2, <1>3, <1>4, <1>6, <1>7, <1>8, <1>9, <1>0 DEF AnswerWasGiven, Call, InCall
<1>c. AnswersOwnCall'
  <2>1. \A d \in Callers \ {c} : caller'[d].at \in InCall =>
          /\ caller'[d] = caller[d] /\ Call(d)' = Call(d)
          /\ caller'[d].worker = w => caller'[d].id # n
    BY <1>3, <1>7 DEF Call
  <2>2. /\ caller'[c].at = "waiting" /\ Call(c)'.chan # "answer"
        /\ caller'[c].worker = w /\ caller'[c].id = n
    BY <1>2, <1>3, <1>4, <1>9 DEF Call
  <2> QED  BY <2>1, <2>2, <1>0 DEF AnswersOwnCall, InCall
<1>d. NoCallIsStranded'
  <2>1. \A v \in Workers : \A i \in DOMAIN calls'[v] :
          calls'[v][i].pending => calls'[v][i].chan = "empty"
    BY <1>1, <1>2, <1>4, <1>6, <1>0 DEF NoCallIsStranded
  <2>2. \A d \in Callers \ {c} : caller'[d].at \in InCall =>
          caller'[d] = caller[d] /\ Call(d)' = Call(d)
    BY <1>3, <1>7 DEF Call
  <2>3. /\ Call(c)'.pending = Call(c).pending /\ Call(c)'.chan = Call(c).chan
        /\ caller'[c].worker = caller[c].worker /\ caller[c].at \in InCall
    BY <1>1, <1>2, <1>3, <1>4 DEF Call, w, InCall
  <2> QED  BY <2>1, <2>2, <2>3, <1>3, <1>0 DEF NoCallIsStranded
<1> QED  BY <1>a, <1>b, <1>c, <1>d DEF CallInv

\* A request that is given up is nobody else's.
LEMMA LeavingLateKeepsCalls ==
  ASSUME RuntimeTypeOK, CallInv, NEW c \in Callers, LeavesLate(c)
  PROVE  CallInv'
<1>0. CallIsRequest /\ AnswerWasGiven /\ AnswersOwnCall /\ NoCallIsStranded
  BY DEF CallInv
<1> DEFINE w == caller[c].worker
           n == caller[c].id
           r == [Call(c) EXCEPT !.pending = FALSE]
<1>1. /\ w \in Workers /\ n \in DOMAIN calls[w] /\ Call(c) \in CallRecord
      /\ caller[c].at = "waiting"
  BY OwnRequest, <1>0 DEF LeavesLate, InCall
<1>2. r.wire = Call(c).wire /\ r.chan = Call(c).chan /\ r.pending = FALSE
  BY <1>1 DEF CallRecord
<1> HIDE DEF r
<1>3. /\ caller'[c].at = "late" /\ caller'[c].worker = w /\ caller'[c].id = n
      /\ \A d \in Callers \ {c} : caller'[d] = caller[d]
      /\ loop' = loop
  BY DEF LeavesLate, Moves
<1>4. /\ \A v \in Workers : DOMAIN calls'[v] = DOMAIN calls[v]
      /\ \A v \in Workers : \A j \in DOMAIN calls[v] :
           v # w \/ j # n => calls'[v][j] = calls[v][j]
      /\ calls'[w][n] = r
  BY DEF LeavesLate, Changes, r
<1>5. r.pending => Call(c).pending
  BY <1>2
<1>6. Call(c) = calls[w][n]
  BY DEF Call
<1> HIDE DEF w, n
<1>7. \A d \in Callers \ {c} : caller[d].at \in InCall =>
        /\ caller[d].worker # w \/ caller[d].id # n
        /\ caller[d].worker \in Workers /\ caller[d].id \in DOMAIN calls[caller[d].worker]
        /\ calls'[caller[d].worker][caller[d].id] = Call(d)
  <2> SUFFICES ASSUME NEW d \in Callers \ {c}, caller[d].at \in InCall
               PROVE  /\ caller[d].worker # w \/ caller[d].id # n
                      /\ caller[d].worker \in Workers
                      /\ caller[d].id \in DOMAIN calls[caller[d].worker]
                      /\ calls'[caller[d].worker][caller[d].id] = Call(d)
    OBVIOUS
  <2>1. caller[d].worker # w \/ caller[d].id # n
    BY <1>1, <1>0 DEF AnswersOwnCall, w, n, InCall
  <2>2. caller[d].worker \in Workers /\ caller[d].id \in DOMAIN calls[caller[d].worker]
    BY OwnRequest, <1>0
  <2> QED  BY <2>1, <2>2, <1>4 DEF Call
<1>8. w # None
  BY <1>1, ManagerAssumption
<1>a. CallIsRequest'
  <2> SUFFICES ASSUME NEW d \in Callers, caller'[d].at \in InCall \cup {"late"}
               PROVE  /\ caller'[d].worker # None
                      /\ caller'[d].id \in DOMAIN calls'[caller'[d].worker]
                      /\ caller'[d].at \in {"called", "writing"} =>
                           calls'[caller'[d].worker][caller'[d].id].wire = "unsent"
    BY DEF CallIsRequest, Call, InCall
  <2>1. CASE d = c
    BY <1>1, <1>3, <1>4, <1>8, <2>1 DEF InCall
  <2>2. CASE d # c
    <3>1. /\ caller'[d] = caller[d] /\ caller[d].worker # None
          /\ caller[d].worker \in Workers /\ caller[d].id \in DOMAIN calls[caller[d].worker]
          /\ caller[d].at \in {"called", "writing"} => Call(d).wire = "unsent"
      BY <1>3, <2>2, <1>0, OwnRequest DEF CallIsRequest
    <3> QED  BY <1>4, <1>7, <2>2, <3>1 DEF Call, InCall
  <2> QED  BY <2>1, <2>2
<1>b. AnswerWasGiven'
  BY <1>1, <1>2, <1>3, <1>4, <1>6, <1>7, <1>8, <1>0 DEF AnswerWasGiven, Call, InCall
<1>c. AnswersOwnCall'
  BY <1>1, <1>2, <1>3, <1>4, <1>6, <1>7, <1>8, <1>0 DEF AnswersOwnCall, Call, InCall
<1>d. NoCallIsStranded'
  BY <1>1, <1>2, <1>3, <1>4, <1>6, <1>7, <1>8, <1>0 DEF NoCallIsStranded, Call, InCall
<1> QED  BY <1>a, <1>b, <1>c, <1>d DEF CallInv

\* The answer goes to the request that was asked, if anybody still waits.
LEMMA AnsweringKeepsCalls ==
  ASSUME RuntimeTypeOK, CallInv, NEW w \in Workers, Answers(w)
  PROVE  CallInv'
<1>0. CallIsRequest /\ AnswerWasGiven /\ AnswersOwnCall /\ NoCallIsStranded
  BY DEF CallInv
<1>1. PICK i \in DOMAIN calls[w] :
        /\ calls[w][i].wire = "asked"
        /\ Changes(w, i, [wire |-> "answered", pending |-> FALSE,
                          chan |-> IF calls[w][i].pending THEN "answer" ELSE calls[w][i].chan])
  BY DEF Answers
<1>2. loop' = loop /\ caller' = caller
  BY DEF Answers
<1>3. /\ \A v \in Workers : DOMAIN calls'[v] = DOMAIN calls[v]
      /\ \A v \in Workers : \A j \in DOMAIN calls[v] :
           v # w \/ j # i => calls'[v][j] = calls[v][j]
      /\ calls'[w][i].wire = "answered" /\ calls'[w][i].pending = FALSE
      /\ calls'[w][i].chan = IF calls[w][i].pending THEN "answer" ELSE calls[w][i].chan
  BY <1>1 DEF Changes
<1>4. \A c \in Callers : caller[c].at \in InCall \cup {"late"} =>
        caller[c].worker \in Workers /\ caller[c].id \in DOMAIN calls[caller[c].worker]
  BY OwnRequest, <1>0
<1>5. \A c \in Callers : caller[c].at \in {"called", "writing"} =>
        caller[c].worker # w \/ caller[c].id # i
  BY <1>0, <1>1 DEF CallIsRequest, Call, InCall
<1>a. CallIsRequest'
  BY <1>1, <1>2, <1>3, <1>4, <1>5, <1>0 DEF CallIsRequest, Call, InCall
<1>b. AnswerWasGiven'
  BY <1>1, <1>2, <1>3, <1>4, <1>5, <1>0 DEF AnswerWasGiven, Call, InCall
<1>c. AnswersOwnCall'
  BY <1>1, <1>2, <1>3, <1>4, <1>5, <1>0 DEF AnswersOwnCall, Call, InCall
<1>d. NoCallIsStranded'
  BY <1>1, <1>2, <1>3, <1>4, <1>5, <1>0 DEF NoCallIsStranded, Call, InCall
<1> QED  BY <1>a, <1>b, <1>c, <1>d DEF CallInv

\* The end of the loop closes the channels that are waited for, and leaves the rest.
LEMMA DrainingKeepsCalls ==
  ASSUME RuntimeTypeOK, CallInv, NEW w \in Workers, Drains(w)
  PROVE  CallInv'
<1>0. CallIsRequest /\ AnswerWasGiven /\ AnswersOwnCall /\ NoCallIsStranded
  BY DEF CallInv
<1>1. /\ loop'[w] = "ended" /\ \A v \in Workers \ {w} : loop'[v] = loop[v]
      /\ caller' = caller
  BY DEF Drains, RuntimeTypeOK
<1>2. /\ \A v \in Workers \ {w} : calls'[v] = calls[v]
      /\ calls'[w] = [i \in DOMAIN calls[w] |->
           IF calls[w][i].pending THEN [calls[w][i] EXCEPT !.pending = FALSE, !.chan = "closed"]
           ELSE calls[w][i]]
  BY DEF Drains, RuntimeTypeOK
<1>3. \A v \in Workers : DOMAIN calls'[v] = DOMAIN calls[v]
  BY <1>2
<1>4. \A v \in Workers : \A i \in DOMAIN calls[v] :
        \/ calls'[v][i] = calls[v][i] /\ (v # w \/ ~calls[v][i].pending)
        \/ /\ v = w /\ ~calls'[v][i].pending /\ calls'[v][i].chan = "closed"
           /\ calls'[v][i].wire = calls[v][i].wire
  <2>1. ASSUME NEW i \in DOMAIN calls[w], calls[w][i].pending
        PROVE  /\ ~calls'[w][i].pending /\ calls'[w][i].chan = "closed"
               /\ calls'[w][i].wire = calls[w][i].wire
    <3>1. calls'[w][i] = [calls[w][i] EXCEPT !.pending = FALSE, !.chan = "closed"]
      BY <1>2, <2>1
    <3>2. calls[w][i] \in CallRecord
      BY RequestTyped
    <3> QED  BY <3>1, <3>2 DEF CallRecord
  <2>2. \A i \in DOMAIN calls[w] : ~calls[w][i].pending => calls'[w][i] = calls[w][i]
    BY <1>2
  <2> QED  BY <1>2, <2>1, <2>2
<1>5. \A c \in Callers : caller[c].at \in InCall \cup {"late"} =>
        caller[c].worker \in Workers /\ caller[c].id \in DOMAIN calls[caller[c].worker]
  BY OwnRequest, <1>0
<1>a. CallIsRequest'
  BY <1>1, <1>3, <1>4, <1>5, <1>0 DEF CallIsRequest, Call, InCall
<1>b. AnswerWasGiven'
  BY <1>1, <1>3, <1>4, <1>5, <1>0 DEF AnswerWasGiven, Call, InCall
<1>c. AnswersOwnCall'
  BY <1>1, <1>3, <1>4, <1>5, <1>0 DEF AnswersOwnCall, Call, InCall
<1>d. NoCallIsStranded'
  BY <1>1, <1>3, <1>4, <1>5, <1>0 DEF NoCallIsStranded, Call, InCall
<1> QED  BY <1>a, <1>b, <1>c, <1>d DEF CallInv

\* Every step keeps the exchange sound.
LEMMA StepKeepsCalls ==
  ASSUME RuntimeTypeOK, CallInv, ExchangeStep
  PROVE  CallInv'
<1>1. CASE UNCHANGED <<loop, calls, caller>>
  BY <1>1 DEF CallInv, CallIsRequest, AnswerWasGiven, AnswersOwnCall, NoCallIsStranded, Call
<1> QED
  BY <1>1, LeavingKeepsCalls, HoldingKeepsCalls, AskingKeepsCalls, WritingKeepsCalls,
     LeavingLateKeepsCalls, AnsweringKeepsCalls, DrainingKeepsCalls DEF ExchangeStep

-----------------------------------------------------------------------------
(* Types, and the theorems *)

\* The requests of a worker stay requests, whatever the end of the loop does.
LEMMA DrainedTyped ==
  ASSUME NEW s \in Seq(CallRecord)
  PROVE  [i \in DOMAIN s |->
            IF s[i].pending THEN [s[i] EXCEPT !.pending = FALSE, !.chan = "closed"]
            ELSE s[i]] \in Seq(CallRecord)
<1> DEFINE R == CallRecord
           after(r) == IF r.pending THEN [r EXCEPT !.pending = FALSE, !.chan = "closed"] ELSE r
<1>1. \A r \in R : after(r) \in R
  BY DEF CallRecord
<1>2. s \in Seq(R)
  OBVIOUS
<1> HIDE DEF R, after
<1>3. [i \in DOMAIN s |-> after(s[i])] \in Seq(R)
  <2>1. DOMAIN s = 1..Len(s) /\ Len(s) \in Nat /\ \A i \in DOMAIN s : s[i] \in R
    BY <1>2
  <2> QED  BY <1>1, <2>1
<1> QED  BY <1>3 DEF R, after

\* The requests and the loop keep their types.
LEMMA CallsTyped ==
  ASSUME RuntimeTypeOK, CallIsRequest, ExchangeStep
  PROVE  /\ calls' \in [Workers -> Seq(CallRecord)]
         /\ loop' \in [Workers -> {"reading", "ended"}]
<1> DEFINE Requests == Seq(CallRecord)
<1>1. calls \in [Workers -> Requests] /\ loop \in [Workers -> {"reading", "ended"}]
  BY DEF RuntimeTypeOK
<1>2. CASE \E c \in Callers : LeavesCalls(c) \/ HoldsCall(c)
  BY <1>1, <1>2 DEF LeavesCalls, HoldsCall
<1>3. CASE \E c \in Callers : Asks(c)
  <2>1. PICK w \in Workers :
          /\ calls' = [calls EXCEPT ![w] =
               Append(@, [wire |-> "unsent", chan |-> "empty", pending |-> TRUE])]
          /\ UNCHANGED loop
    BY <1>3 DEF Asks
  <2> DEFINE s == Append(calls[w], [wire |-> "unsent", chan |-> "empty", pending |-> TRUE])
  <2>2. s \in Requests
    <3>1. [wire |-> "unsent", chan |-> "empty", pending |-> TRUE] \in CallRecord
      BY DEF CallRecord
    <3>2. calls[w] \in Seq(CallRecord)
      BY <1>1
    <3> QED  BY <3>1, <3>2, Appended
  <2>3. calls' = [calls EXCEPT ![w] = s]
    BY <2>1
  <2> HIDE DEF s, Requests
  <2> QED  BY <1>1, <2>1, <2>2, <2>3 DEF Requests
<1>4. CASE \E c \in Callers : Writes(c) \/ LeavesLate(c)
  BY <1>1, <1>4 DEF Writes, LeavesLate, Changes
<1>5. CASE \E w \in Workers : Answers(w)
  BY <1>1, <1>5 DEF Answers, Changes
<1>6. CASE \E w \in Workers : Drains(w)
  <2>1. PICK w \in Workers : Drains(w)
    BY <1>6
  <2> DEFINE s == [i \in DOMAIN calls[w] |->
           IF calls[w][i].pending THEN [calls[w][i] EXCEPT !.pending = FALSE, !.chan = "closed"]
           ELSE calls[w][i]]
  <2>2. s \in Requests
    BY <1>1, DrainedTyped
  <2>3. calls' = [calls EXCEPT ![w] = s]
    BY <2>1 DEF Drains
  <2>4. loop' \in [Workers -> {"reading", "ended"}]
    BY <1>1, <2>1 DEF Drains
  <2> HIDE DEF s, Requests
  <2>5. calls' \in [Workers -> Requests]
    BY <1>1, <2>2, <2>3
  <2> QED  BY <2>4, <2>5 DEF Requests
<1>7. CASE UNCHANGED <<loop, calls, caller>>
  BY <1>1, <1>7
<1> QED  BY <1>2, <1>3, <1>4, <1>5, <1>6, <1>7 DEF ExchangeStep

\* The part of the types that the registry's steps change.
RegistryTypeOK ==
  /\ entries \in [Keys -> Workers \cup {None}]
  /\ proc \in [Workers -> {"none", "live", "killed", "exited"}]
  /\ lease \in [Workers -> {"none", "held", "released"}]
  /\ launch \in [Workers -> {"none", "launching", "ready", "failed"}]
  /\ caller \in [Callers -> CallerState]

\* The registry and the goroutines keep their types.
LEMMA RegistryTyped ==
  ASSUME RuntimeTypeOK, StarterOwns, RegistryStep
  PROVE  RegistryTypeOK'
<1>0. RegistryTypeOK
  BY DEF RuntimeTypeOK, RegistryTypeOK
<1>1. ASSUME NEW c \in Callers, LeavesRegistry(c) PROVE RegistryTypeOK'
  BY <1>0, <1>1 DEF LeavesRegistry, registry, Moves, RegistryTypeOK
<1>2. ASSUME NEW c \in Callers, Starts(c) PROVE RegistryTypeOK'
  BY <1>0, <1>2 DEF Starts, Moves, RegistryTypeOK
<1>3. ASSUME NEW c \in Callers, GivesUpStart(c) PROVE RegistryTypeOK'
  BY <1>0, <1>3 DEF GivesUpStart, Moves, RegistryTypeOK
<1>4. ASSUME NEW c \in Callers, Records(c) PROVE RegistryTypeOK'
  BY <1>0, <1>4 DEF Records, Moves, RegistryTypeOK
<1>5. ASSUME NEW c \in Callers, Registers(c) PROVE RegistryTypeOK'
  <2>1. caller[c].worker \in Workers
    BY <1>5, StartedWorker DEF Registers
  <2> QED  BY <1>0, <1>5, <2>1 DEF Registers, Moves, RegistryTypeOK
<1>6. ASSUME NEW c \in Callers, TakesOut(c) PROVE RegistryTypeOK'
  BY <1>0, <1>6 DEF TakesOut, Moves, RegistryTypeOK
<1>7. ASSUME NEW c \in Callers, Kills(c) PROVE RegistryTypeOK'
  <2>1. PICK w \in caller[c].victims :
          /\ proc' = [proc EXCEPT ![w] = IF @ = "live" THEN "killed" ELSE @]
          /\ lease' = [lease EXCEPT ![w] = "released"]
          /\ UNCHANGED <<entries, launch>>
          /\ caller' \in [Callers -> CallerState]
    BY <1>7 DEF Kills, Moves
  <2>2. w \in Workers
    BY CallerTyped
  <2> QED  BY <1>0, <2>1, <2>2 DEF RegistryTypeOK
<1>8. CASE MachineStep
  BY <1>0, <1>8 DEF MachineStep, RegistryTypeOK
<1> QED  BY <1>1, <1>2, <1>3, <1>4, <1>5, <1>6, <1>7, <1>8 DEF RegistryStep

\* The mutex is held by a goroutine or by nobody.
LEMMA WriterTyped ==
  ASSUME RuntimeTypeOK, [Next]_vars
  PROVE  writer' \in [Workers -> Callers \cup {None}]
<1>0. writer \in [Workers -> Callers \cup {None}]
  BY DEF RuntimeTypeOK
<1>1. CASE \E c \in Callers : CallStep(c)
  BY <1>0, <1>1 DEF CallStep, StartCall, MissingWorker, LockWrite, Write, WriteFails,
     TakeAnswer, WorkerGone, TimeOut, rpc
<1>2. CASE \E c \in Callers : EnsureStep(c)
  BY <1>0, <1>2 DEF EnsureStep, Spawn, SpawnFails, ExitedEarly, RecordReady, RecordFails,
     Register, rpc
<1>3. CASE \E c \in Callers : StopStep(c)
  <2>1. ASSUME NEW c \in Callers, NEW ks, StopKeys(c, ks) PROVE writer' = writer
    BY <2>1 DEF StopKeys, rpc
  <2>2. ASSUME NEW c \in Callers, KillAndRelease(c) PROVE writer' = writer
    BY <2>2 DEF KillAndRelease, rpc
  <2> QED  BY <1>0, <1>3, <2>1, <2>2 DEF StopStep, Stop, StopAll, StopLate
<1>4. CASE \E c \in Callers, k \in Keys : Ensure(c, k, "probe") \/ BeginCall(c, k)
  BY <1>0, <1>4 DEF Ensure, BeginCall, rpc
<1>5. CASE \E w \in Workers : Exit(w) \/ ReadAnswer(w) \/ EndLoop(w)
  BY <1>0, <1>5 DEF Exit, ReadAnswer, EndLoop, rpc
<1>6. CASE UNCHANGED vars
  BY <1>0, <1>6 DEF vars
<1> QED  BY <1>1, <1>2, <1>3, <1>4, <1>5, <1>6 DEF Next

(***************************************************************************)
(* The inductive invariant holds at first.                                 *)
(***************************************************************************)
LEMMA InitInv ==
  ASSUME Init
  PROVE  ManagerInv
<1> USE ManagerAssumption
<1>1. \A c \in Callers :
        /\ caller[c] \in [at : {"idle"}, why : {"stop"}, key : Keys, worker : {None},
                          id : {0}, victims : {{}}]
        /\ caller[c].at = "idle" /\ caller[c].worker = None /\ caller[c].victims = {}
  BY DEF Init
<1>2. /\ \A k \in Keys : entries[k] = None
      /\ \A w \in Workers : proc[w] = "none" /\ calls[w] = <<>>
  BY DEF Init
<1>3. RuntimeTypeOK
  <2>1. RegistryTypeOK
    BY DEF Init, RegistryTypeOK, CallerState, Steps
  <2>2. /\ loop \in [Workers -> {"reading", "ended"}]
        /\ writer \in [Workers -> Callers \cup {None}]
    BY DEF Init
  <2>3. calls \in [Workers -> Seq(CallRecord)]
    <3> DEFINE R == CallRecord
    <3> HIDE DEF R
    <3>1. calls \in [Workers -> Seq(R)]
      BY DEF Init
    <3> QED  BY <3>1 DEF R
  <2> QED  BY <2>1, <2>2, <2>3 DEF RuntimeTypeOK, RegistryTypeOK
<1>4. RegistryInv
  BY <1>1, <1>2 DEF RegistryInv, FreshIsNobodys, StarterOwns, OneKeyPerWorker,
     RegisteredIsWhole, VictimsApart
<1>5. CallInv
  BY <1>1, <1>2 DEF CallInv, CallIsRequest, AnswerWasGiven, AnswersOwnCall, NoCallIsStranded,
     InCall
<1> QED  BY <1>3, <1>4, <1>5 DEF ManagerInv

(***************************************************************************)
(* Every step keeps it.                                                    *)
(***************************************************************************)
LEMMA StepInv ==
  ASSUME ManagerInv, [Next]_vars
  PROVE  ManagerInv'
<1>1. RuntimeTypeOK /\ RegistryInv /\ CallInv /\ StarterOwns /\ CallIsRequest
  BY DEF ManagerInv, RegistryInv, CallInv
<1>2. RegistryStep /\ ExchangeStep
  BY <1>1, RegistrySteps, ExchangeSteps
<1>3. RuntimeTypeOK'
  BY <1>1, <1>2, RegistryTyped, CallsTyped, WriterTyped DEF RuntimeTypeOK, RegistryTypeOK
<1>4. RegistryInv' /\ CallInv'
  BY <1>1, <1>2, StepKeepsRegistry, StepKeepsCalls
<1> QED  BY <1>3, <1>4 DEF ManagerInv

\* Hence it holds at every step.
LEMMA Invariant == Spec => []ManagerInv
<1>1. Init => ManagerInv
  BY InitInv
<1>2. ManagerInv /\ [Next]_vars => ManagerInv'
  BY StepInv
<1> QED  BY <1>1, <1>2, PTL DEF Spec

(***************************************************************************)
(* The registry hands out no worker that a stop has killed or is about to, *)
(* however many goroutines ensure, call and stop at once.                  *)
(***************************************************************************)
THEOREM RegistryStaysSound == Spec => []RegistryIsSound
<1>1. ManagerInv => RegistryIsSound
  BY DEF ManagerInv, RegistryInv, RegisteredIsWhole, VictimsApart, RegistryIsSound
<1> QED  BY <1>1, Invariant, PTL

(***************************************************************************)
(* An answer reaches the call it answers and no other, whatever timed out  *)
(* before.                                                                 *)
(***************************************************************************)
THEOREM AnswersFindTheirCall == Spec => []AnswersOwnCall
<1>1. ManagerInv => AnswersOwnCall
  BY DEF ManagerInv, CallInv
<1> QED  BY <1>1, Invariant, PTL

(***************************************************************************)
(* No channel is closed twice, and no caller waits on one that nobody can  *)
(* reach.                                                                  *)
(***************************************************************************)
THEOREM CallersAreReached == Spec => []NoCallIsStranded
<1>1. ManagerInv => NoCallIsStranded
  BY DEF ManagerInv, CallInv
<1> QED  BY <1>1, Invariant, PTL
=============================================================================
