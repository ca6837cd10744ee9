-------------------------- MODULE IdempotentRequests --------------------------
(***************************************************************************)
(* Requests that carry one idempotency key: the interceptor looks the key  *)
(* up in the cache, marks it, runs the handler and then, without waiting,  *)
(* stores the response or removes the mark.  The cache's get and set are   *)
(* two calls.                                                              *)
(***************************************************************************)
EXTENDS Naturals, FiniteSets

CONSTANTS Retries,  \* the requests with the key: a client's call and its retries
          Unkeyed,  \* not a request: what the cache holds of nobody
          KeyPlots  \* [age: may time pass, crashes: requests that may die, cacheFaults, failures: of handlers]

ASSUME RetriesAssumption == Unkeyed \notin Retries

VARIABLES entry,    \* the key in the cache: [is: none, fresh, stale, body; by: the request that wrote it]
          saw,      \* request -> the entry it read
          retry,    \* request -> new, looked, running, storing, clearing, ended
          reply,    \* request -> none, refused, failed, done, or replayed with the request it repeats
          effects,  \* requests whose handler committed
          keyPlot,  \* the plot, and the crashes and faults left
          slipped   \* history: two were beside one another unseen, or the key was lost

keyVars == <<entry, saw, retry, reply, effects, keyPlot, slipped>>

Nobody == [is |-> "none", by |-> Unkeyed]
NoReply == [is |-> "none", of |-> Unkeyed]
KeyInit ==
  /\ keyPlot \in KeyPlots
  /\ entry = Nobody
  /\ saw = [r \in Retries |-> Nobody]
  /\ retry = [r \in Retries |-> "new"]
  /\ reply = [r \in Retries |-> NoReply]
  /\ effects = {}
  /\ slipped = FALSE

Step(r, to) == retry' = [retry EXCEPT ![r] = to]
Answer(r, is, of) == reply' = [reply EXCEPT ![r] = [is |-> is, of |-> of]]
Spend(what) == keyPlot[what] > 0 /\ keyPlot' = [keyPlot EXCEPT ![what] = @ - 1]
----------------------------------------------------------------------------
\* cacheUtils.get: go on, refuse or repeat the response.
Look(r) ==
  /\ retry[r] = "new"
  /\ saw' = [saw EXCEPT ![r] = entry]
  /\ Step(r, CASE entry.is = "fresh" -> "ended" [] entry.is = "body" -> "ended" [] OTHER -> "looked")
  /\ CASE entry.is = "fresh" -> Answer(r, "refused", Unkeyed)
       [] entry.is = "body" -> Answer(r, "replayed", entry.by)
       [] OTHER -> UNCHANGED reply
  /\ UNCHANGED <<entry, effects, keyPlot, slipped>>

\* The mark overwrites whatever is there by now.
Mark(r) ==
  /\ retry[r] = "looked"
  /\ entry' = [is |-> "fresh", by |-> r]
  /\ slipped' = (slipped \/ entry # saw[r])
  /\ Step(r, "running")
  /\ UNCHANGED <<saw, reply, effects, keyPlot>>

\* The cache cannot be reached before the handler has run: the request fails.
CacheDown(r) ==
  /\ retry[r] \in {"new", "looked"}
  /\ Spend("cacheFaults")
  /\ Answer(r, "failed", Unkeyed)
  /\ Step(r, "ended")
  /\ UNCHANGED <<entry, saw, effects, slipped>>

HandlerSucceeds(r) ==
  /\ retry[r] = "running"
  /\ effects' = effects \cup {r}
  /\ Answer(r, "done", r)
  /\ Step(r, "storing")
  /\ UNCHANGED <<entry, saw, keyPlot, slipped>>

HandlerFails(r) ==
  /\ retry[r] = "running"
  /\ Spend("failures")
  /\ Answer(r, "failed", Unkeyed)
  /\ Step(r, "clearing")
  /\ UNCHANGED <<entry, saw, effects, slipped>>

\* Mutation: the mark is removed after every answer.
ClearedAfterwards(r) == Nobody

Stored(r) == [is |-> "body", by |-> r]

StoreResponse(r) ==
  /\ retry[r] = "storing"
  /\ entry' = Stored(r)
  /\ Step(r, "ended")
  /\ UNCHANGED <<saw, reply, effects, keyPlot, slipped>>

\* del removes the key, also when another request has written it.
ClearMark(r) ==
  /\ retry[r] = "clearing"
  /\ entry' = Nobody
  /\ slipped' = (slipped \/ entry.by \notin {r, Unkeyed})
  /\ Step(r, "ended")
  /\ UNCHANGED <<saw, reply, effects, keyPlot>>

\* The write after the answer fails and is only logged.
CacheWriteFails(r) ==
  /\ retry[r] \in {"storing", "clearing"}
  /\ Spend("cacheFaults")
  /\ Step(r, "ended")
  /\ slipped' = (slipped \/ retry[r] = "storing")
  /\ UNCHANGED <<entry, saw, reply, effects>>

\* The process ends: before the handler committed nothing but the mark is left.
RequestCrashes(r) ==
  /\ retry[r] \in {"looked", "running", "storing", "clearing"}
  /\ Spend("crashes")
  /\ Step(r, "ended")
  /\ slipped' = (slipped \/ retry[r] = "storing")
  /\ UNCHANGED <<entry, saw, reply, effects>>

\* After 30 seconds a mark counts as stale, after a minute it is gone, a response after a day.
Ages(from, to) ==
  /\ keyPlot.age
  /\ entry.is = from
  /\ entry' = [entry EXCEPT !.is = to]
  /\ slipped' = (slipped \/ from = "body" \/ retry[entry.by] \in {"running", "storing"})
  /\ UNCHANGED <<saw, retry, reply, effects, keyPlot>>

KeyNext ==
  \/ \E r \in Retries : \/ Look(r) \/ Mark(r) \/ CacheDown(r) \/ HandlerSucceeds(r) \/ HandlerFails(r)
                        \/ StoreResponse(r) \/ ClearMark(r) \/ CacheWriteFails(r) \/ RequestCrashes(r)
  \/ Ages("fresh", "stale") \/ Ages("stale", "none") \/ Ages("body", "none")

KeySpec == KeyInit /\ [][KeyNext]_keyVars
----------------------------------------------------------------------------
KeyTypeOK ==
  /\ entry \in [is : {"none", "fresh", "stale", "body"}, by : Retries \cup {Unkeyed}]
  /\ saw \in [Retries -> [is : {"none", "fresh", "stale", "body"}, by : Retries \cup {Unkeyed}]]
  /\ retry \in [Retries -> {"new", "looked", "running", "storing", "clearing", "ended"}]
  /\ reply \in [Retries -> [is : {"none", "refused", "failed", "done", "replayed"}, of : Retries \cup {Unkeyed}]]
  /\ effects \subseteq Retries /\ slipped \in BOOLEAN

(* "retries could cause duplicate financial records": unless two requests  *)
(* came between one another's get and set, a mark grew old under a running *)
(* request, or a finished request lost its response, the handler commits   *)
(* once.  A response is repeated only of a request that committed.         *)
HandledOnce ==
  /\ ~slipped => Cardinality(effects) <= 1
  /\ \A r \in Retries : reply[r].is = "replayed" => reply[r].of \in effects
==============================================================================
