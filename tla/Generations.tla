----------------------------- MODULE Generations -----------------------------
(***************************************************************************)
(* Texts a language model generates for the requests of a process:         *)
(* _run_cached_generation.  A text is kept for a minute; while it is being *)
(* generated, requests for the same text await the task of the first one,  *)
(* the leader.  Cancelling any of those that wait cancels the task, as     *)
(* awaiting an asyncio task does, and everyone who awaits it.              *)
(***************************************************************************)
EXTENDS TenantRequests

CONSTANTS
    Keys,       \* what is asked of the model: the prefix and the digest of its payload
    Texts       \* what it may answer; the fallback text, when it fails, is one of them

ASSUME NullAssumption == NULL \notin [leader: Reqs, running: BOOLEAN, text: Texts \cup {NULL}]

VARIABLES
    cache,      \* _generation_cache: key -> text, NULL when absent or expired
    inflight    \* _inflight_generations: key -> the task, [leader, running, text], or NULL

generationVars == <<cache, inflight>>

GenerationsInit ==
    /\ cache = [k \in Keys |-> NULL]
    /\ inflight = [k \in Keys |-> NULL]

Running(k) == inflight[k] # NULL /\ inflight[k].running
Awaiters(k) == {r \in Reqs : At(r, "await_text") /\ req[r].key = k}

(* A handler that wants the text of key k; it goes on at next, with the    *)
(* text in req[r].text.                                                    *)
Asking(local, k, next) == [local EXCEPT !.pc = "ask", !.key = k, !.next = next]
Got(local, text) == [local EXCEPT !.pc = local.next, !.text = text]
Awaiting(local, l) == [local EXCEPT !.pc = "await_text", !.leader = l]

Lead(r, k) ==
    /\ inflight' = [inflight EXCEPT ![k] = [leader |-> r, running |-> TRUE, text |-> NULL]]
    /\ Keep(r, Awaiting(req[r], r))

(* A kept text is returned, a task under way awaited, a new one started:   *)
(* nothing else runs in between.                                           *)
Ask(r) ==
    LET k == req[r].key IN
    /\ At(r, "ask")
    /\ \/ /\ cache[k] # NULL
          /\ Keep(r, Got(req[r], cache[k]))
          /\ UNCHANGED inflight
       \/ /\ cache[k] = NULL /\ Running(k)
          /\ Keep(r, Awaiting(req[r], inflight[k].leader))
          /\ UNCHANGED inflight
       \/ /\ cache[k] = NULL /\ inflight[k] # NULL /\ ~Running(k)
          /\ IF inflight[k].text = NULL THEN Raised(r) ELSE Keep(r, Got(req[r], inflight[k].text))
          /\ UNCHANGED inflight
       \/ cache[k] = NULL /\ inflight[k] = NULL /\ Lead(r, k)
    /\ UNCHANGED cache

(* Mutant: only the leader is woken.                                       *)
EndsForLeader(k, text) ==
    /\ Running(k)
    /\ inflight' = [inflight EXCEPT ![k].running = FALSE, ![k].text = text]
    /\ req' = [req EXCEPT ![inflight[k].leader] = [@ EXCEPT !.pc = "wake", !.text = text]]
    /\ UNCHANGED cache

(* The task ends, with a text or, cancelled, without one, and wakes all    *)
(* who await it.                                                           *)
Ends(k, text) ==
    /\ Running(k)
    /\ inflight' = [inflight EXCEPT ![k].running = FALSE, ![k].text = text]
    /\ req' = [r \in Reqs |-> IF r \in Awaiters(k)
                              THEN [req[r] EXCEPT !.pc = "wake", !.text = text] ELSE req[r]]
    /\ UNCHANGED cache

(* The model answers or the 45 seconds of its client are over: either way  *)
(* the task has a text.                                                    *)
Generate(k) == \E t \in Texts : Ends(k, t)

(* A client gives up, or the server is told to stop: the request is        *)
(* cancelled, the task it awaits with it, and all who await that.          *)
CancelAwait(r) ==
    /\ Failures
    /\ At(r, "await_text")
    /\ Ends(req[r].key, NULL)

TakenOff(k, r) == IF inflight[k] # NULL /\ inflight[k].leader = r THEN NULL ELSE inflight[k]

(* Mutant: the task is only taken off the table when it has a text.        *)
WakeWithoutFinally(r) ==
    LET k == req[r].key
        text == req[r].text
        leads == req[r].leader = r /\ text # NULL IN
    /\ At(r, "wake")
    /\ Keep(r, IF text = NULL THEN Idle ELSE Got(req[r], text))
    /\ cache' = IF leads THEN [cache EXCEPT ![k] = text] ELSE cache
    /\ inflight' = IF leads THEN [inflight EXCEPT ![k] = TakenOff(k, r)] ELSE inflight

(* Those who awaited the task resume.  The leader keeps its text for       *)
(* others, and takes the task off the table in any case.                   *)
Wake(r) ==
    LET k == req[r].key
        text == req[r].text
        leads == req[r].leader = r IN
    /\ At(r, "wake")
    /\ Keep(r, IF text = NULL THEN Idle ELSE Got(req[r], text))
    /\ cache' = IF leads /\ text # NULL THEN [cache EXCEPT ![k] = text] ELSE cache
    /\ inflight' = IF leads THEN [inflight EXCEPT ![k] = TakenOff(k, r)] ELSE inflight

(* A minute passes.                                                        *)
Expire(k) ==
    /\ cache[k] # NULL
    /\ cache' = [cache EXCEPT ![k] = NULL]
    /\ UNCHANGED <<inflight, req>>
=============================================================================
