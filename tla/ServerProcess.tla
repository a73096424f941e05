---------------------------- MODULE ServerProcess ----------------------------
(***************************************************************************)
(* The API's process: it starts, listens, takes requests from connections  *)
(* that may never finish theirs, counts the failures of those that need no *)
(* sign-in, and shuts down when it is signalled.                           *)
(***************************************************************************)
EXTENDS Integers, FiniteSets

CONSTANTS
    Connections,
    limit,          \* LOGIN_RATE_LIMIT_MAX_ATTEMPTS
    countSuccesses, \* the limiter's option: TRUE of /password-reset alone
    MaxServed       \* requests begun in a window, for TLC

ASSUME ProcessAssumption ==
    limit \in Nat \ {0} /\ countSuccesses \in BOOLEAN /\ MaxServed \in Nat

VARIABLES
    phase,
    exitCode,
    signalled,
    grace,          \* the timer of the shutdown: "off", "set", "over"
    sockets,
    handlers,       \* what a request is doing; it goes on after its socket is closed
    hits,           \* the limiter's count for the caller
    failures,       \* history: those begun and answered in this window, and still counted
    begun,          \* history: requests begun in this window
    carried,        \* history: begun in an earlier window and not answered by its end
    spared          \* history: successes of such, taken off this window's count

processVars ==
    <<phase, exitCode, signalled, grace, sockets, handlers, hits, failures, begun, carried,
      spared>>

NotEnded == -1

\* What a shell reports of a process a signal ended (it depends on the signal).
BySignal == 143

ProcessTypeOK ==
    /\ phase \in {"starting", "listening", "stopping", "disconnecting", "ended"}
    /\ exitCode \in {NotEnded, 0, 1, BySignal}
    /\ signalled \in BOOLEAN
    /\ grace \in {"off", "set", "over"}
    /\ sockets \in [Connections -> {"none", "new", "busy", "idle"}]
    /\ handlers \in [Connections -> {"none", "public", "authenticated"}]
    /\ hits \in Nat /\ failures \in Nat /\ begun \in Nat
    /\ carried \subseteq Connections
    /\ spared \in Nat

ProcessInit ==
    /\ phase = "starting"
    /\ exitCode = NotEnded
    /\ signalled = FALSE
    /\ grace = "off"
    /\ sockets = [c \in Connections |-> "none"]
    /\ handlers = [c \in Connections |-> "none"]
    /\ hits = 0 /\ failures = 0 /\ begun = 0 /\ carried = {} /\ spared = 0

limiterVars == <<hits, failures, begun, carried, spared>>

requestVars == <<sockets, handlers, limiterVars>>

-----------------------------------------------------------------------------
(* Starting and ending *)

ends(code) == phase' = "ended" /\ exitCode' = code

(* readEnv, then the client build is looked for, then the port is listened on:
   whichever is refused, the process ends before it takes a request. *)
Start ==
    /\ phase = "starting"
    /\ \/ phase' = "listening" /\ UNCHANGED exitCode
       \/ ends(1)
    /\ UNCHANGED <<signalled, grace, requestVars>>

(* Mutant: sockets with a request are left out here too. *)
closedByForce_idleOnly == {c \in Connections : sockets[c] = "idle"}

closedByForce == Connections

closes(these) == sockets' = [c \in Connections |-> IF c \in these THEN "none" ELSE sockets[c]]

(* Before the handlers are registered a signal ends the process at once.  The
   first one after that starts the shutdown, and later ones wait for it. *)
Signal ==
    /\ phase # "ended"
    /\ signalled' = TRUE
    /\ CASE phase = "starting" -> ends(BySignal) /\ UNCHANGED <<grace, sockets>>
         [] phase = "listening" ->
              /\ phase' = "stopping"
              /\ grace' = "set"
              /\ closes({c \in Connections : sockets[c] = "idle"})
              /\ UNCHANGED exitCode
         [] OTHER -> UNCHANGED <<phase, exitCode, grace, sockets>>
    /\ UNCHANGED <<handlers, limiterVars>>

ForceClose ==
    /\ phase = "stopping" /\ grace = "set"
    /\ grace' = "over"
    /\ closes(closedByForce)
    /\ UNCHANGED <<phase, exitCode, signalled, handlers, limiterVars>>

(* The server has closed: nothing listens, and no socket is left. *)
AllClosed ==
    /\ phase = "stopping"
    /\ \A c \in Connections : sockets[c] = "none"
    /\ phase' = "disconnecting"
    /\ grace' = "off"
    /\ UNCHANGED <<exitCode, signalled, requestVars>>

(* The pool waits for the connections that are in use. *)
Disconnect ==
    /\ phase = "disconnecting"
    /\ \A c \in Connections : handlers[c] = "none"
    /\ \E code \in {0, 1} : ends(code)
    /\ UNCHANGED <<signalled, grace, requestVars>>

(* An exception or a rejection nobody caught. *)
Crash ==
    /\ phase \in {"listening", "stopping", "disconnecting"}
    /\ ends(1)
    /\ UNCHANGED <<signalled, grace, requestVars>>

-----------------------------------------------------------------------------
(* Requests *)

serving == phase \in {"listening", "stopping", "disconnecting"}

Connect(c) ==
    /\ phase = "listening"
    /\ sockets[c] = "none" /\ handlers[c] = "none"
    /\ sockets' = [sockets EXCEPT ![c] = "new"]
    /\ UNCHANGED <<phase, exitCode, signalled, grace, handlers, limiterVars>>

(* Mutant: the limit is one too many. *)
admitted_oneMore(n) == n =< limit

admitted(n) == n < limit

(* An open connection is served until its socket is closed.  A request of a
   route that needs no sign-in is counted as it begins; past the limit it is
   refused at once. *)
Request(c, kind) ==
    /\ serving
    /\ sockets[c] \in {"new", "idle"} /\ handlers[c] = "none"
    /\ begun < MaxServed
    /\ begun' = begun + 1
    /\ IF kind = "public"
       THEN /\ hits' = hits + 1
            /\ IF admitted(hits)
               THEN /\ handlers' = [handlers EXCEPT ![c] = kind]
                    /\ sockets' = [sockets EXCEPT ![c] = "busy"]
               ELSE UNCHANGED <<handlers, sockets>>
       ELSE /\ handlers' = [handlers EXCEPT ![c] = kind]
            /\ sockets' = [sockets EXCEPT ![c] = "busy"]
            /\ UNCHANGED hits
    /\ UNCHANGED <<phase, exitCode, signalled, grace, failures, carried, spared>>

uncounted(n) == IF n > 0 THEN n - 1 ELSE 0

(* Answered, or refused by the one error handler; a success that could still be
   sent is taken off the count, where the route does not count those too.  Once
   the server is closing, its connection need not be kept. *)
Answered(c) ==
    /\ serving
    /\ handlers[c] # "none"
    /\ handlers' = [handlers EXCEPT ![c] = "none"]
    /\ carried' = carried \ {c}
    /\ IF sockets[c] = "busy"
       THEN \E socket \in {"idle"} \cup (IF phase = "listening" THEN {} ELSE {"none"}) :
               sockets' = [sockets EXCEPT ![c] = socket]
       ELSE UNCHANGED sockets
    /\ IF handlers[c] = "public"
       THEN \/ /\ failures' = IF c \in carried THEN failures ELSE failures + 1
               /\ UNCHANGED <<hits, spared>>
            \/ /\ ~countSuccesses
               /\ sockets[c] = "busy"
               /\ hits' = uncounted(hits)
               /\ spared' = IF c \in carried THEN spared + 1 ELSE spared
               /\ UNCHANGED failures
       ELSE UNCHANGED <<hits, failures, spared>>
    /\ UNCHANGED <<phase, exitCode, signalled, grace, begun>>

(* The client goes away; its handler does not know. *)
HangUp(c) ==
    /\ sockets[c] # "none"
    /\ sockets' = [sockets EXCEPT ![c] = "none"]
    /\ UNCHANGED <<phase, exitCode, signalled, grace, handlers, limiterVars>>

NewWindow ==
    /\ serving
    /\ hits # 0
    /\ hits' = 0 /\ failures' = 0 /\ begun' = 0 /\ spared' = 0
    /\ carried' = {c \in Connections : handlers[c] = "public"}
    /\ UNCHANGED <<phase, exitCode, signalled, grace, sockets, handlers>>

-----------------------------------------------------------------------------
ProcessNext ==
    \/ Start \/ Signal \/ ForceClose \/ AllClosed \/ Disconnect \/ Crash
    \/ \E c \in Connections :
          \/ Connect(c) \/ Answered(c) \/ HangUp(c)
          \/ \E kind \in {"public", "authenticated"} : Request(c, kind)
    \/ NewWindow

(* Timers fire, sockets' ends are noticed and handlers come to an end: the code
   puts no limit on a statement, so that the database answers each is assumed of
   it.  No client need do anything. *)
ProcessFairness ==
    /\ WF_processVars(ForceClose) /\ WF_processVars(AllClosed) /\ WF_processVars(Disconnect)
    /\ \A c \in Connections : WF_processVars(Answered(c))

ProcessSpec == ProcessInit /\ [][ProcessNext]_processVars /\ ProcessFairness

-----------------------------------------------------------------------------
(* Properties *)

(* A process that is signalled ends, although a client may neither finish its
   request nor go away.  (shutDown closes idle sockets at once and the others
   when the grace period is over; later signals wait for the same shutdown.) *)
ASignalEndsTheProcess == signalled ~> (phase = "ended")

(* However many requests are under way at once, no more fail in a window, or are
   answered at all where successes count, than the limit lets through; only a success begun in an earlier window, which is
   taken off this one's count, lets one more.  (limitRequests counts as a
   request begins, and skips a success when it has been answered.) *)
AttemptsAreLimited == failures =< limit + spared
=============================================================================
