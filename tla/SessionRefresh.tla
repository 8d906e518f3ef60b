--------------------------- MODULE SessionRefresh ---------------------------
(***************************************************************************)
(* Refreshing the tokens of one student: the client that holds the tokens  *)
(* (TokenManager of the VS Code extension, or ServiceClient of the Visual  *)
(* Studio extension), the server threads that coalesce overlapping         *)
(* refreshes of one token in memory (StudentPlatformService.refresh_tokens)*)
(* and the durable rotation of TokenFamilies.  Time stands still: expiry   *)
(* is the subject of Credentials.                                          *)
(***************************************************************************)
EXTENDS TokenFamilies

CONSTANTS
    Calls,        \* refresh requests the client may send, in this order
    MaxMishaps    \* bound: answers not waited for and server crashes

Tokens == Sessions \X Generations

ASSUME RefreshAssumption ==
    /\ MaxMishaps \in Nat
    /\ Calls \subseteq Nat /\ Sessions \subseteq Nat
    /\ Nobody \notin Calls \cup Sessions \cup Tokens \cup (Calls \X Nat)

VARIABLES
    cautious,     \* the client forgets its tokens when an answer is lost
    held,         \* the refresh token in the client's memory
    generation,   \* sessionGeneration, sessionVersion
    refreshing,   \* refreshOperation: the call it waits for, its generation
    expected,     \* history: the session last stored and not signed out of
    pairing,      \* a login whose answer the client has not stored yet
    call,         \* the refresh requests, at the client and at the server
    flight,       \* _refresh_flights: the leading call of each token
    mishaps

clientVars == <<held, generation, refreshing, expected, pairing>>
refreshVars == <<familyVars, cautious, clientVars, call, flight, mishaps>>

Refused == <<>>

\* sent: on its way; leading, rotated, removed: the flight's own thread before
\* the transaction, after it, and after the entry is deleted; following: waits
\* for the event; answered: the response is on its way; done: the client took
\* it or never will; gone: the server died.
Places == {"unused", "sent", "leading", "rotated", "removed", "following",
           "answered", "done", "gone"}
InServer == {"leading", "rotated", "removed", "following"}

\* late (history): some call for the same token was answered before this one
\* arrived.
CallRow == [at : Places, token : Tokens \cup {Nobody}, generation : Nat,
            leader : Calls \cup {Nobody}, awaited : BOOLEAN, late : BOOLEAN,
            result : Tokens \cup {Refused}]
NoCall == [at |-> "unused", token |-> Nobody, generation |-> 0,
           leader |-> Nobody, awaited |-> FALSE, late |-> FALSE,
           result |-> Refused]

RefreshInit ==
    /\ FamilyInit
    /\ cautious \in BOOLEAN
    /\ held = Nobody
    /\ generation = 0
    /\ refreshing = Nobody
    /\ expected = Nobody
    /\ pairing = Nobody
    /\ call = [c \in Calls |-> NoCall]
    /\ flight = [t \in Tokens |-> Nobody]
    /\ mishaps = 0

-----------------------------------------------------------------------------
(* The client.                                                             *)

\* Another device exchange of the same student; it supersedes every session.
SignIn(s, st, dev) ==
    /\ \A u \in Sessions : u < s => session[u].status # "absent"
    /\ IssueSession(s, st, dev, 0)
    /\ \/ pairing = Nobody /\ pairing' = s
       \/ UNCHANGED pairing                    \* on another computer
    /\ UNCHANGED <<held, generation, refreshing, expected, call, flight, mishaps>>

StoreSession ==
    /\ pairing # Nobody
    /\ held' = <<pairing, 0>>
    /\ generation' = generation + 1
    /\ expected' = pairing
    /\ pairing' = Nobody
    /\ UNCHANGED <<familyVars, refreshing, call, flight, mishaps>>

ClearMemory ==
    /\ held' = Nobody
    /\ generation' = generation + 1
    /\ expected' = IF held = Nobody THEN expected ELSE Nobody

\* signOut: the server session is revoked with an access token that is good,
\* or the student agrees to a local sign-out.
SignOut ==
    /\ held # Nobody
    /\ \/ /\ Authorizes(held[1], held[2], Students, 0)
          /\ RevokeSession(held[1], 0)
       \/ UNCHANGED familyVars
    /\ ClearMemory
    /\ UNCHANGED <<refreshing, pairing, call, flight, mishaps>>

\* Mutant of Coalesces: every caller starts its own refresh.
CoalescesNever == FALSE

\* refresh() returns the operation of its own generation.
Coalesces == refreshing # Nobody /\ refreshing[2] = generation

StartRefresh(c) ==
    /\ held # Nobody
    /\ call[c].at = "unused"
    /\ \A d \in Calls : d < c => call[d].at # "unused"
    /\ ~Coalesces
    /\ call' = [call EXCEPT ![c] = [NoCall EXCEPT !.at = "sent", !.token = held,
                                    !.generation = generation, !.awaited = TRUE]]
    /\ refreshing' = <<c, generation>>
    /\ UNCHANGED <<familyVars, held, generation, expected, pairing, flight,
                   mishaps>>

Settled(c) ==
    IF refreshing # Nobody /\ refreshing[1] = c THEN Nobody ELSE refreshing

\* Mutants of IsCurrent: whatever arrives is taken.
IsCurrentAlways(c) == TRUE

IsCurrent(c) == call[c].generation = generation

\* performRefresh: a response is stored, and a definitive refusal discards the
\* tokens, only if they are the ones that were presented.
ReceiveAnswer(c) ==
    /\ call[c].at = "answered" /\ call[c].awaited
    /\ call' = [call EXCEPT ![c].at = "done"]
    /\ refreshing' = Settled(c)
    /\ IF ~IsCurrent(c) THEN UNCHANGED <<held, generation, expected>>
       ELSE IF call[c].result = Refused THEN ClearMemory
       ELSE /\ held' = call[c].result
            /\ generation' = generation + 1
            /\ UNCHANGED expected
    /\ UNCHANGED <<familyVars, pairing, flight, mishaps>>

\* Visual Studio: rotation may already have consumed the refresh token even if
\* the response was lost, so Refresh clears whatever went wrong.
Forgets(c) == cautious /\ IsCurrent(c)

\* The client times out or loses the connection; nothing definitive was said.
GiveUp(c) ==
    /\ call[c].awaited
    /\ call[c].at \notin {"unused", "done"}
    /\ IF call[c].at = "gone" THEN UNCHANGED mishaps
       ELSE mishaps < MaxMishaps /\ mishaps' = mishaps + 1
    /\ call' = [call EXCEPT ![c].awaited = FALSE]
    /\ refreshing' = Settled(c)
    /\ IF Forgets(c) THEN ClearMemory
       ELSE UNCHANGED <<held, generation, expected>>
    /\ UNCHANGED <<familyVars, pairing, flight>>

-----------------------------------------------------------------------------
(* The server.                                                             *)

AnsweredBefore(t) ==
    \E d \in Calls : call[d].token = t /\ call[d].at \in {"answered", "done"}

\* Under _refresh_flights_lock: lead, or follow the flight that is there.
Arrive(c) ==
    /\ call[c].at = "sent"
    /\ LET t == call[c].token
       IN  IF flight[t] = Nobody
           THEN /\ flight' = [flight EXCEPT ![t] = c]
                /\ call' = [call EXCEPT ![c].at = "leading",
                                        ![c].late = AnsweredBefore(t)]
           ELSE /\ call' = [call EXCEPT ![c].at = "following",
                                        ![c].leader = flight[t],
                                        ![c].late = AnsweredBefore(t)]
                /\ UNCHANGED flight
    /\ UNCHANGED <<familyVars, clientVars, mishaps>>

\* _rotate_refresh_token, one transaction; every refusal is an error the
\* flight keeps for its followers.
RotateLeading(c) ==
    /\ call[c].at = "leading"
    /\ LET s == call[c].token[1]
           n == call[c].token[2]
       IN  \/ /\ Rotate(s, n, Students, 0)
              /\ call' = [call EXCEPT ![c].at = "rotated",
                                      ![c].result = <<s, family[s].rotations + 1>>]
           \/ /\ \/ RotationLimit(s, n, Students, 0)
                 \/ ReuseDetected(s, n, 0)
                 \/ RotationDenied(s, n, Students, 0) /\ UNCHANGED familyVars
              /\ call' = [call EXCEPT ![c].at = "rotated",
                                      ![c].result = Refused]
    /\ UNCHANGED <<clientVars, flight, mishaps>>

\* Mutant of Landed: the completed flight stays in the table.
LandedLate(c) == flight

Landed(c) == IF flight[call[c].token] = c
             THEN [flight EXCEPT ![call[c].token] = Nobody] ELSE flight

\* The entry is removed before waiters wake.
RemoveFlight(c) ==
    /\ call[c].at = "rotated"
    /\ flight' = Landed(c)
    /\ call' = [call EXCEPT ![c].at = "removed"]
    /\ UNCHANGED <<familyVars, clientVars, mishaps>>

CompleteFlight(c) ==
    /\ call[c].at = "removed"
    /\ call' = [call EXCEPT ![c].at = "answered"]
    /\ UNCHANGED <<familyVars, clientVars, flight, mishaps>>

\* Mutant of MayWake: a follower sleeps until the client took the answer.
MayWakeLater(c) == call[call[c].leader].at = "done"

MayWake(c) == call[call[c].leader].at \in {"answered", "done"}

WakeFollower(c) ==
    /\ call[c].at = "following"
    /\ MayWake(c)
    /\ call' = [call EXCEPT ![c].at = "answered",
                            ![c].result = call[call[c].leader].result]
    /\ UNCHANGED <<familyVars, clientVars, flight, mishaps>>

\* The flights and the threads are memory of the process.
Crash ==
    /\ mishaps < MaxMishaps
    /\ mishaps' = mishaps + 1
    /\ call' = [c \in Calls |-> IF call[c].at \in InServer
                                THEN [call[c] EXCEPT !.at = "gone"] ELSE call[c]]
    /\ flight' = [t \in Tokens |-> Nobody]
    /\ UNCHANGED <<familyVars, clientVars>>

Serve(c) ==
    Arrive(c) \/ RotateLeading(c) \/ RemoveFlight(c) \/ CompleteFlight(c)
    \/ WakeFollower(c)

RefreshStep ==
    \/ \E s \in Sessions, st \in Students, dev \in Devices : SignIn(s, st, dev)
    \/ StoreSession
    \/ SignOut
    \/ \E c \in Calls : \/ StartRefresh(c) \/ ReceiveAnswer(c) \/ GiveUp(c)
                        \/ Serve(c)
    \/ Crash

RefreshNext == RefreshStep /\ UNCHANGED cautious

RefreshSpec == RefreshInit /\ [][RefreshNext]_refreshVars

\* The threads of the server run; clients owe nothing.
RefreshFairness == \A c \in Calls : WF_refreshVars(Serve(c) /\ UNCHANGED cautious)

-----------------------------------------------------------------------------
(* Properties.                                                             *)

\* The shape of the state.
RefreshTypeOK ==
    /\ FamilyTypeOK /\ cautious \in BOOLEAN
    /\ held \in Tokens \cup {Nobody}
    /\ generation \in Nat
    /\ refreshing \in (Calls \X Nat) \cup {Nobody}
    /\ {expected, pairing} \subseteq Sessions \cup {Nobody}
    /\ call \in [Calls -> CallRow]
    /\ flight \in [Tokens -> Calls \cup {Nobody}]
    /\ mishaps \in 0..MaxMishaps

\* Reuse detection accuses no honest client: a family is compromised only
\* after an answer was lost, and never by a client that then forgets its
\* tokens (ServiceClient.Refresh).
NoFalseAlarm ==
    \A s \in Sessions : family[s].compromised => mishaps > 0 /\ ~cautious

\* While nothing was lost, a student who signed in and whose session is live
\* can go on: the client holds the latest token of that session, or the
\* response that brings it is on its way and will be accepted.
SessionReachable ==
    mishaps = 0 /\ expected # Nobody /\ Live(expected) =>
        /\ held # Nobody /\ held[1] = expected
        /\ \/ held[2] = family[expected].rotations
           \/ \E c \in Calls :
                 /\ call[c].token = held /\ IsCurrent(c)
                 /\ call[c].awaited /\ call[c].at # "done"
                 /\ call[c].result = <<expected, family[expected].rotations>>

\* No late response signs a client back in: what it holds belongs to the
\* session it stored last and has not left.
NoResurrection == held # Nobody => held[1] = expected

\* The client holds what it should and nothing else.
ClientHoldsItsSession == RefreshTypeOK /\ SessionReachable /\ NoResurrection

\* Coalescing is only for requests that overlap: one that arrives after a
\* response to the same token was on its way gets no tokens (the comment on
\* _RefreshFlight).
LateReplayRefused ==
    \A c \in Calls :
        call[c].late /\ call[c].at \in {"answered", "done"}
        => call[c].result = Refused

\* All responses to one presented token carry the same replacement.
OneSuccessor ==
    \A c, d \in Calls :
        /\ call[c].token = call[d].token
        /\ call[c].result # Refused /\ call[d].result # Refused
        => call[c].result = call[d].result

\* A presented token is exchanged for one replacement, once; presenting it again
\* is told from a repeated request, and accuses nobody who only repeated one.
ExchangedOnce == LateReplayRefused /\ OneSuccessor /\ NoFalseAlarm

\* No thread waits for a flight for ever, whatever became of its leader.
EveryRefreshAnswered ==
    \A c \in Calls :
        call[c].at = "sent" ~> call[c].at \in {"answered", "done", "gone"}
=============================================================================
