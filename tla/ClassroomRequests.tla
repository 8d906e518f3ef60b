--------------------------- MODULE ClassroomRequests ---------------------------
(***************************************************************************)
(* An instructor asks a student's editor to show a notice or to save and   *)
(* submit.  The browser repeats an unanswered request under its key; the   *)
(* server keeps one row per key; a window of the editor polls, asks the    *)
(* student, announces that the request is accepted, acts once, and reports *)
(* the result.  Every call may be lost, answered late, or handled by the   *)
(* server after the window gave it up; a window may close at any moment.   *)
(***************************************************************************)
EXTENDS Integers, Sequences, FiniteSets

CONSTANTS
    Keys,         \* request keys an instructor's browser draws
    Uploads,      \* those of them that ask for save_submit; the others are notices
    Windows,      \* windows of the student's editor, each with its own client identity
    MaxCommands,  \* bound on the rows of the command table
    MaxOpen,      \* requests of one student that may be open at once
    Lifetime,     \* TTL_SECONDS, in ticks
    MaxTicks,     \* bound on the clock
    MaxTroubles,  \* bound on calls given up, moved or closed windows and ended sessions
    MaxReceipts,  \* bound on submissions the student makes on their own
    Nobody

ASSUME ClassroomAssumption ==
    /\ Uploads \subseteq Keys
    /\ {MaxCommands, MaxOpen, Lifetime} \subseteq Nat \ {0}
    /\ {MaxTicks, MaxTroubles, MaxReceipts} \subseteq Nat
    /\ Nobody \notin Keys \cup Windows \cup Nat

VARIABLES
    tick,      \* the time, on the server and in the windows
    commands,  \* table classroom_commands
    clients,   \* table classroom_clients
    window,    \* what each window remembers, and the call it waits for
    strays,    \* calls the windows gave up that the server may still handle
    receipts,  \* the received_at of the student's submission receipts
    runs,      \* <<command, window>>, one for each time an action began
    troubles

classroomVars == <<tick, commands, clients, window, strays, receipts, runs, troubles>>

Commands == 1 .. MaxCommands
OpenStatuses == {"queued", "received", "accepted"}

Response(status, receipt) == [status |-> status, receipt |-> receipt]
Reply(kind, list) == [kind |-> kind, list |-> list]

NoResponse == Response("none", Nobody)
NoRow == [key |-> Nobody, status |-> "none", client |-> Nobody, expires |-> 0,
          accepted |-> 0, last |-> NoResponse]
NoCall == [kind |-> "none", id |-> 0, response |-> NoResponse, sent |-> 0]
NoReply == Reply("none", {})
Shut == [at |-> "shut", todo |-> {}, current |-> 0, due |-> 0,
         seen |-> {}, finals |-> {}, call |-> NoCall, reply |-> NoReply]

ClassroomInit ==
    /\ tick = 0 /\ troubles = 0
    /\ commands = [c \in Commands |-> NoRow]
    /\ clients = [w \in Windows |-> "unknown"]
    /\ window = [w \in Windows |-> Shut]
    /\ strays = {} /\ receipts = {} /\ runs = <<>>

----------------------------------------------------------------------------
(* The server. *)

Rows == {c \in Commands : commands[c].status # "none"}

\* A request past its time is expired by whichever handler looks next.
Expired(at) ==
    [c \in Commands |->
        IF commands[c].status \in OpenStatuses /\ commands[c].expires <= at
        THEN [commands[c] EXCEPT !.status = "expired"] ELSE commands[c]]

Known(k) == {c \in Rows : commands[c].key = k}

\* create: expire what is due, recognise a repeated key, refuse a sixth open
\* request, and queue the new one.
Ask(k) ==
    LET table == Expired(tick)
    IN  /\ IF Known(k) # {} \/ Cardinality({c \in Rows : table[c].status \in OpenStatuses}) >= MaxOpen
           THEN commands' = table
           ELSE \E c \in Commands \ Rows :
                   /\ \A free \in Commands \ Rows : c <= free
                   /\ commands' = [table EXCEPT ![c] =
                         [key |-> k, status |-> "queued", client |-> Nobody,
                          expires |-> tick + Lifetime, accepted |-> 0, last |-> NoResponse]]
        /\ UNCHANGED <<tick, clients, window, strays, receipts, runs, troubles>>

\* poll: queued requests become this client's, and it sees those it owns.
Offered(table, w) ==
    {c \in Rows : \/ table[c].status = "queued"
                  \/ table[c].client = w /\ table[c].status \in {"received", "accepted"}}

Handed(table, w) ==
    [c \in Commands |->
        IF table[c].status = "queued"
        THEN [table[c] EXCEPT !.status = "received", !.client = w] ELSE table[c]]

\* The deadline the window derives: the life left by the server's clock, counted
\* from the moment the window sent the poll (api.ts), never from its answer.
FromTheAnswer(c, table, call, at) == tick + (table[c].expires - at)
Deadline(c, table, call, at) == call.sent + (table[c].expires - at)

Views(table, w, call, at) ==
    {[id |-> c, status |-> table[c].status, due |-> Deadline(c, table, call, at)] :
        c \in Offered(table, w)}

\* respond: what a response does to a row that its client still owns.
Permitted(row, response) ==
    \/ row.status = "received" /\ response.status \in {"accepted", "declined", "failed"}
    \/ row.status = "accepted" /\ response.status \in {"completed", "failed"}

FreshReceipt(row, response) ==
    row.key \in Uploads /\ response.status = "completed" =>
        response.receipt \in receipts /\ response.receipt >= row.accepted

Settled(row, response, at) ==
    [row EXCEPT !.status = response.status, !.last = response,
                !.accepted = IF response.status = "accepted" THEN at ELSE @]

Verdict(row, w, response) ==
    CASE row.status = "none" \/ row.client # w -> "denied"
      [] row.status = response.status /\ row.last = response -> "repeated"
      [] ~(Permitted(row, response) /\ FreshReceipt(row, response)) -> "refused"
      [] OTHER -> "done"

\* One handled call of window w, whose handler read the time `at` and then
\* waited for the writer lock: the table it leaves and the answer it gives.
Handle(w, call, at) ==
    commands' =
        IF clients[w] # "open" THEN commands
        ELSE IF call.kind = "poll" THEN Handed(Expired(at), w)
        ELSE IF Verdict(Expired(at)[call.id], w, call.response) = "done"
        THEN [Expired(at) EXCEPT ![call.id] = Settled(@, call.response, at)]
        ELSE Expired(at)

Answer(w, call, at) ==
    IF clients[w] # "open" THEN Reply("denied", {})
    ELSE IF call.kind = "poll"
    THEN Reply("commands", Views(Handed(Expired(at), w), w, call, at))
    ELSE LET verdict == Verdict(Expired(at)[call.id], w, call.response)
         IN  Reply(IF verdict \in {"done", "repeated"} THEN "ok" ELSE verdict, {})

Trouble == troubles < MaxTroubles /\ troubles' = troubles + 1

Serve(w) ==
    /\ window[w].call.kind # "none" /\ window[w].reply.kind = "none"
    /\ \E at \in window[w].call.sent .. tick :
          /\ Handle(w, window[w].call, at)
          /\ window' = [window EXCEPT ![w].reply = Answer(w, window[w].call, at)]
    /\ UNCHANGED <<tick, clients, strays, receipts, runs, troubles>>

\* A call nobody waits for any more reaches the server all the same.
ServeStray ==
    \E s \in strays :
        /\ \E at \in s.call.sent .. tick : Handle(s.window, s.call, at)
        /\ strays' = strays \ {s}
        /\ UNCHANGED <<tick, clients, window, receipts, runs, troubles>>

\* The session behind a window ends: its client is refused from now on.
SessionEnds(w) ==
    /\ clients[w] = "open" /\ Trouble
    /\ clients' = [clients EXCEPT ![w] = "revoked"]
    /\ UNCHANGED <<tick, commands, window, strays, receipts, runs>>

\* A submission of the student's own, or an upload whose window gave it up.
StudentSubmits ==
    /\ Cardinality(receipts) < MaxReceipts
    /\ receipts' = receipts \cup {tick}
    /\ UNCHANGED <<tick, commands, clients, window, strays, runs, troubles>>

----------------------------------------------------------------------------
(* A window.  Its pump handles the requests of one poll one after the other. *)

Set(w, rec) == window' = [window EXCEPT ![w] = rec]
Me(w) == window[w]
Call(kind, id, response) == [kind |-> kind, id |-> id, response |-> response, sent |-> tick]

\* The window stops waiting; the server may handle the call later.
GivenUp(w) ==
    IF Me(w).call.kind # "none" /\ Me(w).reply.kind = "none"
    THEN strays \cup {[window |-> w, call |-> Me(w).call]} ELSE strays
Rested(rec) == [rec EXCEPT !.at = "idle", !.todo = {}, !.current = 0, !.due = 0,
                            !.call = NoCall, !.reply = NoReply]

\* The first report of a scope registers the window's identity; while its
\* answer is lost the window reports again and asks for no requests.
Report(w) ==
    /\ Me(w).at = "shut"
    /\ IF clients[w] = "revoked"
       THEN clients' = clients /\ Set(w, [Shut EXCEPT !.at = "blocked"])
       ELSE /\ clients' = [clients EXCEPT ![w] = "open"]
            /\ \E next \in {"idle", "shut"} : Set(w, [Shut EXCEPT !.at = next])
    /\ UNCHANGED <<tick, commands, strays, receipts, runs, troubles>>

Poll(w) ==
    /\ Me(w).at = "idle"
    /\ Set(w, [Me(w) EXCEPT !.at = "polling", !.call = Call("poll", 0, NoResponse)])
    /\ UNCHANGED <<tick, commands, clients, strays, receipts, runs, troubles>>

\* The next request of the poll that needs anything: one the window saw before,
\* or one that is accepted already, is never taken up again; a result the window
\* still owes is sent once more.
SeenHere(rec, view) == view.id \in rec.seen
Taken(rec, view) == view.status = "accepted" \/ view.id \in rec.seen
Owed(rec, view) == {f \in rec.finals : f.id = view.id}
Waiting(rec, view) == tick < view.due /\ (Owed(rec, view) # {} \/ ~Taken(rec, view))

Sending(rec, id, response) ==
    [rec EXCEPT !.at = "reporting", !.current = id,
                !.finals = {f \in rec.finals : f.id # id} \cup {[id |-> id, response |-> response]},
                !.call = Call("respond", id, response), !.reply = NoReply]

TakeNext(w, rec) ==
    LET ready == {v \in rec.todo : Waiting(rec, v)}
        Rest(view) == [rec EXCEPT !.todo = {v \in rec.todo : v.id > view.id},
                                  !.call = NoCall, !.reply = NoReply]
    IN  \/ ready = {} /\ Set(w, Rested(rec))
        \/ \E view \in ready :
              /\ \A v \in ready : view.id <= v.id
              /\ IF Owed(rec, view) # {}
                 THEN \E f \in Owed(rec, view) : Set(w, Sending(Rest(view), view.id, f.response))
                 ELSE Set(w, [Rest(view) EXCEPT !.at = "deciding", !.current = view.id,
                                                !.due = view.due, !.seen = rec.seen \cup {view.id}])

\* The requests of a poll arrive, or the acknowledgement of a final response.
Continue(w) ==
    /\ \/ Me(w).reply.kind = "commands" /\ TakeNext(w, [Me(w) EXCEPT !.todo = Me(w).reply.list])
       \/ /\ Me(w).at = "reporting" /\ Me(w).reply.kind = "ok"
          /\ TakeNext(w, [Me(w) EXCEPT !.finals = {f \in Me(w).finals : f.id # Me(w).current}])
    /\ UNCHANGED <<tick, commands, clients, strays, receipts, runs, troubles>>

\* sendFinal: a completed upload the server does not recognise as a new
\* submission is reported as a failure instead.
Unconfirmed(w) ==
    /\ Me(w).reply.kind = "refused" /\ Me(w).at = "reporting"
    /\ Me(w).call.response.status = "completed"
    /\ commands[Me(w).current].key \in Uploads
    /\ Set(w, Sending(Me(w), Me(w).current, Response("failed", Nobody)))
    /\ UNCHANGED <<tick, commands, clients, strays, receipts, runs, troubles>>

\* Any other refusal ends this pump; one that says the window may not ask
\* blocks it until its scope changes.
Refused(w) ==
    /\ Me(w).reply.kind \in {"refused", "denied"}
    /\ Me(w).reply.kind = "refused" =>
          ~(Me(w).at = "reporting" /\ Me(w).call.response.status = "completed"
            /\ commands[Me(w).current].key \in Uploads)
    /\ Set(w, [Rested(Me(w)) EXCEPT !.at = IF Me(w).reply.kind = "denied" THEN "blocked" ELSE "idle"])
    /\ UNCHANGED <<tick, commands, clients, strays, receipts, runs, troubles>>

\* A timeout, a lost connection, or the deadline's timer ends this pump.
GiveUp(w) ==
    /\ \/ Me(w).call.kind # "none" /\ Trouble
       \/ /\ Me(w).at \in {"deciding", "accepting", "acting"} /\ Me(w).due <= tick
          /\ UNCHANGED troubles
    /\ strays' = GivenUp(w)
    /\ Set(w, Rested(Me(w)))
    /\ UNCHANGED <<tick, commands, clients, receipts, runs>>

\* The student declines, or agrees and the window announces it; after the
\* deadline the answer of the student counts for nothing.
Decide(w) ==
    /\ Me(w).at = "deciding" /\ tick < Me(w).due
    /\ \/ Set(w, Sending(Me(w), Me(w).current, Response("declined", Nobody)))
       \/ Set(w, [Me(w) EXCEPT !.at = "accepting",
                               !.call = Call("respond", Me(w).current, Response("accepted", Nobody))])
    /\ UNCHANGED <<tick, commands, clients, strays, receipts, runs, troubles>>

\* The acceptance is acknowledged in time: the action begins, or another
\* operation of the window keeps it from beginning.
Begin(w) ==
    /\ Me(w).at = "accepting" /\ Me(w).reply.kind = "ok" /\ tick < Me(w).due
    /\ runs' = Append(runs, <<Me(w).current, w>>)
    /\ Set(w, [Me(w) EXCEPT !.at = "acting", !.call = NoCall, !.reply = NoReply])
    /\ UNCHANGED <<tick, commands, clients, strays, receipts, troubles>>

Busy(w) ==
    /\ Me(w).at = "accepting" /\ Me(w).reply.kind = "ok" /\ tick < Me(w).due
    /\ Set(w, Sending(Me(w), Me(w).current, Response("failed", Nobody)))
    /\ UNCHANGED <<tick, commands, clients, strays, receipts, runs, troubles>>

\* The action ends before the deadline.  An upload gets a new receipt, or the
\* receipt of an earlier submission of the same code.
Finish(w) ==
    /\ Me(w).at = "acting"
    /\ \/ /\ tick < Me(w).due /\ commands[Me(w).current].key \notin Uploads
          /\ Set(w, Sending(Me(w), Me(w).current, Response("completed", Nobody)))
          /\ UNCHANGED receipts
       \/ /\ tick < Me(w).due /\ commands[Me(w).current].key \in Uploads
          /\ \E r \in receipts \cup {tick} :
                /\ receipts' = receipts \cup {r}
                /\ Set(w, Sending(Me(w), Me(w).current, Response("completed", r)))
       \/ /\ Set(w, Sending(Me(w), Me(w).current, Response("failed", Nobody)))
          /\ UNCHANGED receipts
    /\ UNCHANGED <<tick, commands, clients, strays, runs, troubles>>

\* Another workspace folder, under the same identity: the window forgets which
\* requests it has seen and which results it still owes.
Move(w) ==
    /\ Me(w).at \notin {"shut", "gone"} /\ Trouble
    /\ strays' = GivenUp(w)
    /\ Set(w, [Rested(Me(w)) EXCEPT !.seen = {}, !.finals = {}])
    /\ UNCHANGED <<tick, commands, clients, receipts, runs>>

\* The window closes or crashes, or its sign-in changes: its identity is gone.
Close(w) ==
    /\ Me(w).at \notin {"shut", "gone"} /\ Trouble
    /\ strays' = GivenUp(w)
    /\ Set(w, [Shut EXCEPT !.at = "gone"])
    /\ UNCHANGED <<tick, commands, clients, receipts, runs>>

Tick ==
    /\ tick < MaxTicks
    /\ tick' = tick + 1
    /\ UNCHANGED <<commands, clients, window, strays, receipts, runs, troubles>>

ClassroomNext ==
    \/ Tick \/ StudentSubmits \/ ServeStray
    \/ \E k \in Keys : Ask(k)
    \/ \E w \in Windows :
          \/ Serve(w) \/ SessionEnds(w) \/ Report(w) \/ Poll(w) \/ Continue(w) \/ Unconfirmed(w)
          \/ Refused(w) \/ GiveUp(w) \/ Decide(w) \/ Begin(w) \/ Busy(w) \/ Finish(w)
          \/ Move(w) \/ Close(w)

ClassroomSpec == ClassroomInit /\ [][ClassroomNext]_classroomVars

----------------------------------------------------------------------------
(* Properties. *)

RanIn(c, w) == \E i \in DOMAIN runs : runs[i] = <<c, w>>
Ran(c) == \E w \in Windows : RanIn(c, w)

\* The history an instructor reads is true: whatever is lost or repeated, the
\* action of one request begins at most once, and only in the window that owns
\* the row; a request shown as waiting, declined or expired unaccepted has not
\* begun; one shown as completed has, and an upload's receipt is no older than
\* the student's acceptance (ClassroomCommands "actions never retry").
RequestsRunOnce ==
    /\ \A i, j \in DOMAIN runs : commands[runs[i][1]].key = commands[runs[j][1]].key => i = j
    /\ \A c \in Rows :
          LET row == commands[c]
          IN  /\ \A w \in Windows : RanIn(c, w) => row.client = w
              /\ Ran(c) => row.last # NoResponse /\ row.status \notin {"queued", "received", "declined"}
              /\ row.status = "completed" =>
                    Ran(c) /\ (row.key \in Uploads => row.last.receipt >= row.accepted)

\* An action begins only while its request is accepted on the server and its
\* time has not passed, although the window never compares clocks with it.
NothingStartsLate ==
    [][runs' # runs =>
         LET c == runs'[Len(runs')][1]
         IN  commands[c].status = "accepted" /\ tick < commands[c].expires]_classroomVars
=============================================================================
