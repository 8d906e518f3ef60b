--------------------------- MODULE MCBundleUploads ---------------------------
(* One student and two bundles for an assignment that closes; or the tables  *)
(* alone, with an assignment that stays open beside it, under callers whose  *)
(* time is any time at all.                                                  *)
EXTENDS BundleUploads, TLC

CONSTANTS a1, a2
VARIABLE part

MCPolicy == (a1 :> "after_deadline") @@ (a2 :> "manual")
MCOpens == (a1 :> 0) @@ (a2 :> 1)
MCFirstDue == (a1 :> 1) @@ (a2 :> NoTime)

MCSymmetry == Permutations(Contents)

\* Ids are drawn in order.
InOrder == \A s, t \in Submissions : s < t /\ request[s] = NoRow => request[t] = NoRow

\* Two submissions for a1 until time 1 and five requests in all, or four once
\* the deadline was extended to 2: enough for a retry on either side of the
\* deadline, and for one that finds it moved.  The tables refuse an upload to an
\* archived assignment as to a hidden one, and a failed verdict as any other:
\* what these are is left to the tables alone.
UploadsFocus ==
    /\ wall <= 1
    /\ release[a1] \in {"public", "hidden"} /\ release[a2] = "public"
    /\ \A s \in Submissions : state[s] # "assessment_failed"
    /\ sends[1] + sends[2] + due[a1] <= 6
    /\ \E s \in Submissions : request[s] = NoRow
    /\ \A k \in Keys : made[k] = NoRow \/ made[k].assignment = a1

\* A content or a key is as good as another, and releases are hidden, or the
\* student signed out, one at a time.
TablesFocus ==
    /\ \A s, t \in Submissions :
          request[s] # NoRow /\ request[t] # NoRow => request[s].content = request[t].content
    /\ request[1] # NoRow => request[1].key = 1
    /\ Cardinality({a \in Assignments : release[a] # "public"} \cup (Students \ signedIn)) <= 1

MCFocus == InOrder /\ IF part = "uploads" THEN UploadsFocus ELSE TablesFocus

\* Rows no client asked for: `upset` excuses what clients do not know.
TablesStep ==
    /\ part = "tables" /\ part' = part
    /\ StoreNext /\ upset' = TRUE
    /\ UNCHANGED <<wall, clientVars, wireVars>>

MCInit == UploadInit /\ part \in {"uploads", "tables"}
UploadsStep == part = "uploads" /\ UploadNext /\ part' = part
MCNext == (UploadsStep \/ TablesStep) /\ MCFocus'
MCSpec == MCInit /\ [][MCNext]_<<uploadVars, part>>
MCUploadsSpec == MCInit /\ part = "uploads" /\ [][MCNext]_<<uploadVars, part>>
=============================================================================
