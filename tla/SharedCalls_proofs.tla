------------------------- MODULE SharedCalls_proofs -------------------------
(***************************************************************************)
(* Proofs about what many calls share.  First the sessions of a course,    *)
(* for any number of students, sessions, devices, rotations and codes:     *)
(* TokenFamilies, the tables both specifications below write, then         *)
(* SessionRefresh and Credentials.  Then the Git collector of GitCache,    *)
(* for any number of processes, repositories, labels, commits, pushes and  *)
(* crashes: what a call answered is kept, the store stays within its       *)
(* quota, and the collector implements the labels its users rely on.       *)
(***************************************************************************)
EXTENDS SessionRefresh, Credentials, GitCache, FiniteSetTheorems, TLAPS

TokenRow == [state : TokenStates, expires : Expiries]

\* The rows of one session agree: TablesAgree and DeadlineIsAbsolute, and what
\* a session that was never opened looks like.
RowOK(row, fam, tokens) ==
    /\ row.status = "absent" =>
          /\ row.student = Nobody /\ row.device = Nobody
          /\ fam.rotations = 0 /\ ~fam.revoked /\ ~fam.compromised
          /\ \A n \in Generations : tokens[n].state = "absent" /\ tokens[n].expires = 0
    /\ row.status # "absent" =>
          /\ row.student \in Students /\ row.device \in Devices
          /\ row.expires = row.created + RefreshLife
          /\ row.accessExpires <= row.expires
          /\ row.status = "open" <=> ~fam.revoked
          /\ fam.compromised => fam.revoked
          /\ \A n \in Generations :
                /\ n < fam.rotations => tokens[n].state = "used"
                /\ n = fam.rotations =>
                      tokens[n].state = IF row.status = "open" THEN "active" ELSE "revoked"
                /\ n > fam.rotations => tokens[n].state = "absent"
                /\ tokens[n].expires <= row.expires

Row(s) == RowOK(session[s], family[s], token[s])

OneOpen ==
    \A s, u \in Sessions :
        /\ session[s].status = "open" /\ session[u].status = "open"
        /\ session[s].student = session[u].student
        => s = u

FamilyInv ==
    /\ FamilyTypeOK
    /\ \A s \in Sessions : Row(s)
    /\ OneOpen
    /\ EvidenceKept

-----------------------------------------------------------------------------
(* What a transaction does to the rows of one session.                     *)

Same(u) ==
    session'[u] = session[u] /\ family'[u] = family[u] /\ token'[u] = token[u]

SameLogin(u) ==
    /\ session'[u] \in SessionRow
    /\ session'[u].student = session[u].student /\ session'[u].device = session[u].device
    /\ session'[u].created = session[u].created /\ session'[u].expires = session[u].expires

Ends(u) ==
    /\ session[u].status \in {"open", "revoked"}
    /\ SameLogin(u)
    /\ session'[u].accessExpires = session[u].accessExpires
    /\ session'[u].status \in {"revoked", "pruned"}
    /\ session'[u].status = "pruned" => u \notin referenced
    /\ family'[u] \in FamilyRow /\ family'[u].revoked
    /\ family'[u].rotations = family[u].rotations
    /\ token'[u] = WithoutAccess(token[u])

Touched(u) ==
    /\ session[u].status = "open" /\ session'[u].status = "open"
    /\ SameLogin(u)
    /\ session'[u].accessExpires = session[u].accessExpires
    /\ family'[u] = family[u] /\ token'[u] = token[u]

Turns(u) ==
    /\ session[u].status = "open" /\ session'[u].status = "open"
    /\ SameLogin(u)
    /\ session'[u].accessExpires <= session[u].expires
    /\ family[u].rotations < MaxRotations
    /\ family'[u] = [family[u] EXCEPT !.rotations = family[u].rotations + 1]
    /\ \E e \in Expiries :
          /\ e <= session[u].expires
          /\ token'[u] = [n \in Generations |->
                IF n = family[u].rotations + 1 THEN [state |-> "active", expires |-> e]
                ELSE IF n = family[u].rotations THEN [token[u][n] EXCEPT !.state = "used"]
                ELSE token[u][n]]

Opens(u) ==
    /\ session[u].status = "absent" /\ session'[u].status = "open"
    /\ session'[u] \in SessionRow
    /\ session'[u].student \in Students /\ session'[u].device \in Devices
    /\ session'[u].expires = session'[u].created + RefreshLife
    /\ session'[u].accessExpires <= session'[u].expires
    /\ family'[u] = family[u]
    /\ token'[u] = [n \in Generations |->
          IF n = 0 THEN [state |-> "active", expires |-> session'[u].expires]
          ELSE token[u][n]]

RowStep(u) == Same(u) \/ Ends(u) \/ Touched(u) \/ Turns(u) \/ Opens(u)

\* A session that was opened stays the same login, is never opened again, and
\* a token of it that was issued never becomes good again.
Onward(u) ==
    session[u].status # "absent" =>
        /\ session'[u].status # "absent"
        /\ session'[u].student = session[u].student
        /\ session'[u].device = session[u].device
        /\ session'[u].created = session[u].created
        /\ session'[u].status = "open" => session[u].status = "open"
        /\ session[u].status = "pruned" => session'[u].status = "pruned"
        /\ Live(u)' => Live(u)
        /\ family[u].rotations <= family'[u].rotations
        /\ \A n \in Generations : n <= family[u].rotations =>
              /\ token'[u][n].expires = token[u][n].expires
              /\ token'[u][n].state = "active" => token[u][n].state = "active"

LEMMA EndsSound ==
    ASSUME NEW u \in Sessions, FamilyTypeOK, Row(u), Ends(u)
    PROVE  /\ Row(u)' /\ Onward(u)
           /\ session'[u] \in SessionRow /\ family'[u] \in FamilyRow
           /\ token'[u] \in [Generations -> TokenRow]
<1>1. /\ session[u] \in SessionRow /\ family[u] \in FamilyRow
      /\ token[u] \in [Generations -> TokenRow]
  BY DEF FamilyTypeOK, TokenRow
<1>2. token'[u] \in [Generations -> TokenRow]
  <2> SUFFICES ASSUME NEW n \in Generations PROVE WithoutAccess(token[u])[n] \in TokenRow
    BY DEF Ends, WithoutAccess
  <2>1. token[u][n] \in TokenRow
    BY <1>1
  <2>2. [token[u][n] EXCEPT !.state = "revoked"] \in TokenRow
    BY <2>1 DEF TokenRow, TokenStates
  <2> QED
    BY <2>1, <2>2 DEF WithoutAccess
<1>3. \A n \in Generations :
         /\ token'[u][n].expires = token[u][n].expires
         /\ token'[u][n].state = IF token[u][n].state = "active" THEN "revoked" ELSE token[u][n].state
  <2> SUFFICES ASSUME NEW n \in Generations
               PROVE /\ WithoutAccess(token[u])[n].expires = token[u][n].expires
                     /\ WithoutAccess(token[u])[n].state
                           = IF token[u][n].state = "active" THEN "revoked" ELSE token[u][n].state
    BY DEF Ends
  <2>1. token[u][n] \in TokenRow
    BY <1>1
  <2> QED
    BY <2>1 DEF WithoutAccess, TokenRow
<1>4. /\ session[u].status \in {"open", "revoked"}
      /\ session'[u].status \in {"revoked", "pruned"}
      /\ session'[u].student = session[u].student /\ session'[u].device = session[u].device
      /\ session'[u].created = session[u].created /\ session'[u].expires = session[u].expires
      /\ session'[u].accessExpires = session[u].accessExpires
      /\ session'[u] \in SessionRow
      /\ family'[u] \in FamilyRow /\ family'[u].revoked
      /\ family'[u].rotations = family[u].rotations
  BY DEF Ends, SameLogin
<1>5. Row(u)'
  BY <1>1, <1>3, <1>4 DEF Row, RowOK
<1>6. Onward(u)
  BY <1>1, <1>3, <1>4 DEF Onward, Live, FamilyRow, Generations
<1> QED
  BY <1>2, <1>4, <1>5, <1>6

LEMMA TouchedSound ==
    ASSUME NEW u \in Sessions, FamilyTypeOK, Row(u), Touched(u)
    PROVE  /\ Row(u)' /\ Onward(u)
           /\ session'[u] \in SessionRow /\ family'[u] \in FamilyRow
           /\ token'[u] \in [Generations -> TokenRow]
<1>1. /\ session[u] \in SessionRow /\ family[u] \in FamilyRow
      /\ token[u] \in [Generations -> TokenRow]
  BY DEF FamilyTypeOK, TokenRow
<1>2. Row(u)'
  BY DEF Row, RowOK, Touched, SameLogin
<1>3. Onward(u)
  BY <1>1 DEF Onward, Live, FamilyRow, Generations, Touched, SameLogin
<1> QED
  BY <1>1, <1>2, <1>3 DEF Touched, SameLogin

LEMMA TurnsSound ==
    ASSUME NEW u \in Sessions, FamilyTypeOK, Row(u), Turns(u)
    PROVE  /\ Row(u)' /\ Onward(u)
           /\ session'[u] \in SessionRow /\ family'[u] \in FamilyRow
           /\ token'[u] \in [Generations -> TokenRow]
<1>1. /\ session[u] \in SessionRow /\ family[u] \in FamilyRow
      /\ token[u] \in [Generations -> TokenRow]
  BY DEF FamilyTypeOK, TokenRow
<1> DEFINE r == family[u].rotations
<1>2. r \in Generations /\ r \in Nat /\ r + 1 \in Generations /\ r < MaxRotations
  BY <1>1, FamilyAssumption DEF Turns, FamilyRow, Generations
<1>3. /\ family'[u] \in FamilyRow /\ family'[u].rotations = r + 1
      /\ family'[u].revoked = family[u].revoked /\ family'[u].compromised = family[u].compromised
  BY <1>1, <1>2 DEF Turns, FamilyRow
<1>4. PICK e \in Expiries :
         /\ e <= session[u].expires
         /\ token'[u] = [n \in Generations |->
                IF n = r + 1 THEN [state |-> "active", expires |-> e]
                ELSE IF n = r THEN [token[u][n] EXCEPT !.state = "used"]
                ELSE token[u][n]]
  BY DEF Turns
<1>5. ASSUME NEW n \in Generations
      PROVE  /\ token'[u][n] \in TokenRow
             /\ n = r + 1 => token'[u][n].state = "active" /\ token'[u][n].expires = e
             /\ n = r => token'[u][n].state = "used" /\ token'[u][n].expires = token[u][n].expires
             /\ n \notin {r, r + 1} => token'[u][n] = token[u][n]
  <2>1. token[u][n] \in TokenRow
    BY <1>1
  <2>2. [token[u][n] EXCEPT !.state = "used"] \in TokenRow
    BY <2>1 DEF TokenRow, TokenStates
  <2>3. [state |-> "active", expires |-> e] \in TokenRow
    BY DEF TokenRow, TokenStates
  <2>4. CASE n = r + 1
    BY <1>2, <1>4, <2>3, <2>4
  <2>5. CASE n = r
    <3>1. token'[u][n] = [token[u][n] EXCEPT !.state = "used"]
      BY <1>2, <1>4, <2>5
    <3>2. token'[u][n].state = "used" /\ token'[u][n].expires = token[u][n].expires
      BY <2>1, <3>1 DEF TokenRow
    <3> QED
      BY <1>2, <2>2, <2>5, <3>1, <3>2
  <2>6. CASE n \notin {r, r + 1}
    BY <1>2, <1>4, <2>1, <2>6
  <2> QED
    BY <2>4, <2>5, <2>6
<1>6. token'[u] \in [Generations -> TokenRow]
  BY <1>4, <1>5
<1>7. /\ session[u].status = "open" /\ session'[u].status = "open"
      /\ session'[u].student = session[u].student /\ session'[u].device = session[u].device
      /\ session'[u].created = session[u].created /\ session'[u].expires = session[u].expires
      /\ session'[u].accessExpires <= session[u].expires
      /\ session'[u] \in SessionRow
  BY DEF Turns, SameLogin
<1> HIDE DEF r
<1>8. /\ session[u].student \in Students /\ session[u].device \in Devices
      /\ session[u].expires = session[u].created + RefreshLife
      /\ ~family[u].revoked /\ ~family[u].compromised
      /\ \A n \in Generations :
                /\ n < r => token[u][n].state = "used"
                /\ n = r => token[u][n].state = "active"
                /\ n > r => token[u][n].state = "absent"
                /\ token[u][n].expires <= session[u].expires
  BY <1>7 DEF Row, RowOK, r
<1>9. \A n \in Generations :
                /\ n < r + 1 => token'[u][n].state = "used"
                /\ n = r + 1 => token'[u][n].state = "active"
                /\ n > r + 1 => token'[u][n].state = "absent"
                /\ token'[u][n].expires <= session'[u].expires
  BY <1>2, <1>4, <1>5, <1>7, <1>8 DEF Generations
<1>10. Row(u)'
  BY <1>3, <1>7, <1>8, <1>9 DEF Row, RowOK
<1>11. Onward(u)
  <2>1. \A n \in Generations : n <= r =>
              /\ token'[u][n].expires = token[u][n].expires
              /\ token'[u][n].state = "active" => token[u][n].state = "active"
    BY <1>2, <1>5 DEF Generations
  <2>2. r <= r + 1
    BY <1>2
  <2> QED
    BY <1>3, <1>7, <1>8, <2>1, <2>2 DEF Onward, Live, r
<1> QED
  BY <1>3, <1>6, <1>7, <1>10, <1>11

LEMMA OpensSound ==
    ASSUME NEW u \in Sessions, FamilyTypeOK, Row(u), Opens(u)
    PROVE  /\ Row(u)' /\ Onward(u)
           /\ session'[u] \in SessionRow /\ family'[u] \in FamilyRow
           /\ token'[u] \in [Generations -> TokenRow]
<1>1. /\ session[u] \in SessionRow /\ family[u] \in FamilyRow
      /\ token[u] \in [Generations -> TokenRow]
  BY DEF FamilyTypeOK, TokenRow
<1>2. /\ session[u].status = "absent" /\ session'[u].status = "open"
      /\ session'[u] \in SessionRow
      /\ session'[u].student \in Students /\ session'[u].device \in Devices
      /\ session'[u].expires = session'[u].created + RefreshLife
      /\ session'[u].accessExpires <= session'[u].expires
      /\ family'[u] = family[u]
      /\ token'[u] = [n \in Generations |->
          IF n = 0 THEN [state |-> "active", expires |-> session'[u].expires]
          ELSE token[u][n]]
  BY DEF Opens
<1>3. /\ family[u].rotations = 0 /\ ~family[u].revoked /\ ~family[u].compromised
      /\ \A n \in Generations : token[u][n].state = "absent" /\ token[u][n].expires = 0
  BY <1>2 DEF Row, RowOK
<1>4. session'[u].expires \in Expiries
  BY <1>2 DEF SessionRow
<1>5. ASSUME NEW n \in Generations
      PROVE  /\ token'[u][n] \in TokenRow
             /\ n = 0 => token'[u][n].state = "active" /\ token'[u][n].expires = session'[u].expires
             /\ n # 0 => token'[u][n].state = "absent" /\ token'[u][n].expires = 0
  <2>1. token[u][n] \in TokenRow
    BY <1>1
  <2>2. [state |-> "active", expires |-> session'[u].expires] \in TokenRow
    BY <1>4 DEF TokenRow, TokenStates
  <2> QED
    BY <1>2, <1>3, <2>1, <2>2
<1>6. token'[u] \in [Generations -> TokenRow]
  BY <1>2, <1>5
<1>7. session'[u].expires >= 0 /\ session'[u].expires <= session'[u].expires
  BY <1>4 DEF Expiries
<1>8. Row(u)'
  <2>1. \A n \in Generations :
            /\ ~(n < 0)
            /\ n = 0 => token'[u][n].state = "active"
            /\ n > 0 => token'[u][n].state = "absent"
            /\ token'[u][n].expires <= session'[u].expires
    BY <1>5, <1>7 DEF Generations
  <2> QED
    BY <1>2, <1>3, <2>1 DEF Row, RowOK
<1> QED
  BY <1>1, <1>2, <1>6, <1>8 DEF Onward

LEMMA RowStepSound ==
    ASSUME NEW u \in Sessions, FamilyTypeOK, Row(u), RowStep(u)
    PROVE  /\ Row(u)' /\ Onward(u)
           /\ session'[u] \in SessionRow /\ family'[u] \in FamilyRow
           /\ token'[u] \in [Generations -> TokenRow]
<1>1. CASE Same(u)
  <2>1. family[u].rotations \in Int
    BY DEF FamilyTypeOK, FamilyRow, Generations
  <2> QED
    BY <1>1, <2>1 DEF Same, Row, Onward, Live, FamilyTypeOK, TokenRow
<1> QED
  BY <1>1, EndsSound, TouchedSound, TurnsSound, OpensSound DEF RowStep

\* The tables are sound when every row moves so, and what opens is the only
\* open session of its student.
LEMMA TablesStep ==
    ASSUME FamilyInv,
           session' = [u \in Sessions |-> session'[u]],
           family' = [u \in Sessions |-> family'[u]],
           token' = [u \in Sessions |-> token'[u]],
           issuances' \in [Students -> [Days -> 0..MaxDaily]],
           referenced' \in SUBSET Sessions,
           \A u \in Sessions : RowStep(u),
           \A u \in referenced' : u \in referenced \/ session'[u].status = "open",
           OneOpen'
    PROVE  FamilyInv' /\ \A u \in Sessions : Onward(u)
<1>1. \A u \in Sessions : /\ Row(u)' /\ Onward(u)
                          /\ session'[u] \in SessionRow /\ family'[u] \in FamilyRow
                          /\ token'[u] \in [Generations -> TokenRow]
  BY RowStepSound DEF FamilyInv
<1>2. FamilyTypeOK'
  BY <1>1 DEF FamilyTypeOK, TokenRow
<1>3. EvidenceKept'
  <2> SUFFICES ASSUME NEW u \in referenced' PROVE session'[u].status \in {"open", "revoked"}
    BY DEF EvidenceKept
  <2>1. CASE session'[u].status = "open"
    BY <2>1
  <2>2. CASE u \in referenced
    <3>1. u \in Sessions /\ session[u].status \in {"open", "revoked"}
      BY <2>2 DEF FamilyInv, FamilyTypeOK, EvidenceKept
    <3>2. RowStep(u)
      BY <3>1
    <3> QED
      BY <2>2, <3>1, <3>2 DEF RowStep, Same, Ends, Touched, Turns, Opens
  <2> QED
    BY <2>1, <2>2
<1> QED
  BY <1>1, <1>2, <1>3 DEF FamilyInv

-----------------------------------------------------------------------------
(* How often a student signed in on one day.                               *)

LEMMA Division ==
    ASSUME NEW a \in Int, NEW m \in Nat \ {0}
    PROVE  a \div m \in Int /\ m * (a \div m) <= a /\ a < m * (a \div m) + m
OBVIOUS

LEMMA DivisionMonotone ==
    ASSUME NEW a \in Int, NEW b \in Int, a <= b, NEW m \in Nat \ {0}
    PROVE  a \div m <= b \div m
BY Division

LEMMA DayMonotone ==
    ASSUME NEW t \in Int, NEW u \in Int, t <= u
    PROVE  Day(t) \in Int /\ Day(u) \in Int /\ Day(t) <= Day(u)
BY FamilyAssumption, Division, DivisionMonotone DEF Day

LEMMA DayOfTime ==
    ASSUME NEW t \in Times
    PROVE  Day(t) \in Days
<1>1. t \in Nat /\ t <= MaxTime /\ MaxTime \in Nat /\ DayLength \in Nat \ {0}
  BY FamilyAssumption DEF Times
<1>2. Day(t) \in 0..t
  BY <1>1 DEF Day
<1> QED
  BY <1>1, <1>2 DEF Days

Logins(st, d) == {s \in Sessions : /\ session[s].status # "absent"
                                   /\ session[s].student = st
                                   /\ Day(session[s].created) = d}

\* What the counters promise at time t: those of the retention are complete.
Counted(t) ==
    \A st \in Students, d \in Days :
        /\ Cardinality(Logins(st, d)) <= MaxDaily
        /\ Day(t - Retention) <= d => Cardinality(Logins(st, d)) <= issuances[st][d]

LEMMA LoginsFinite ==
    ASSUME NEW st, NEW d
    PROVE  IsFiniteSet(Logins(st, d)) /\ Cardinality(Logins(st, d)) \in Nat
<1>1. Logins(st, d) \in SUBSET Sessions
  BY DEF Logins
<1> QED
  BY <1>1, FamilyAssumption, FS_Subset, FS_CardinalityType

LEMMA CountedLater ==
    ASSUME FamilyTypeOK, NEW t \in Int, NEW u \in Int, t <= u, Counted(t)
    PROVE  Counted(u)
<1>1. Retention \in Int
  BY FamilyAssumption
<1>2. Day(t - Retention) <= Day(u - Retention) /\ Day(t - Retention) \in Int /\ Day(u - Retention) \in Int
  BY <1>1, DayMonotone
<1> SUFFICES ASSUME NEW st \in Students, NEW d \in Days
             PROVE /\ Cardinality(Logins(st, d)) <= MaxDaily
                   /\ Day(u - Retention) <= d => Cardinality(Logins(st, d)) <= issuances[st][d]
  BY DEF Counted
<1>3. d \in Int
  BY DEF Days
<1> QED
  BY <1>2, <1>3 DEF Counted

\* A step that opens no session keeps the count.
LEMMA NothingOpens ==
    ASSUME \A u \in Sessions : Onward(u),
           \A u \in Sessions : session[u].status = "absent" => session'[u] = session[u],
           UNCHANGED issuances, NEW t, Counted(t)
    PROVE  Counted(t)'
<1>1. \A st, d : Logins(st, d)' = Logins(st, d)
  BY DEF Logins, Onward
<1> QED
  BY <1>1 DEF Counted

-----------------------------------------------------------------------------
(* Every operator of TokenFamilies keeps the tables sound.                 *)

LEMMA ClosedRow ==
    ASSUME NEW row \in SessionRow, NEW at \in Times
    PROVE  /\ Closed(row, at) \in SessionRow /\ Closed(row, at).status = "revoked"
           /\ Closed(row, at).student = row.student /\ Closed(row, at).device = row.device
           /\ Closed(row, at).created = row.created /\ Closed(row, at).expires = row.expires
           /\ Closed(row, at).accessExpires = row.accessExpires
           /\ Closed(row, at).updated = at
BY DEF Closed, SessionRow, SessionStatus

LEMMA RevokeSound ==
    ASSUME FamilyInv, NEW S \in SUBSET Sessions, NEW at \in Times, RevokeRows(S, at),
           \A s \in S : session[s].status # "absent" /\ session[s].status # "pruned"
    PROVE  /\ FamilyInv' /\ \A u \in Sessions : Onward(u)
           /\ \A u \in Sessions : session[u].status = "absent" => session'[u] = session[u]
           /\ \A u \in Sessions : family'[u].compromised = family[u].compromised
           /\ \A u \in Sessions, n \in Generations :
                 token'[u][n].state = "used" => token[u][n].state = "used"
           /\ \A u \in Sessions : family'[u].rotations = family[u].rotations
<1>1. /\ session' = [s \in Sessions |-> IF s \in S THEN Closed(session[s], at) ELSE session[s]]
      /\ family' = [s \in Sessions |->
                      IF s \in S THEN [family[s] EXCEPT !.revoked = TRUE] ELSE family[s]]
      /\ token' = [s \in Sessions |-> IF s \in S THEN WithoutAccess(token[s]) ELSE token[s]]
      /\ UNCHANGED <<issuances, referenced>>
  BY DEF RevokeRows
<1>2. /\ session \in [Sessions -> SessionRow] /\ family \in [Sessions -> FamilyRow]
      /\ token \in [Sessions -> [Generations -> TokenRow]]
  BY DEF FamilyInv, FamilyTypeOK, TokenRow
<1>3. ASSUME NEW u \in S PROVE Ends(u)
  <2>1. session[u] \in SessionRow /\ family[u] \in FamilyRow
    BY <1>2
  <2>2. session'[u] = Closed(session[u], at) /\ token'[u] = WithoutAccess(token[u])
        /\ family'[u] = [family[u] EXCEPT !.revoked = TRUE]
    BY <1>1
  <2>3. family'[u] \in FamilyRow /\ family'[u].revoked /\ family'[u].rotations = family[u].rotations
    BY <2>1, <2>2 DEF FamilyRow
  <2>4. session[u].status \in {"open", "revoked"}
    BY <2>1 DEF SessionRow, SessionStatus
  <2> QED
    BY <2>1, <2>2, <2>3, <2>4, ClosedRow DEF Ends, SameLogin
<1>4. ASSUME NEW u \in Sessions, u \notin S PROVE Same(u)
  BY <1>1, <1>4 DEF Same
<1>5. \A u \in Sessions : RowStep(u)
  BY <1>3, <1>4 DEF RowStep
<1>6. OneOpen'
  <2> SUFFICES ASSUME NEW u \in Sessions, session'[u].status = "open" PROVE Same(u)
    BY DEF OneOpen, FamilyInv, Same
  <2> QED
    BY <1>3, <1>4 DEF Ends
<1>7. FamilyInv' /\ \A u \in Sessions : Onward(u)
  <2>1. /\ session' = [u \in Sessions |-> session'[u]] /\ family' = [u \in Sessions |-> family'[u]]
        /\ token' = [u \in Sessions |-> token'[u]]
        /\ issuances' \in [Students -> [Days -> 0..MaxDaily]] /\ referenced' \in SUBSET Sessions
        /\ \A u \in referenced' : u \in referenced \/ session'[u].status = "open"
    BY <1>1 DEF FamilyInv, FamilyTypeOK
  <2> QED
    BY <1>5, <1>6, <2>1, TablesStep
<1>8. ASSUME NEW u \in Sessions PROVE /\ family'[u].compromised = family[u].compromised
                                      /\ family'[u].rotations = family[u].rotations
  <2>1. family[u] \in FamilyRow
    BY <1>2
  <2> QED
    BY <1>1, <2>1 DEF FamilyRow
<1>9. ASSUME NEW u \in Sessions, NEW n \in Generations, token'[u][n].state = "used"
      PROVE  token[u][n].state = "used"
  <2>1. token[u][n] \in TokenRow
    BY <1>2
  <2> QED
    BY <1>1, <1>9, <2>1 DEF WithoutAccess, TokenRow
<1>10. \A u \in Sessions : session[u].status = "absent" => session'[u] = session[u]
  BY <1>1
<1> QED
  BY <1>7, <1>8, <1>9, <1>10

LEMMA ReuseSound ==
    ASSUME FamilyInv, NEW s \in Sessions, NEW n \in Generations, NEW at \in Times,
           ReuseDetected(s, n, at)
    PROVE  /\ FamilyInv' /\ \A u \in Sessions : Onward(u)
           /\ \A u \in Sessions : session[u].status = "absent" => session'[u] = session[u]
           /\ \A u \in Sessions : u # s => family'[u].compromised = family[u].compromised
           /\ \A u \in Sessions, m \in Generations :
                 token'[u][m].state = "used" => token[u][m].state = "used"
           /\ \A u \in Sessions : family'[u].rotations = family[u].rotations
           /\ session'[s].status = "revoked"
<1>1. /\ session' = [session EXCEPT ![s] = Closed(@, at)]
      /\ family' = [family EXCEPT ![s].compromised = TRUE, ![s].revoked = TRUE]
      /\ token' = [token EXCEPT ![s] = WithoutAccess(@)]
      /\ UNCHANGED <<issuances, referenced>>
      /\ session[s].status \in {"open", "revoked"}
  BY DEF ReuseDetected, IsReuse
<1>2. /\ session \in [Sessions -> SessionRow] /\ family \in [Sessions -> FamilyRow]
      /\ token \in [Sessions -> [Generations -> TokenRow]]
  BY DEF FamilyInv, FamilyTypeOK, TokenRow
<1>3. Ends(s)
  <2>1. session[s] \in SessionRow /\ family[s] \in FamilyRow
    BY <1>2
  <2>2. session'[s] = Closed(session[s], at) /\ token'[s] = WithoutAccess(token[s])
        /\ family'[s] = [[family[s] EXCEPT !.compromised = TRUE] EXCEPT !.revoked = TRUE]
    BY <1>1, <1>2
  <2>3. family'[s] \in FamilyRow /\ family'[s].revoked /\ family'[s].rotations = family[s].rotations
    BY <2>1, <2>2 DEF FamilyRow
  <2> QED
    BY <1>1, <2>1, <2>2, <2>3, ClosedRow DEF Ends, SameLogin
<1>4. ASSUME NEW u \in Sessions, u # s PROVE Same(u)
  BY <1>1, <1>2, <1>4 DEF Same
<1>5. \A u \in Sessions : RowStep(u)
  BY <1>3, <1>4 DEF RowStep
<1>6. OneOpen'
  <2> SUFFICES ASSUME NEW u \in Sessions, session'[u].status = "open" PROVE Same(u)
    BY DEF OneOpen, FamilyInv, Same
  <2> QED
    BY <1>3, <1>4 DEF Ends
<1>7. FamilyInv' /\ \A u \in Sessions : Onward(u)
  <2>1. /\ session' = [u \in Sessions |-> session'[u]] /\ family' = [u \in Sessions |-> family'[u]]
        /\ token' = [u \in Sessions |-> token'[u]]
        /\ issuances' \in [Students -> [Days -> 0..MaxDaily]] /\ referenced' \in SUBSET Sessions
        /\ \A u \in referenced' : u \in referenced \/ session'[u].status = "open"
    BY <1>1, <1>2 DEF FamilyInv, FamilyTypeOK
  <2> QED
    BY <1>5, <1>6, <2>1, TablesStep
<1>8. ASSUME NEW u \in Sessions PROVE /\ u # s => family'[u].compromised = family[u].compromised
                                      /\ family'[u].rotations = family[u].rotations
  BY <1>3, <1>4 DEF Same, Ends
<1>9. ASSUME NEW u \in Sessions, NEW m \in Generations, token'[u][m].state = "used"
      PROVE  token[u][m].state = "used"
  <2>1. token[u][m] \in TokenRow
    BY <1>2
  <2> QED
    BY <1>1, <1>2, <1>9, <2>1 DEF WithoutAccess, TokenRow
<1>10. \A u \in Sessions : session[u].status = "absent" => session'[u] = session[u]
  BY <1>1, <1>2
<1>11. session'[s].status = "revoked"
  BY <1>1, <1>2, ClosedRow
<1> QED
  BY <1>7, <1>8, <1>9, <1>10, <1>11

LEMMA UseSound ==
    ASSUME FamilyInv, NEW s \in Sessions, NEW n \in Generations, NEW at \in Times,
           NEW members, NEW keeps \in BOOLEAN, Use(s, n, members, keeps, at)
    PROVE  /\ FamilyInv' /\ \A u \in Sessions : Onward(u)
           /\ \A u \in Sessions : session[u].status = "absent" => session'[u] = session[u]
<1>1. /\ session' = [session EXCEPT ![s].updated = at]
      /\ referenced' = IF keeps THEN referenced \cup {s} ELSE referenced
      /\ UNCHANGED <<family, token, issuances>>
      /\ session[s].status = "open"
  BY DEF Use, Authorizes, Live
<1>2. /\ session \in [Sessions -> SessionRow] /\ family \in [Sessions -> FamilyRow]
      /\ token \in [Sessions -> [Generations -> TokenRow]]
  BY DEF FamilyInv, FamilyTypeOK, TokenRow
<1>3. Touched(s)
  <2>1. session[s] \in SessionRow
    BY <1>2
  <2>2. session'[s] = [session[s] EXCEPT !.updated = at]
    BY <1>1, <1>2
  <2>3. session'[s] \in SessionRow
    BY <2>1, <2>2 DEF SessionRow
  <2>4. /\ session'[s].status = session[s].status
        /\ session'[s].student = session[s].student /\ session'[s].device = session[s].device
        /\ session'[s].created = session[s].created /\ session'[s].expires = session[s].expires
        /\ session'[s].accessExpires = session[s].accessExpires
    BY <2>1, <2>2 DEF SessionRow
  <2> QED
    BY <1>1, <2>3, <2>4 DEF Touched, SameLogin
<1>4. ASSUME NEW u \in Sessions, u # s PROVE Same(u)
  BY <1>1, <1>2, <1>4 DEF Same
<1>5. \A u \in Sessions : RowStep(u)
  BY <1>3, <1>4 DEF RowStep
<1>6. OneOpen'
  <2> SUFFICES ASSUME NEW u \in Sessions
               PROVE  session'[u].status = session[u].status /\ session'[u].student = session[u].student
    BY DEF OneOpen, FamilyInv
  <2> QED
    BY <1>3, <1>4 DEF Same, Touched, SameLogin
<1>7. FamilyInv' /\ \A u \in Sessions : Onward(u)
  <2>1. session'[s].status = "open"
    BY <1>3 DEF Touched
  <2>2. /\ session' = [u \in Sessions |-> session'[u]] /\ family' = [u \in Sessions |-> family'[u]]
        /\ token' = [u \in Sessions |-> token'[u]]
        /\ issuances' \in [Students -> [Days -> 0..MaxDaily]] /\ referenced' \in SUBSET Sessions
        /\ \A u \in referenced' : u \in referenced \/ session'[u].status = "open"
    BY <1>1, <1>2, <2>1 DEF FamilyInv, FamilyTypeOK
  <2> QED
    BY <1>5, <1>6, <2>2, TablesStep
<1>8. \A u \in Sessions : session[u].status = "absent" => session'[u] = session[u]
  BY <1>1, <1>2
<1> QED
  BY <1>7, <1>8

LEMMA RotateSound ==
    ASSUME FamilyInv, NEW s \in Sessions, NEW n \in Generations, NEW at \in Times,
           NEW members, Rotate(s, n, members, at)
    PROVE  /\ FamilyInv' /\ \A u \in Sessions : Onward(u)
           /\ \A u \in Sessions : session[u].status = "absent" => session'[u] = session[u]
           /\ \A u \in Sessions : u # s => Same(u)
           /\ family'[s].compromised = family[s].compromised
           /\ n = family[s].rotations /\ family'[s].rotations = n + 1
           /\ session[s].status = "open" /\ session'[s].status = "open" /\ n + 1 \in Generations
           /\ token'[s][n].state = "used"
           /\ \A m \in Generations : m # n /\ token'[s][m].state = "used" => token[s][m].state = "used"
<1> DEFINE next == family[s].rotations + 1
           e == NewExpiry(s, at)
<1>1. /\ family[s].rotations < MaxRotations
      /\ family' = [family EXCEPT ![s].rotations = next]
      /\ token' = [token EXCEPT ![s] = [Consumed(@, n) EXCEPT ![next] = [state |-> "active", expires |-> e]]]
      /\ session' = [session EXCEPT ![s].accessExpires = Earlier(at + AccessLife, NewExpiry(s, at)),
                                    ![s].updated = at]
      /\ UNCHANGED <<issuances, referenced>>
      /\ session[s].status = "open" /\ token[s][n].state = "active"
  BY DEF Rotate, MayRotate, Live
<1>2. /\ session \in [Sessions -> SessionRow] /\ family \in [Sessions -> FamilyRow]
      /\ token \in [Sessions -> [Generations -> TokenRow]]
  BY DEF FamilyInv, FamilyTypeOK, TokenRow
<1>3. session[s] \in SessionRow /\ family[s] \in FamilyRow /\ token[s] \in [Generations -> TokenRow]
  BY <1>2
<1>4. family[s].rotations \in Nat /\ next \in Generations /\ n \in Nat
  BY <1>1, <1>3, FamilyAssumption DEF FamilyRow, Generations
<1>5. n = family[s].rotations
  <2>1. Row(s)
    BY DEF FamilyInv
  <2> QED
    BY <1>1, <1>4, <2>1 DEF Row, RowOK
<1>6. e \in Expiries /\ e <= session[s].expires
  <2>1. session[s].expires \in Expiries /\ at + RefreshLife \in Expiries
    BY <1>3, FamilyAssumption DEF SessionRow, Times, Expiries
  <2> QED
    BY <2>1 DEF NewExpiry, Earlier, Expiries
<1> DEFINE a == Earlier(at + AccessLife, e)
<1>7. a \in Expiries /\ a <= session[s].expires
  <2>1. session[s].expires \in Int /\ at + AccessLife \in Expiries
    BY <1>3, FamilyAssumption DEF SessionRow, Times, Expiries
  <2> QED
    BY <1>6, <2>1 DEF Earlier, Expiries
<1>8. session'[s] = [[session[s] EXCEPT !.accessExpires = a] EXCEPT !.updated = at]
  BY <1>1, <1>2
<1>9. token'[s] = [m \in Generations |->
                IF m = next THEN [state |-> "active", expires |-> e]
                ELSE IF m = n THEN [token[s][m] EXCEPT !.state = "used"]
                ELSE token[s][m]]
  <2>1. token'[s] = [Consumed(token[s], n) EXCEPT ![next] = [state |-> "active", expires |-> e]]
    BY <1>1, <1>2
  <2>2. Consumed(token[s], n) = [m \in Generations |->
                IF m = n THEN [token[s][m] EXCEPT !.state = "used"] ELSE token[s][m]]
    BY <1>3 DEF Consumed
  <2> QED
    BY <2>1, <2>2
<1>10. family'[s] = [family[s] EXCEPT !.rotations = next]
  BY <1>1, <1>2
<1> HIDE DEF a, e
<1>11. Turns(s)
  <2>1. [session[s] EXCEPT !.accessExpires = a] \in SessionRow
    BY <1>3, <1>7 DEF SessionRow
  <2>2. session'[s] \in SessionRow
    BY <1>8, <2>1 DEF SessionRow
  <2>3. /\ session'[s].status = session[s].status
        /\ session'[s].student = session[s].student /\ session'[s].device = session[s].device
        /\ session'[s].created = session[s].created /\ session'[s].expires = session[s].expires
        /\ session'[s].accessExpires = a
    BY <1>3, <1>8 DEF SessionRow
  <2> QED
    BY <1>1, <1>5, <1>6, <1>7, <1>9, <1>10, <2>2, <2>3 DEF Turns, SameLogin
<1>12. ASSUME NEW u \in Sessions, u # s PROVE Same(u)
  BY <1>1, <1>2, <1>12 DEF Same
<1>13. \A u \in Sessions : RowStep(u)
  BY <1>11, <1>12 DEF RowStep
<1>14. OneOpen'
  <2> SUFFICES ASSUME NEW u \in Sessions
               PROVE  session'[u].status = session[u].status /\ session'[u].student = session[u].student
    BY DEF OneOpen, FamilyInv
  <2> QED
    BY <1>11, <1>12 DEF Same, Turns, SameLogin
<1>15. FamilyInv' /\ \A u \in Sessions : Onward(u)
  <2>1. /\ session' = [u \in Sessions |-> session'[u]] /\ family' = [u \in Sessions |-> family'[u]]
        /\ token' = [u \in Sessions |-> token'[u]]
        /\ issuances' \in [Students -> [Days -> 0..MaxDaily]] /\ referenced' \in SUBSET Sessions
        /\ \A u \in referenced' : u \in referenced \/ session'[u].status = "open"
    BY <1>1, <1>2 DEF FamilyInv, FamilyTypeOK
  <2> QED
    BY <1>13, <1>14, <2>1, TablesStep
<1>16. family'[s].compromised = family[s].compromised /\ family'[s].rotations = next
  BY <1>3, <1>10 DEF FamilyRow
<1>17. \A m \in Generations :
          /\ m = n => token'[s][m].state = "used"
          /\ m # n /\ token'[s][m].state = "used" => token[s][m].state = "used"
  <2> SUFFICES ASSUME NEW m \in Generations
               PROVE  /\ m = n => token'[s][m].state = "used"
                      /\ m # n /\ token'[s][m].state = "used" => token[s][m].state = "used"
    OBVIOUS
  <2>1. token[s][m] \in TokenRow
    BY <1>3
  <2> QED
    BY <1>4, <1>5, <1>9, <2>1 DEF TokenRow
<1>18. \A u \in Sessions : session[u].status = "absent" => session'[u] = session[u]
  BY <1>1, <1>2
<1>19. session'[s].status = "open"
  BY <1>11 DEF Turns
<1> QED
  BY <1>1, <1>4, <1>5, <1>12, <1>15, <1>16, <1>17, <1>18, <1>19

LEMMA LimitSound ==
    ASSUME FamilyInv, NEW s \in Sessions, NEW n \in Generations, NEW at \in Times,
           NEW members, RotationLimit(s, n, members, at)
    PROVE  /\ FamilyInv' /\ \A u \in Sessions : Onward(u)
           /\ \A u \in Sessions : session[u].status = "absent" => session'[u] = session[u]
           /\ \A u \in Sessions : family'[u].compromised = family[u].compromised
           /\ \A u \in Sessions, m \in Generations :
                 token'[u][m].state = "used" => token[u][m].state = "used"
           /\ \A u \in Sessions : family'[u].rotations = family[u].rotations
           /\ session'[s].status = "revoked"
<1>1. /\ session[s].status = "open" /\ RevokeRows({s}, at)
  BY DEF RotationLimit, MayRotate, Live
<1>2. session'[s] = Closed(session[s], at) /\ session[s] \in SessionRow
  BY <1>1 DEF RevokeRows, FamilyInv, FamilyTypeOK
<1>3. \A u \in {s} : session[u].status # "absent" /\ session[u].status # "pruned"
  BY <1>1
<1>4. {s} \in SUBSET Sessions
  OBVIOUS
<1>5. session'[s].status = "revoked"
  BY <1>2, ClosedRow
<1>6. PICK S \in SUBSET Sessions : S = {s}
  BY <1>4
<1>7. RevokeRows(S, at) /\ \A u \in S : session[u].status # "absent" /\ session[u].status # "pruned"
  BY <1>1, <1>3, <1>6
<1> QED
  BY <1>5, <1>7, RevokeSound

\* What a login does to the earlier sessions of its student.
LEMMA SupersededRow ==
    ASSUME FamilyInv, NEW st \in Students, NEW at \in Times, NEW u \in Superseding(st)
    PROVE  LET new == Superseded(st, at)[u]
           IN  /\ session[u].status \in {"open", "revoked"} /\ session[u].student = st
               /\ new \in SessionRow /\ new.status \in {"revoked", "pruned"}
               /\ new.status = "pruned" => u \notin referenced
               /\ new.student = st /\ new.device = session[u].device
               /\ new.created = session[u].created /\ new.expires = session[u].expires
               /\ new.accessExpires = session[u].accessExpires
<1>1. /\ u \in Sessions /\ session[u] \in SessionRow
      /\ session[u].student = st /\ session[u].status # "pruned"
  BY DEF Superseding, FamilyInv, FamilyTypeOK
<1>2. session[u].status # "absent"
  <2>1. Row(u)
    BY <1>1 DEF FamilyInv
  <2> QED
    BY <1>1, <2>1, FamilyAssumption DEF Row, RowOK
<1>3. session[u].status \in {"open", "revoked"}
  BY <1>1, <1>2 DEF SessionRow, SessionStatus
<1> DEFINE closed == [s \in Sessions |->
                      IF s \in Rows(st) /\ session[s].status = "open"
                      THEN Closed(session[s], at) ELSE session[s]]
<1>4. u \in Rows(st)
  BY <1>1, <1>3 DEF Rows
<1>5. /\ closed[u] \in SessionRow /\ closed[u].status = "revoked"
      /\ closed[u].student = st /\ closed[u].device = session[u].device
      /\ closed[u].created = session[u].created /\ closed[u].expires = session[u].expires
      /\ closed[u].accessExpires = session[u].accessExpires
  <2>1. closed[u] = IF session[u].status = "open" THEN Closed(session[u], at) ELSE session[u]
    BY <1>1, <1>4
  <2> HIDE DEF closed
  <2> QED
    BY <1>1, <1>3, <2>1, ClosedRow
<1>6. Superseded(st, at)[u] = IF u \in Forgettable(closed, st, at)
                              THEN [closed[u] EXCEPT !.status = "pruned"] ELSE closed[u]
  BY <1>1 DEF Superseded
<1>7. u \in Forgettable(closed, st, at) => u \notin referenced
  BY DEF Forgettable
<1> HIDE DEF closed
<1>8. PICK row \in SessionRow : row = closed[u]
  BY <1>5
<1>9. /\ [row EXCEPT !.status = "pruned"] \in SessionRow
      /\ [row EXCEPT !.status = "pruned"].status = "pruned"
      /\ [row EXCEPT !.status = "pruned"].student = row.student
      /\ [row EXCEPT !.status = "pruned"].device = row.device
      /\ [row EXCEPT !.status = "pruned"].created = row.created
      /\ [row EXCEPT !.status = "pruned"].expires = row.expires
      /\ [row EXCEPT !.status = "pruned"].accessExpires = row.accessExpires
  BY DEF SessionRow, SessionStatus
<1> QED
  BY <1>1, <1>3, <1>5, <1>6, <1>7, <1>8, <1>9

LEMMA IssueSound ==
    ASSUME FamilyInv, NEW s \in Sessions, NEW st \in Students, NEW dev \in Devices,
           NEW at \in Times, IssueSession(s, st, dev, at)
    PROVE  /\ FamilyInv' /\ \A u \in Sessions : Onward(u)
           /\ session[s].status = "absent" /\ session'[s] = NewSession(st, dev, at)
           /\ \A u \in Sessions \ {s} : session[u].status = "absent" => session'[u] = session[u]
           /\ \A u \in Sessions \ {s} : session'[u].status = "open" => session'[u] = session[u] /\ session[u].student # st
           /\ \A u \in Sessions : family'[u].compromised = family[u].compromised
           /\ \A u \in Sessions, m \in Generations :
                 token'[u][m].state = "used" => token[u][m].state = "used"
           /\ \A u \in Sessions : family'[u].rotations = family[u].rotations
           /\ issuances' = [CountersAfter(at) EXCEPT ![st][Day(at)] = @ + 1]
           /\ CountersAfter(at)[st][Day(at)] < MaxDaily
<1>1. /\ session[s].status = "absent"
      /\ CountersAfter(at)[st][Day(at)] < MaxDaily
      /\ session' = [u \in Sessions |->
                      IF u = s THEN NewSession(st, dev, at)
                      ELSE IF u \in Superseding(st) THEN Superseded(st, at)[u]
                      ELSE session[u]]
      /\ family' = [u \in Sessions |->
                      IF u \in Superseding(st)
                      THEN [family[u] EXCEPT !.revoked = TRUE] ELSE family[u]]
      /\ token' = [u \in Sessions |->
                    IF u = s
                    THEN [token[s] EXCEPT ![0] =
                             [state |-> "active", expires |-> at + RefreshLife]]
                    ELSE IF u \in Superseding(st) THEN WithoutAccess(token[u])
                    ELSE token[u]]
      /\ issuances' = [CountersAfter(at) EXCEPT ![st][Day(at)] = @ + 1]
      /\ UNCHANGED referenced
  BY DEF IssueSession, HasDailyRoom
<1>2. /\ session \in [Sessions -> SessionRow] /\ family \in [Sessions -> FamilyRow]
      /\ token \in [Sessions -> [Generations -> TokenRow]]
      /\ issuances \in [Students -> [Days -> 0..MaxDaily]]
  BY DEF FamilyInv, FamilyTypeOK, TokenRow
<1>3. s \notin Superseding(st)
  <2>1. Row(s)
    BY DEF FamilyInv
  <2> QED
    BY <1>1, <2>1, FamilyAssumption DEF Row, RowOK, Superseding
<1>4. Opens(s)
  <2>1. at + RefreshLife \in Expiries /\ at + AccessLife \in Expiries /\ at + AccessLife <= at + RefreshLife
    BY FamilyAssumption DEF Times, Expiries
  <2>2. session'[s] = NewSession(st, dev, at)
    BY <1>1
  <2>3. NewSession(st, dev, at) \in SessionRow
    BY <2>1 DEF NewSession, SessionRow, SessionStatus
  <2>4. token'[s] = [n \in Generations |->
          IF n = 0 THEN [state |-> "active", expires |-> at + RefreshLife] ELSE token[s][n]]
    <3>1. token[s] \in [Generations -> TokenRow]
      BY <1>2
    <3>2. token'[s] = [token[s] EXCEPT ![0] = [state |-> "active", expires |-> at + RefreshLife]]
      BY <1>1
    <3> QED
      BY <3>1, <3>2
  <2>5. family'[s] = family[s]
    BY <1>1, <1>3
  <2>6. /\ NewSession(st, dev, at).status = "open" /\ NewSession(st, dev, at).student = st
        /\ NewSession(st, dev, at).device = dev /\ NewSession(st, dev, at).created = at
        /\ NewSession(st, dev, at).expires = at + RefreshLife
        /\ NewSession(st, dev, at).accessExpires = at + AccessLife
    BY DEF NewSession
  <2> QED
    BY <1>1, <2>1, <2>2, <2>3, <2>4, <2>5, <2>6 DEF Opens
<1>5. ASSUME NEW u \in Superseding(st) PROVE Ends(u) /\ u \in Sessions /\ u # s
  <2>1. u \in Sessions /\ u # s
    BY <1>3 DEF Superseding
  <2>2. family[u] \in FamilyRow
    BY <1>2, <2>1
  <2>3. session'[u] = Superseded(st, at)[u] /\ token'[u] = WithoutAccess(token[u])
        /\ family'[u] = [family[u] EXCEPT !.revoked = TRUE]
    BY <1>1, <2>1
  <2>4. family'[u] \in FamilyRow /\ family'[u].revoked /\ family'[u].rotations = family[u].rotations
    BY <2>2, <2>3 DEF FamilyRow
  <2> QED
    BY <2>1, <2>3, <2>4, SupersededRow DEF Ends, SameLogin
<1>6. ASSUME NEW u \in Sessions, u # s, u \notin Superseding(st) PROVE Same(u)
  BY <1>1, <1>6 DEF Same
<1>7. \A u \in Sessions : RowStep(u)
  BY <1>4, <1>5, <1>6 DEF RowStep
<1>8. ASSUME NEW u \in Sessions \ {s}, session'[u].status = "open"
      PROVE  session'[u] = session[u] /\ session[u].student # st
  BY <1>5, <1>6, <1>8 DEF Ends, Same, Superseding
<1>9. session'[s].status = "open" /\ session'[s].student = st
  BY <1>1 DEF NewSession
<1>10. OneOpen'
  BY <1>8, <1>9 DEF OneOpen, FamilyInv
<1>11. issuances' \in [Students -> [Days -> 0..MaxDaily]]
  <2>1. CountersAfter(at) \in [Students -> [Days -> 0..MaxDaily]]
    <3>1. ASSUME NEW x \in Students, NEW d \in Days
          PROVE  (IF d < Day(at - Retention) THEN 0 ELSE issuances[x][d]) \in 0..MaxDaily
      <4>1. 0 \in 0..MaxDaily
        BY FamilyAssumption
      <4> QED
        BY <1>2, <4>1
    <3> QED
      BY <3>1 DEF CountersAfter
  <2>2. Day(at) \in Days
    BY DayOfTime
  <2>3. PICK c \in [Students -> [Days -> 0..MaxDaily]] : c = CountersAfter(at)
    BY <2>1
  <2>4. c[st][Day(at)] + 1 \in 0..MaxDaily
    <3>1. c[st][Day(at)] \in 0..MaxDaily /\ c[st][Day(at)] < MaxDaily
      BY <1>1, <2>2, <2>3
    <3> QED
      BY <3>1, FamilyAssumption
  <2>5. issuances' = [c EXCEPT ![st] = [c[st] EXCEPT ![Day(at)] = c[st][Day(at)] + 1]]
    BY <1>1, <2>3
  <2>6. [c[st] EXCEPT ![Day(at)] = c[st][Day(at)] + 1] \in [Days -> 0..MaxDaily]
    BY <2>2, <2>4
  <2> QED
    BY <2>5, <2>6
<1>12. FamilyInv' /\ \A u \in Sessions : Onward(u)
  <2>1. /\ session' = [u \in Sessions |-> session'[u]] /\ family' = [u \in Sessions |-> family'[u]]
        /\ token' = [u \in Sessions |-> token'[u]] /\ referenced' \in SUBSET Sessions
        /\ \A u \in referenced' : u \in referenced \/ session'[u].status = "open"
    BY <1>1 DEF FamilyInv, FamilyTypeOK
  <2> QED
    BY <1>7, <1>10, <1>11, <2>1, TablesStep
<1>13. ASSUME NEW u \in Sessions PROVE /\ family'[u].compromised = family[u].compromised
                                      /\ family'[u].rotations = family[u].rotations
  <2>1. family[u] \in FamilyRow
    BY <1>2
  <2> QED
    BY <1>1, <2>1 DEF FamilyRow
<1>14. ASSUME NEW u \in Sessions, NEW m \in Generations, token'[u][m].state = "used"
      PROVE  token[u][m].state = "used"
  <2>1. token[u][m] \in TokenRow /\ token[u] \in [Generations -> TokenRow]
    BY <1>2
  <2> QED
    BY <1>1, <1>14, <2>1 DEF WithoutAccess, TokenRow
<1>15. ASSUME NEW u \in Sessions \ {s}, session[u].status = "absent"
       PROVE  session'[u] = session[u]
  <2>1. u \notin Superseding(st)
    BY <1>5, <1>15 DEF Ends
  <2> QED
    BY <1>1, <2>1
<1> QED
  BY <1>1, <1>8, <1>12, <1>13, <1>14, <1>15

\* A login is counted on its day, and the day is one the counters still keep.
LEMMA IssueCounted ==
    ASSUME FamilyInv, NEW s \in Sessions, NEW st \in Students, NEW dev \in Devices,
           NEW at \in Times, IssueSession(s, st, dev, at),
           NEW t \in Int, at <= t, t - at <= Retention, Counted(t)
    PROVE  Counted(t)'
<1>1. /\ \A u \in Sessions : Onward(u)
      /\ session[s].status = "absent" /\ session'[s] = NewSession(st, dev, at)
      /\ \A u \in Sessions \ {s} : session[u].status = "absent" => session'[u] = session[u]
      /\ issuances' = [CountersAfter(at) EXCEPT ![st][Day(at)] = @ + 1]
      /\ CountersAfter(at)[st][Day(at)] < MaxDaily
  BY IssueSound
<1>2. session'[s].status = "open" /\ session'[s].student = st /\ session'[s].created = at
  BY <1>1 DEF NewSession
<1>3. Day(at) \in Days /\ at \in Int /\ Retention \in Int
  BY DayOfTime, FamilyAssumption DEF Times
<1>4. Day(at - Retention) <= Day(t - Retention) /\ Day(t - Retention) <= Day(at)
      /\ Day(at - Retention) \in Int /\ Day(t - Retention) \in Int /\ Day(at) \in Int
  <2>1. at - Retention \in Int /\ t - Retention \in Int /\ at - Retention <= t - Retention
        /\ t - Retention <= at
    BY <1>3
  <2> QED
    BY <1>3, <2>1, DayMonotone
<1>5. issuances \in [Students -> [Days -> 0..MaxDaily]]
  BY DEF FamilyInv, FamilyTypeOK
<1>6. \A x \in Students, d \in Days :
         issuances'[x][d] = (IF d < Day(at - Retention) THEN 0 ELSE issuances[x][d])
                            + (IF x = st /\ d = Day(at) THEN 1 ELSE 0)
  <2> SUFFICES ASSUME NEW x \in Students, NEW d \in Days
               PROVE  issuances'[x][d] = (IF d < Day(at - Retention) THEN 0 ELSE issuances[x][d])
                            + (IF x = st /\ d = Day(at) THEN 1 ELSE 0)
    OBVIOUS
  <2>1. issuances[x][d] \in 0..MaxDaily
    BY <1>5
  <2> QED
    BY <1>1, <1>3, <2>1 DEF CountersAfter
<1>7. \A x, d : Logins(x, d)' = IF x = st /\ d = Day(at) THEN Logins(x, d) \cup {s} ELSE Logins(x, d)
  BY <1>1, <1>2 DEF Logins, Onward
<1> SUFFICES ASSUME NEW x \in Students, NEW d \in Days
             PROVE /\ Cardinality(Logins(x, d)') <= MaxDaily
                   /\ Day(t - Retention) <= d => Cardinality(Logins(x, d)') <= issuances'[x][d]
  BY DEF Counted
<1>8. /\ Cardinality(Logins(x, d)) <= MaxDaily
      /\ Day(t - Retention) <= d => Cardinality(Logins(x, d)) <= issuances[x][d]
      /\ Cardinality(Logins(x, d)) \in Nat /\ IsFiniteSet(Logins(x, d))
  BY LoginsFinite DEF Counted
<1>9. d \in Int /\ issuances[x][d] \in Nat /\ MaxDaily \in Nat
  BY <1>5, FamilyAssumption DEF Days
<1>10. CASE x = st /\ d = Day(at)
  <2>1. Logins(x, d)' = Logins(x, d) \cup {s} /\ s \notin Logins(x, d)
    BY <1>1, <1>7, <1>10 DEF Logins
  <2>2. Cardinality(Logins(x, d)') = Cardinality(Logins(x, d)) + 1
    BY <1>8, <2>1, FS_AddElement
  <2>3. issuances'[x][d] = issuances[x][d] + 1 /\ issuances[x][d] < MaxDaily
    BY <1>1, <1>3, <1>4, <1>6, <1>9, <1>10 DEF CountersAfter
  <2> QED
    BY <1>4, <1>8, <1>9, <1>10, <2>2, <2>3
<1>11. CASE ~(x = st /\ d = Day(at))
  <2>1. Logins(x, d)' = Logins(x, d)
    BY <1>7, <1>11
  <2> QED
    BY <1>4, <1>6, <1>8, <1>9, <1>11, <2>1
<1> QED
  BY <1>10, <1>11

LEMMA FamilyStart ==
    ASSUME FamilyInit, NEW t
    PROVE  FamilyInv /\ Counted(t)
<1>1. 0 \in Times /\ 0 \in Expiries /\ 0 \in Generations /\ 0 \in 0..MaxDaily
  BY FamilyAssumption DEF Times, Expiries, Generations
<1>2. NoSession \in SessionRow
  BY <1>1 DEF NoSession, SessionRow, SessionStatus
<1>3. [revoked |-> FALSE, compromised |-> FALSE, rotations |-> 0] \in FamilyRow
  BY <1>1 DEF FamilyRow
<1>4. [state |-> "absent", expires |-> 0] \in TokenRow
  BY <1>1 DEF TokenRow, TokenStates
<1>5. FamilyTypeOK
  BY <1>1, <1>2, <1>3, <1>4 DEF FamilyTypeOK, FamilyInit, TokenRow
<1>6. ASSUME NEW s \in Sessions PROVE Row(s)
  BY DEF FamilyInit, Row, RowOK, NoSession
<1>7. \A s \in Sessions : session[s].status = "absent"
  BY DEF FamilyInit, NoSession
<1>8. Counted(t)
  <2>1. \A st, d : Logins(st, d) = {}
    BY <1>7 DEF Logins
  <2>2. Cardinality({}) = 0
    BY FS_EmptySet
  <2>3. 0 <= MaxDaily
    BY FamilyAssumption
  <2>4. \A st \in Students, d \in Days : 0 <= issuances[st][d]
    BY DEF FamilyInit
  <2> QED
    BY <2>1, <2>2, <2>3, <2>4 DEF Counted
<1> QED
  BY <1>5, <1>6, <1>7, <1>8 DEF FamilyInv, OneOpen, EvidenceKept, FamilyInit

-----------------------------------------------------------------------------
(* SessionRefresh: the client, the flights and the rotation together.      *)

Past == {"rotated", "removed", "answered", "done"}
Asked(c) == call[c].at # "unused"

Issued(t) == session[t[1]].status # "absent" /\ t[2] <= family[t[1]].rotations

\* A token that no request will ever exchange again.
Spent(t) ==
    \/ token[t[1]][t[2]].state # "active"
    \/ ~Live(t[1])
    \/ token[t[1]][t[2]].expires <= 0

\* An answer was lost, and the client kept its tokens all the same.
Excused == mishaps > 0 /\ ~cautious

RefreshTypes ==
    /\ cautious \in BOOLEAN
    /\ held \in Tokens \cup {Nobody}
    /\ generation \in Nat
    /\ refreshing \in (Calls \X Nat) \cup {Nobody}
    /\ {expected, pairing} \subseteq Sessions \cup {Nobody}
    /\ call \in [Calls -> CallRow]
    /\ flight \in [Tokens -> Calls \cup {Nobody}]
    /\ mishaps \in 0..MaxMishaps

\* What the client holds, and a login it has not stored yet.
HeldSound ==
    /\ held = Nobody <=> expected = Nobody
    /\ held # Nobody => held[1] = expected /\ Issued(held)

PairingSound ==
    pairing # Nobody =>
        /\ session[pairing].status # "absent" /\ family[pairing].rotations = 0
        /\ held # Nobody => held[1] # pairing
        /\ \A c \in Calls : Asked(c) => call[c].token[1] # pairing

\* The requests as the client sees them: one that is still current presented
\* the token that is held, and the client waits for it.
AskSound(c) ==
    /\ ~Asked(c) => call[c] = NoCall
    /\ Asked(c) =>
          /\ call[c].token \in Tokens /\ Issued(call[c].token)
          /\ call[c].generation <= generation
          /\ IsCurrent(c) => held = call[c].token
          /\ IsCurrent(c) => refreshing = <<c, generation>> \/ Excused
          /\ held # Nobody /\ call[c].token[1] = held[1] => call[c].token[2] <= held[2]
          /\ call[c].token = held => IsCurrent(c)
          /\ call[c].at = "gone" => mishaps > 0
          /\ mishaps = 0 /\ call[c].at # "done" => call[c].awaited

\* The requests as the server sees them.
AnswerSound(c) ==
    Asked(c) =>
        /\ call[c].result # Refused =>
              /\ call[c].result = <<call[c].token[1], call[c].token[2] + 1>>
              /\ Issued(call[c].result)
              /\ call[c].at \in Past \cup {"gone"}
        /\ call[c].at \in Past => Spent(call[c].token)
        /\ call[c].late => Spent(call[c].token)
        /\ call[c].late /\ call[c].at \in Past => call[c].result = Refused

WaitSound(c) ==
    /\ call[c].at \in {"leading", "rotated"} => flight[call[c].token] = c
    /\ call[c].at = "following" =>
          /\ call[c].leader \in Calls
          /\ LET e == call[c].leader
             IN  /\ call[e].token = call[c].token
                 /\ call[e].at \in Past \cup {"leading"}
                 /\ call[c].late /\ call[e].at \in Past => call[e].result = Refused

FlightSound(t) ==
    flight[t] # Nobody => /\ call[flight[t]].token = t
                          /\ call[flight[t]].at \in {"leading", "rotated"}

\* A token is presented twice only after an answer was lost, and what an
\* exchange brings is known to nobody before the flight has landed.
TwiceSound(c, d) ==
    c # d /\ Asked(c) /\ Asked(d) /\ call[c].token = call[d].token =>
        /\ Excused
        /\ call[c].at = "rotated" /\ call[c].result # Refused => call[d].at \notin Past

\* A used token was presented, and a family is compromised with an excuse.
UsedSound(s) ==
    /\ \A n \in Generations : token[s][n].state = "used" =>
          \E c \in Calls : call[c].token = <<s, n>> /\ call[c].at \in Past \cup {"gone"}
    /\ family[s].compromised => Excused

\* While nothing was lost the client can go on.
CanGoOn ==
    mishaps = 0 /\ held # Nobody /\ Live(held[1]) =>
        \/ held[2] = family[held[1]].rotations
        \/ \E c \in Calls : /\ Asked(c) /\ IsCurrent(c) /\ call[c].at # "done"
                            /\ call[c].result = <<held[1], family[held[1]].rotations>>

RefreshInv ==
    /\ FamilyInv /\ RefreshTypes
    /\ HeldSound /\ PairingSound
    /\ \A c \in Calls : AskSound(c) /\ AnswerSound(c) /\ WaitSound(c)
    /\ \A t \in Tokens : FlightSound(t)
    /\ \A c, d \in Calls : TwiceSound(c, d)
    /\ \A s \in Sessions : UsedSound(s)
    /\ CanGoOn

LEMMA TokenShape ==
    ASSUME NEW t \in Tokens
    PROVE  /\ t[1] \in Sessions /\ t[2] \in Generations /\ t[2] \in Nat /\ t = <<t[1], t[2]>>
           /\ t # Nobody /\ t # Refused
<1>1. t[1] \in Sessions /\ t[2] \in Generations /\ t = <<t[1], t[2]>>
  BY DEF Tokens
<1>2. t # Nobody
  BY RefreshAssumption
<1>3. t # Refused
  BY <1>1 DEF Refused
<1> QED
  BY <1>1, <1>2, <1>3, FamilyAssumption DEF Generations

LEMMA TokenPair ==
    ASSUME NEW s \in Sessions, NEW n \in Generations
    PROVE  <<s, n>> \in Tokens /\ <<s, n>>[1] = s /\ <<s, n>>[2] = n
BY DEF Tokens

LEMMA RotationsNat ==
    ASSUME FamilyInv, NEW s \in Sessions
    PROVE  family[s].rotations \in Generations /\ family[s].rotations \in Nat
<1>1. family[s].rotations \in Generations
  BY DEF FamilyInv, FamilyTypeOK, FamilyRow
<1> QED
  BY <1>1, FamilyAssumption DEF Generations

\* What was issued stays issued, and what is spent stays spent.
LEMMA TokensKept ==
    ASSUME FamilyInv, FamilyInv', \A u \in Sessions : Onward(u)
    PROVE  /\ \A t \in Tokens : Issued(t) => Issued(t)'
           /\ \A t \in Tokens : Issued(t) /\ Spent(t) => Spent(t)'
           /\ \A s \in Sessions : session[s].status # "absent" => session'[s].status # "absent"
           /\ \A s \in Sessions : session[s].status # "absent" /\ Live(s)' => Live(s)
<1> SUFFICES ASSUME NEW t \in Tokens, Issued(t)
             PROVE  Issued(t)' /\ (Spent(t) => Spent(t)')
  BY DEF Onward
<1>1. t[1] \in Sessions /\ t[2] \in Generations /\ t[2] \in Nat
  BY TokenShape
<1>2. /\ family[t[1]].rotations \in Nat /\ family'[t[1]].rotations \in Nat
  <2>1. family[t[1]].rotations \in Nat
    BY <1>1, RotationsNat
  <2>2. family'[t[1]].rotations \in Generations
    BY <1>1 DEF FamilyInv, FamilyTypeOK, FamilyRow
  <2> QED
    BY <2>1, <2>2, FamilyAssumption DEF Generations
<1>3. Onward(t[1])
  BY <1>1
<1>4. Issued(t)'
  BY <1>1, <1>2, <1>3 DEF Issued, Onward
<1>5. Spent(t) => Spent(t)'
  BY <1>1, <1>3 DEF Spent, Issued, Onward
<1> QED
  BY <1>4, <1>5

LEMMA FamilyStill ==
    ASSUME FamilyInv, UNCHANGED familyVars
    PROVE  /\ FamilyInv' /\ (\A u \in Sessions : Onward(u))
           /\ \A u \in Sessions : Same(u)
<1>1. UNCHANGED <<session, family, token, issuances, referenced>>
  BY DEF familyVars
<1>2. FamilyInv'
  BY <1>1 DEF FamilyInv, FamilyTypeOK, Row, OneOpen, EvidenceKept
<1>3. \A u \in Sessions : Same(u)
  BY <1>1 DEF Same
<1>4. ASSUME NEW u \in Sessions PROVE Onward(u)
  BY <1>1, RotationsNat DEF Onward, Live
<1> QED
  BY <1>2, <1>3, <1>4

LEMMA AtRow ==
    ASSUME NEW row \in CallRow, NEW x \in Places
    PROVE  LET new == [row EXCEPT !.at = x]
           IN  /\ new \in CallRow /\ new.at = x
               /\ new.token = row.token /\ new.generation = row.generation
               /\ new.leader = row.leader /\ new.awaited = row.awaited
               /\ new.late = row.late /\ new.result = row.result
BY DEF CallRow

\* One request moves to another place.
LEMMA OneMoves ==
    ASSUME RefreshTypes, NEW c \in Calls, NEW x \in Places, call' = [call EXCEPT ![c].at = x]
    PROVE  /\ call' \in [Calls -> CallRow]
           /\ call'[c].at = x
           /\ call'[c].token = call[c].token /\ call'[c].generation = call[c].generation
           /\ call'[c].leader = call[c].leader /\ call'[c].awaited = call[c].awaited
           /\ call'[c].late = call[c].late /\ call'[c].result = call[c].result
           /\ \A d \in Calls : d # c => call'[d] = call[d]
           /\ \A d \in Calls : /\ call'[d].token = call[d].token
                               /\ call'[d].generation = call[d].generation
                               /\ call'[d].result = call[d].result
                               /\ call'[d].late = call[d].late
                               /\ call'[d].leader = call[d].leader
                               /\ call'[d].awaited = call[d].awaited
<1>1. call \in [Calls -> CallRow] /\ call[c] \in CallRow
  BY DEF RefreshTypes
<1>2. call'[c] = [call[c] EXCEPT !.at = x] /\ \A d \in Calls : d # c => call'[d] = call[d]
  BY <1>1
<1>3. call' \in [Calls -> CallRow]
  BY <1>1, AtRow
<1> QED
  BY <1>1, <1>2, <1>3, AtRow

-----------------------------------------------------------------------------
(* The client's steps.                                                     *)

\* A client that takes or drops tokens starts a generation of its own, in
\* which no request is current.
LEMMA NextGeneration ==
    ASSUME RefreshInv, generation' = generation + 1, NEW c \in Calls, Asked(c),
           call'[c].generation = call[c].generation
    PROVE  generation' \in Nat /\ ~IsCurrent(c)' /\ call'[c].generation <= generation'
<1>1. generation \in Nat /\ call[c].generation \in Nat /\ call[c].generation <= generation
  BY DEF RefreshInv, RefreshTypes, CallRow, AskSound
<1> QED
  BY <1>1 DEF IsCurrent

LEMMA StoreSessionKeeps ==
    ASSUME RefreshInv, StoreSession, cautious' = cautious
    PROVE  RefreshInv'
<1>1. /\ pairing # Nobody /\ held' = <<pairing, 0>> /\ generation' = generation + 1
      /\ expected' = pairing /\ pairing' = Nobody
      /\ UNCHANGED familyVars /\ UNCHANGED <<refreshing, call, flight, mishaps>>
  BY DEF StoreSession
<1>2. FamilyInv' /\ UNCHANGED <<session, family, token>>
  BY <1>1, FamilyStill DEF RefreshInv, familyVars
<1>3. /\ pairing \in Sessions /\ session[pairing].status # "absent" /\ family[pairing].rotations = 0
      /\ \A c \in Calls : Asked(c) => call[c].token[1] # pairing
  BY <1>1 DEF RefreshInv, RefreshTypes, PairingSound
<1>4. 0 \in Generations /\ generation \in Nat
  BY FamilyAssumption DEF Generations, RefreshInv, RefreshTypes
<1>5. held' \in Tokens /\ held'[1] = pairing /\ held'[2] = 0 /\ held' # Nobody /\ pairing # Nobody
  BY <1>1, <1>3, <1>4, TokenPair, TokenShape
<1>6. RefreshTypes'
  BY <1>1, <1>3, <1>4, <1>5 DEF RefreshInv, RefreshTypes
<1>7. HeldSound'
  BY <1>1, <1>2, <1>3, <1>5 DEF HeldSound, Issued
<1>8. PairingSound'
  BY <1>1 DEF PairingSound
<1>9. ASSUME NEW c \in Calls PROVE AskSound(c)'
  <2>1. AskSound(c)
    BY DEF RefreshInv
  <2>2. CASE ~Asked(c)
    BY <1>1, <2>1, <2>2 DEF AskSound, Asked
  <2>3. CASE Asked(c)
    <3>1. ~IsCurrent(c)' /\ call'[c].generation <= generation'
      BY <1>1, <2>3, NextGeneration
    <3>2. call[c].token[1] # held'[1]
      BY <1>3, <1>5, <2>3
    <3>3. call[c].token \in Tokens /\ Issued(call[c].token)'
      BY <1>2, <2>1, <2>3, <1>1 DEF AskSound, Issued
    <3> QED
      BY <1>1, <2>1, <2>3, <3>1, <3>2, <3>3 DEF AskSound, Asked
  <2> QED
    BY <2>2, <2>3
<1>10. \A c \in Calls : AnswerSound(c)' /\ WaitSound(c)'
  BY <1>1, <1>2 DEF RefreshInv, AnswerSound, WaitSound, Asked, Spent, Issued, Live
<1>11. \A t \in Tokens : FlightSound(t)'
  BY <1>1 DEF RefreshInv, FlightSound
<1>12. \A c, d \in Calls : TwiceSound(c, d)'
  BY <1>1 DEF RefreshInv, TwiceSound, Asked, Excused
<1>13. \A s \in Sessions : UsedSound(s)'
  BY <1>1, <1>2 DEF RefreshInv, UsedSound, Excused
<1>14. CanGoOn'
  BY <1>2, <1>3, <1>5 DEF CanGoOn
<1> QED
  BY <1>2, <1>6, <1>7, <1>8, <1>9, <1>10, <1>11, <1>12, <1>13, <1>14 DEF RefreshInv

\* A client without tokens has nothing of what the current requests ask.
LEMMA ClearedAsks ==
    ASSUME RefreshInv, ClearMemory, NEW c \in Calls,
           call'[c].token = call[c].token, call'[c].generation = call[c].generation,
           Asked(c) => Issued(call[c].token)',
           Asked(c)' <=> Asked(c), ~Asked(c) => call'[c] = call[c],
           mishaps' >= mishaps, mishaps' \in Nat,
           call'[c].at = "gone" => call[c].at = "gone",
           mishaps' = 0 /\ call'[c].at # "done" => call[c].at # "done" /\ call'[c].awaited = call[c].awaited
    PROVE  AskSound(c)'
<1>1. AskSound(c) /\ held' = Nobody /\ generation' = generation + 1 /\ mishaps \in Nat
  BY DEF RefreshInv, ClearMemory, RefreshTypes
<1>2. CASE ~Asked(c)
  BY <1>1, <1>2 DEF AskSound
<1>3. CASE Asked(c)
  <2>1. ~IsCurrent(c)' /\ call'[c].generation <= generation'
    BY <1>1, <1>3, NextGeneration
  <2>2. call[c].token \in Tokens /\ call[c].token # Nobody
    BY <1>1, <1>3, TokenShape DEF AskSound
  <2> QED
    BY <1>1, <1>3, <2>1, <2>2 DEF AskSound
<1> QED
  BY <1>2, <1>3

LEMMA ClearedHolds ==
    ASSUME RefreshInv, ClearMemory
    PROVE  /\ HeldSound' /\ CanGoOn' /\ held' = Nobody /\ generation' \in Nat
           /\ expected' \in Sessions \cup {Nobody}
BY DEF RefreshInv, RefreshTypes, ClearMemory, HeldSound, CanGoOn

LEMMA SignOutKeeps ==
    ASSUME RefreshInv, SignOut, cautious' = cautious
    PROVE  RefreshInv'
<1>1. /\ held # Nobody /\ ClearMemory
      /\ UNCHANGED <<refreshing, pairing, call, flight, mishaps>>
      /\ (session[held[1]].status = "open" /\ RevokeRows({held[1]}, 0)) \/ UNCHANGED familyVars
  BY DEF SignOut, Authorizes, Live, RevokeSession
<1>2. held \in Tokens /\ held[1] \in Sessions
  BY <1>1, TokenShape DEF RefreshInv, RefreshTypes
<1>3. /\ FamilyInv' /\ \A u \in Sessions : Onward(u)
      /\ \A u \in Sessions : family'[u].compromised = family[u].compromised
      /\ \A u \in Sessions, n \in Generations : token'[u][n].state = "used" => token[u][n].state = "used"
      /\ \A u \in Sessions : family'[u].rotations = family[u].rotations
  <2>1. CASE UNCHANGED familyVars
    <3>1. UNCHANGED <<family, token>>
      BY <2>1 DEF familyVars
    <3> QED
      BY <2>1, <3>1, FamilyStill DEF RefreshInv
  <2>2. CASE session[held[1]].status = "open" /\ RevokeRows({held[1]}, 0)
    <3>1. PICK S \in SUBSET Sessions : S = {held[1]}
      BY <1>2
    <3>2. PICK at \in Times : at = 0
      BY FamilyAssumption DEF Times
    <3>3. RevokeRows(S, at) /\ \A s \in S : session[s].status # "absent" /\ session[s].status # "pruned"
      BY <2>2, <3>1, <3>2
    <3> QED
      BY <3>3, RevokeSound DEF RefreshInv
  <2> QED
    BY <1>1, <2>1, <2>2
<1>4. /\ \A t \in Tokens : Issued(t) => Issued(t)'
      /\ \A t \in Tokens : Issued(t) /\ Spent(t) => Spent(t)'
      /\ \A s \in Sessions : session[s].status # "absent" => session'[s].status # "absent"
  BY <1>3, TokensKept DEF RefreshInv
<1>5. HeldSound' /\ CanGoOn' /\ held' = Nobody /\ generation' \in Nat /\ expected' \in Sessions \cup {Nobody}
  BY <1>1, ClearedHolds
<1>6. RefreshTypes'
  BY <1>1, <1>5 DEF RefreshInv, RefreshTypes
<1>7. PairingSound'
  BY <1>1, <1>3, <1>4, <1>5 DEF RefreshInv, PairingSound, Asked, RefreshTypes
<1>8. ASSUME NEW c \in Calls PROVE AskSound(c)'
  <2>1. Asked(c) => Issued(call[c].token)'
    <3>1. Asked(c) => call[c].token \in Tokens /\ Issued(call[c].token)
      BY DEF RefreshInv, AskSound
    <3>2. \A t \in Tokens : t = call[c].token /\ Issued(t) => Issued(t)'
      BY <1>4
    <3> QED
      BY <1>1, <3>1, <3>2
  <2>2. mishaps' >= mishaps /\ mishaps' \in Nat
    BY <1>1 DEF RefreshInv, RefreshTypes
  <2> QED
    BY <1>1, <2>1, <2>2, ClearedAsks DEF Asked
<1>9. ASSUME NEW c \in Calls PROVE AnswerSound(c)' /\ WaitSound(c)'
  <2>1. AskSound(c) /\ AnswerSound(c) /\ WaitSound(c)
    BY DEF RefreshInv
  <2>2. Asked(c) => call[c].token \in Tokens /\ Issued(call[c].token)
    BY <2>1 DEF AskSound
  <2>3. call[c].result # Refused => call[c].result \in Tokens
    BY DEF RefreshInv, RefreshTypes, CallRow
  <2>4. AnswerSound(c)'
    BY <1>1, <1>4, <2>1, <2>2, <2>3 DEF AnswerSound, Asked
  <2> QED
    BY <1>1, <2>1, <2>4 DEF WaitSound
<1>10. \A t \in Tokens : FlightSound(t)'
  BY <1>1 DEF RefreshInv, FlightSound
<1>11. \A c, d \in Calls : TwiceSound(c, d)'
  BY <1>1 DEF RefreshInv, TwiceSound, Asked, Excused
<1>12. \A s \in Sessions : UsedSound(s)'
  BY <1>1, <1>3 DEF RefreshInv, UsedSound, Excused
<1> QED
  BY <1>3, <1>5, <1>6, <1>7, <1>8, <1>9, <1>10, <1>11, <1>12 DEF RefreshInv

LEMMA StartRefreshKeeps ==
    ASSUME RefreshInv, NEW c \in Calls, StartRefresh(c), cautious' = cautious
    PROVE  RefreshInv'
<1> DEFINE new == [NoCall EXCEPT !.at = "sent", !.token = held,
                                 !.generation = generation, !.awaited = TRUE]
<1>1. /\ held # Nobody /\ call[c].at = "unused" /\ ~Coalesces
      /\ call' = [call EXCEPT ![c] = new] /\ refreshing' = <<c, generation>>
      /\ UNCHANGED familyVars
      /\ UNCHANGED <<held, generation, expected, pairing, flight, mishaps>>
  BY DEF StartRefresh
<1>2. FamilyInv' /\ UNCHANGED <<session, family, token>>
  BY <1>1, FamilyStill DEF RefreshInv, familyVars
<1>3. call \in [Calls -> CallRow] /\ held \in Tokens /\ generation \in Nat
      /\ refreshing \in (Calls \X Nat) \cup {Nobody} /\ mishaps \in 0..MaxMishaps
  BY <1>1 DEF RefreshInv, RefreshTypes
<1>4. PICK row \in CallRow : row = NoCall
  BY DEF CallRow, NoCall, Places
<1>5. /\ new \in CallRow
      /\ new.at = "sent" /\ new.token = held /\ new.generation = generation
      /\ new.awaited = TRUE /\ new.late = row.late /\ new.result = row.result
  <2>1. new = [row EXCEPT !.at = "sent", !.token = held, !.generation = generation, !.awaited = TRUE]
    BY <1>4
  <2> HIDE DEF new
  <2> QED
    BY <1>3, <2>1 DEF CallRow, Places
<1> HIDE DEF new
<1>6. call'[c] = new /\ (\A d \in Calls : d # c => call'[d] = call[d]) /\ call' \in [Calls -> CallRow]
  BY <1>1, <1>3, <1>5
<1>7. /\ call'[c].at = "sent" /\ call'[c].token = held /\ call'[c].generation = generation
      /\ call'[c].awaited = TRUE /\ call'[c].late = FALSE /\ call'[c].result = Refused
  <2>1. row.late = FALSE /\ row.result = Refused
    BY <1>4 DEF NoCall
  <2> QED
    BY <1>5, <1>6, <2>1
<1>8. RefreshTypes'
  BY <1>1, <1>3, <1>6 DEF RefreshInv, RefreshTypes
<1>9. HeldSound' /\ HeldSound
  BY <1>1, <1>2 DEF RefreshInv, HeldSound, Issued
<1>10. PairingSound'
  BY <1>1, <1>2, <1>6, <1>7 DEF RefreshInv, PairingSound, Asked
<1>11. ASSUME NEW d \in Calls, d # c, Asked(d), IsCurrent(d) PROVE Excused
  <2>1. refreshing = <<d, generation>> => Coalesces
    <3> SUFFICES ASSUME refreshing = <<d, generation>> PROVE Coalesces
      OBVIOUS
    <3>1. <<d, generation>> \in Calls \X Nat /\ <<d, generation>>[2] = generation
      BY <1>3
    <3>2. refreshing # Nobody /\ refreshing[2] = generation
      BY <3>1, RefreshAssumption
    <3> QED
      BY <3>2 DEF Coalesces
  <2> QED
    BY <1>1, <1>11, <2>1 DEF RefreshInv, AskSound
<1>12. ASSUME NEW d \in Calls PROVE AskSound(d)'
  <2>1. CASE d = c
    <3>1. Issued(held)' /\ held \in Tokens
      BY <1>1, <1>2, <1>3 DEF RefreshInv, HeldSound, Issued
    <3>2. generation <= generation /\ held[2] <= held[2]
      BY <1>3, TokenShape
    <3> QED
      BY <1>1, <1>6, <1>7, <2>1, <3>1, <3>2 DEF AskSound, Asked, IsCurrent
  <2>2. CASE d # c
    <3>1. AskSound(d) /\ call'[d] = call[d]
      BY <1>6, <2>2 DEF RefreshInv
    <3>2. Asked(d) /\ IsCurrent(d) => Excused
      BY <1>11, <2>2
    <3> QED
      BY <1>1, <1>2, <3>1, <3>2 DEF AskSound, Asked, IsCurrent, Issued, Excused
  <2> QED
    BY <2>1, <2>2
<1>13. ASSUME NEW d \in Calls PROVE AnswerSound(d)'
  <2>1. CASE d = c
    BY <1>7, <2>1 DEF AnswerSound, Past
  <2>2. CASE d # c
    BY <1>1, <1>2, <1>6, <2>2 DEF RefreshInv, AnswerSound, Asked, Spent, Issued, Live
  <2> QED
    BY <2>1, <2>2
<1>14. ASSUME NEW d \in Calls PROVE WaitSound(d)'
  <2>1. CASE d = c
    BY <1>7, <2>1 DEF WaitSound
  <2>2. CASE d # c
    <3>1. WaitSound(d) /\ call'[d] = call[d]
      BY <1>6, <2>2 DEF RefreshInv
    <3>2. call[d].at = "following" => call[d].leader # c
      BY <1>1, <3>1 DEF WaitSound, Past
    <3> QED
      BY <1>1, <1>6, <3>1, <3>2 DEF WaitSound
  <2> QED
    BY <2>1, <2>2
<1>15. \A t \in Tokens : FlightSound(t)'
  <2> SUFFICES ASSUME NEW t \in Tokens, flight[t] # Nobody PROVE FlightSound(t)'
    BY <1>1 DEF FlightSound
  <2>1. flight[t] \in Calls /\ flight[t] # c
    BY <1>1 DEF RefreshInv, RefreshTypes, FlightSound
  <2> QED
    BY <1>1, <1>6, <2>1 DEF RefreshInv, FlightSound
<1>16. ASSUME NEW d \in Calls, NEW e \in Calls PROVE TwiceSound(d, e)'
  <2>1. Excused' <=> Excused
    BY <1>1 DEF Excused
  <2>2. CASE d # c /\ e # c
    BY <1>6, <2>1, <2>2 DEF RefreshInv, TwiceSound, Asked
  <2>3. CASE d = c /\ e # c
    <3>1. Asked(e) /\ call[e].token = held => Excused
      <4>1. AskSound(e)
        BY DEF RefreshInv
      <4> QED
        BY <1>11, <2>3, <4>1 DEF AskSound
    <3> QED
      BY <1>6, <1>7, <2>1, <2>3, <3>1 DEF TwiceSound, Asked
  <2>4. CASE d # c /\ e = c
    <3>1. Asked(d) /\ call[d].token = held => Excused
      <4>1. AskSound(d)
        BY DEF RefreshInv
      <4> QED
        BY <1>11, <2>4, <4>1 DEF AskSound
    <3> QED
      BY <1>6, <1>7, <2>1, <2>4, <3>1 DEF TwiceSound, Asked, Past
  <2> QED
    BY <2>2, <2>3, <2>4 DEF TwiceSound
<1>17. ASSUME NEW s \in Sessions PROVE UsedSound(s)'
  <2>1. UsedSound(s)
    BY DEF RefreshInv
  <2>2. ASSUME NEW n \in Generations, token[s][n].state = "used"
        PROVE  \E d \in Calls : call'[d].token = <<s, n>> /\ call'[d].at \in Past \cup {"gone"}
    <3>1. PICK d \in Calls : call[d].token = <<s, n>> /\ call[d].at \in Past \cup {"gone"}
      BY <2>1, <2>2 DEF UsedSound
    <3>2. d # c
      BY <1>1, <3>1 DEF Past
    <3> QED
      BY <1>6, <3>1, <3>2
  <2> QED
    BY <1>1, <1>2, <2>1, <2>2 DEF UsedSound, Excused
<1>18. CanGoOn'
  <2>1. \A d \in Calls : Asked(d) => d # c
    BY <1>1 DEF Asked
  <2> QED
    BY <1>1, <1>2, <1>6, <2>1 DEF RefreshInv, CanGoOn, Live, Asked, IsCurrent
<1> QED
  BY <1>2, <1>8, <1>9, <1>10, <1>12, <1>13, <1>14, <1>15, <1>16, <1>17, <1>18 DEF RefreshInv

\* Requests that only move on after their flight has landed disturb nothing on
\* the server.
LEMMA PastMoves ==
    ASSUME RefreshInv, UNCHANGED <<session, family, token, flight>>, Excused => Excused',
           NEW c \in Calls,
           \A d \in Calls : /\ call'[d].token = call[d].token
                            /\ call'[d].result = call[d].result
                            /\ call'[d].late = call[d].late
                            /\ call'[d].leader = call[d].leader
                            /\ d # c => call'[d].at = call[d].at,
           \/ call'[c].at = call[c].at
           \/ call[c].at \in {"removed", "answered"} /\ call'[c].at \in {"answered", "done"}
    PROVE  /\ \A d \in Calls : AnswerSound(d)' /\ WaitSound(d)'
           /\ \A t \in Tokens : FlightSound(t)'
           /\ \A d, e \in Calls : TwiceSound(d, e)'
           /\ \A s \in Sessions : UsedSound(s)'
<1>1. \A d \in Calls : /\ Asked(d)' <=> Asked(d)
                       /\ call'[d].at \in Past <=> call[d].at \in Past
                       /\ call'[d].at \in {"leading", "rotated", "following", "gone"}
                             <=> call[d].at \in {"leading", "rotated", "following", "gone"}
                       /\ call'[d].at = "leading" <=> call[d].at = "leading"
                       /\ call'[d].at = "rotated" <=> call[d].at = "rotated"
                       /\ call'[d].at = "following" <=> call[d].at = "following"
                       /\ call'[d].at = "gone" <=> call[d].at = "gone"
  BY DEF Asked, Past
<1>2. ASSUME NEW d \in Calls PROVE AnswerSound(d)'
  BY <1>1 DEF RefreshInv, AnswerSound, Spent, Issued, Live
<1>3. ASSUME NEW d \in Calls PROVE WaitSound(d)'
  BY <1>1 DEF RefreshInv, WaitSound
<1>4. ASSUME NEW t \in Tokens PROVE FlightSound(t)'
  BY <1>1 DEF RefreshInv, RefreshTypes, FlightSound
<1>5. ASSUME NEW d \in Calls, NEW e \in Calls PROVE TwiceSound(d, e)'
  BY <1>1 DEF RefreshInv, TwiceSound
<1>6. ASSUME NEW s \in Sessions PROVE UsedSound(s)'
  <2>1. UsedSound(s)
    BY DEF RefreshInv
  <2>2. ASSUME NEW n \in Generations, token[s][n].state = "used"
        PROVE  \E d \in Calls : call'[d].token = <<s, n>> /\ call'[d].at \in Past \cup {"gone"}
    <3>1. PICK d \in Calls : call[d].token = <<s, n>> /\ call[d].at \in Past \cup {"gone"}
      BY <2>1, <2>2 DEF UsedSound
    <3> QED
      BY <1>1, <3>1
  <2> QED
    BY <2>1, <2>2 DEF UsedSound
<1> QED
  BY <1>2, <1>3, <1>4, <1>5, <1>6

LEMMA ReceiveAnswerKeeps ==
    ASSUME RefreshInv, NEW c \in Calls, ReceiveAnswer(c), cautious' = cautious
    PROVE  RefreshInv'
<1>1. /\ call[c].at = "answered" /\ call[c].awaited
      /\ call' = [call EXCEPT ![c].at = "done"]
      /\ refreshing' = Settled(c)
      /\ UNCHANGED familyVars /\ UNCHANGED <<pairing, flight, mishaps>>
  BY DEF ReceiveAnswer
<1>2. FamilyInv' /\ UNCHANGED <<session, family, token>>
  BY <1>1, FamilyStill DEF RefreshInv, familyVars
<1>3. /\ call' \in [Calls -> CallRow] /\ call'[c].at = "done"
      /\ \A d \in Calls : d # c => call'[d] = call[d]
      /\ \A d \in Calls : /\ call'[d].token = call[d].token
                          /\ call'[d].generation = call[d].generation
                          /\ call'[d].result = call[d].result
                          /\ call'[d].late = call[d].late
                          /\ call'[d].leader = call[d].leader
                          /\ call'[d].awaited = call[d].awaited
  <2>1. "done" \in Places
    BY DEF Places
  <2> QED
    BY <1>1, <2>1, OneMoves DEF RefreshInv
<1>4. /\ \A d \in Calls : AnswerSound(d)' /\ WaitSound(d)'
      /\ \A t \in Tokens : FlightSound(t)'
      /\ \A d, e \in Calls : TwiceSound(d, e)'
      /\ \A s \in Sessions : UsedSound(s)'
  <2>1. Excused => Excused'
    BY <1>1 DEF Excused
  <2>2. UNCHANGED <<session, family, token, flight>>
    BY <1>1, <1>2
  <2>3. call[c].at \in {"removed", "answered"} /\ call'[c].at \in {"answered", "done"}
    BY <1>1, <1>3
  <2>4. \A d \in Calls : /\ call'[d].token = call[d].token
                         /\ call'[d].result = call[d].result
                         /\ call'[d].late = call[d].late
                         /\ call'[d].leader = call[d].leader
                         /\ d # c => call'[d].at = call[d].at
    BY <1>3
  <2> QED
    BY <2>1, <2>2, <2>3, <2>4, PastMoves
<1>5. refreshing' \in (Calls \X Nat) \cup {Nobody}
  BY <1>1 DEF RefreshInv, RefreshTypes, Settled
<1>6. ASSUME NEW d \in Calls, d # c, refreshing = <<d, generation>> PROVE refreshing' = refreshing
  BY <1>1, <1>6 DEF Settled
<1>7. \A d \in Calls : Asked(d)' <=> Asked(d)
  BY <1>1, <1>3 DEF Asked
<1>8. Asked(c) /\ AskSound(c) /\ AnswerSound(c)
  BY <1>1 DEF Asked, RefreshInv
<1>9. call[c].token \in Tokens /\ Issued(call[c].token)
  BY <1>8 DEF AskSound
<1>10. CASE ~IsCurrent(c)
  <2>1. UNCHANGED <<held, generation, expected>>
    BY <1>10 DEF ReceiveAnswer
  <2>2. RefreshTypes'
    BY <1>1, <1>3, <1>5, <2>1 DEF RefreshInv, RefreshTypes
  <2>3. HeldSound' /\ PairingSound'
    BY <1>1, <1>2, <1>3, <1>7, <2>1 DEF RefreshInv, HeldSound, PairingSound, Issued
  <2>4. ASSUME NEW d \in Calls PROVE AskSound(d)'
    <3>1. CASE d = c
      BY <1>1, <1>2, <1>3, <1>8, <1>10, <2>1, <3>1 DEF AskSound, Asked, IsCurrent, Issued
    <3>2. CASE d # c
      <4>1. AskSound(d) /\ call'[d] = call[d]
        BY <1>3, <3>2 DEF RefreshInv
      <4>2. IsCurrent(d)' <=> IsCurrent(d)
        BY <2>1, <4>1 DEF IsCurrent
      <4>3. refreshing = <<d, generation>> => refreshing' = <<d, generation'>>
        BY <1>6, <2>1, <3>2
      <4> QED
        BY <1>1, <1>2, <2>1, <4>1, <4>2, <4>3 DEF AskSound, Asked, Issued, Excused
    <3> QED
      BY <3>1, <3>2
  <2>5. CanGoOn'
    <3>1. \A d \in Calls : IsCurrent(d) => d # c /\ call'[d] = call[d]
      BY <1>3, <1>10
    <3> QED
      BY <1>1, <1>2, <2>1, <3>1 DEF RefreshInv, CanGoOn, Live, Asked, IsCurrent
  <2> QED
    BY <1>2, <1>4, <2>2, <2>3, <2>4, <2>5 DEF RefreshInv
<1>11. CASE IsCurrent(c) /\ call[c].result = Refused
  <2>1. ClearMemory
    BY <1>11 DEF ReceiveAnswer
  <2>2. HeldSound' /\ CanGoOn' /\ held' = Nobody /\ generation' \in Nat /\ expected' \in Sessions \cup {Nobody}
    BY <2>1, ClearedHolds
  <2>3. RefreshTypes'
    BY <1>1, <1>3, <1>5, <2>2 DEF RefreshInv, RefreshTypes
  <2>4. PairingSound'
    BY <1>1, <1>2, <1>3, <1>7, <2>2 DEF RefreshInv, PairingSound
  <2>5. ASSUME NEW d \in Calls PROVE AskSound(d)'
    <3>1. Asked(d) => Issued(call[d].token)'
      BY <1>2, <1>3 DEF RefreshInv, AskSound, Issued
    <3>2. mishaps' >= mishaps /\ mishaps' \in Nat
      BY <1>1 DEF RefreshInv, RefreshTypes
    <3>3. ~Asked(d) => call'[d] = call[d]
      BY <1>3, <1>8
    <3>4. /\ call'[d].at = "gone" => call[d].at = "gone"
          /\ call'[d].at # "done" => call[d].at # "done" /\ call'[d].awaited = call[d].awaited
      BY <1>3
    <3> QED
      BY <1>3, <1>7, <2>1, <3>1, <3>2, <3>3, <3>4, ClearedAsks
  <2> QED
    BY <1>2, <1>4, <2>2, <2>3, <2>4, <2>5 DEF RefreshInv
<1>12. CASE IsCurrent(c) /\ call[c].result # Refused
  <2>1. held' = call[c].result /\ generation' = generation + 1 /\ expected' = expected
    BY <1>12 DEF ReceiveAnswer
  <2>2. /\ held = call[c].token /\ held # Nobody /\ held \in Tokens
        /\ call[c].result = <<held[1], held[2] + 1>> /\ Issued(call[c].result)
        /\ call[c].result \in Tokens
    <3>1. call[c].result \in Tokens
      BY <1>12 DEF RefreshInv, RefreshTypes, CallRow
    <3> QED
      BY <1>8, <1>9, <1>12, <3>1, TokenShape DEF AskSound, AnswerSound
  <2>3. /\ held' \in Tokens /\ held' # Nobody /\ held'[1] = held[1] /\ held'[2] = held[2] + 1
        /\ held[2] \in Nat /\ Issued(held)' /\ held[1] \in Sessions
    BY <1>2, <2>1, <2>2, TokenShape DEF Issued
  <2>4. RefreshTypes'
    BY <1>1, <1>3, <1>5, <2>1, <2>3 DEF RefreshInv, RefreshTypes
  <2>5. HeldSound'
    BY <2>1, <2>2, <2>3 DEF RefreshInv, HeldSound
  <2>6. PairingSound'
    BY <1>1, <1>2, <1>3, <1>7, <2>2, <2>3 DEF RefreshInv, PairingSound
  <2>7. ASSUME NEW d \in Calls PROVE AskSound(d)'
    <3>1. AskSound(d)
      BY DEF RefreshInv
    <3>2. CASE ~Asked(d)
      BY <1>3, <1>7, <1>8, <3>1, <3>2 DEF AskSound
    <3>3. CASE Asked(d)
      <4>1. ~IsCurrent(d)' /\ call'[d].generation <= generation'
        BY <1>3, <2>1, <3>3, NextGeneration
      <4>2. call[d].token \in Tokens /\ call[d].token[2] \in Nat /\ call[d].token[1] \in Sessions
        BY <3>1, <3>3, TokenShape DEF AskSound
      <4>3. call[d].token[1] = held[1] => call[d].token[2] <= held[2]
        BY <2>2, <3>1, <3>3 DEF AskSound
      <4>4. call[d].token # held' /\ (call[d].token[1] = held'[1] => call[d].token[2] <= held'[2])
        BY <2>3, <4>2, <4>3
      <4>5. mishaps' = mishaps /\ (call'[d].at = "gone" => call[d].at = "gone")
            /\ (call'[d].at # "done" => call[d].at # "done")
        BY <1>1, <1>3
      <4> QED
        BY <1>2, <1>3, <1>7, <3>1, <3>3, <4>1, <4>2, <4>4, <4>5 DEF AskSound, Issued
    <3> QED
      BY <3>2, <3>3
  <2>8. CanGoOn'
    <3> SUFFICES ASSUME mishaps = 0, Live(held[1])
                 PROVE  held'[2] = family[held[1]].rotations
      BY <1>1, <1>2, <2>3 DEF CanGoOn, Live
    <3>1. family[held[1]].rotations \in Nat /\ held[2] + 1 <= family[held[1]].rotations
      BY <2>2, <2>3, RotationsNat DEF RefreshInv, Issued
    <3>2. PICK d \in Calls : Asked(d) /\ IsCurrent(d)
                             /\ call[d].result = <<held[1], family[held[1]].rotations>>
      BY <2>2, <2>3, <3>1 DEF RefreshInv, CanGoOn
    <3>3. call[d].result # Refused
      BY <3>2 DEF Refused
    <3>4. call[d].token = held /\ call[d].result = <<held[1], held[2] + 1>>
      BY <2>2, <3>2, <3>3 DEF RefreshInv, AskSound, AnswerSound
    <3> QED
      BY <2>3, <3>2, <3>4
  <2> QED
    BY <1>2, <1>4, <2>4, <2>5, <2>6, <2>7, <2>8 DEF RefreshInv
<1> QED
  BY <1>10, <1>11, <1>12

LEMMA GiveUpKeeps ==
    ASSUME RefreshInv, NEW c \in Calls, GiveUp(c), cautious' = cautious
    PROVE  RefreshInv'
<1>1. /\ call[c].awaited /\ call[c].at \notin {"unused", "done"}
      /\ call' = [call EXCEPT ![c].awaited = FALSE]
      /\ refreshing' = Settled(c)
      /\ UNCHANGED familyVars /\ UNCHANGED <<pairing, flight>>
      /\ IF call[c].at = "gone" THEN UNCHANGED mishaps
         ELSE mishaps < MaxMishaps /\ mishaps' = mishaps + 1
      /\ IF Forgets(c) THEN ClearMemory ELSE UNCHANGED <<held, generation, expected>>
  BY DEF GiveUp
<1>2. FamilyInv' /\ UNCHANGED <<session, family, token>>
  BY <1>1, FamilyStill DEF RefreshInv, familyVars
<1>3. call \in [Calls -> CallRow] /\ call[c] \in CallRow
  BY DEF RefreshInv, RefreshTypes
<1>4. call'[c] = [call[c] EXCEPT !.awaited = FALSE] /\ \A d \in Calls : d # c => call'[d] = call[d]
  BY <1>1, <1>3
<1>5. PICK row \in CallRow : row = call[c]
  BY <1>3
<1>6. LET new == [row EXCEPT !.awaited = FALSE]
      IN  /\ new \in CallRow /\ new.at = row.at
          /\ new.token = row.token /\ new.generation = row.generation
          /\ new.leader = row.leader /\ new.awaited = FALSE
          /\ new.late = row.late /\ new.result = row.result
  BY DEF CallRow
<1>7. /\ call' \in [Calls -> CallRow] /\ call'[c].awaited = FALSE
      /\ \A d \in Calls : /\ call'[d].token = call[d].token
                          /\ call'[d].generation = call[d].generation
                          /\ call'[d].result = call[d].result
                          /\ call'[d].late = call[d].late
                          /\ call'[d].leader = call[d].leader
                          /\ call'[d].at = call[d].at
  <2>1. call'[c] = [row EXCEPT !.awaited = FALSE]
    BY <1>4, <1>5
  <2> QED
    BY <1>1, <1>3, <1>4, <1>5, <1>6, <2>1
<1>8. mishaps' > 0 /\ mishaps' >= mishaps /\ mishaps' \in 0..MaxMishaps /\ mishaps' \in Nat
      /\ (Excused => Excused')
  <2>1. mishaps \in Nat /\ mishaps <= MaxMishaps /\ MaxMishaps \in Nat
    BY RefreshAssumption DEF RefreshInv, RefreshTypes
  <2>2. call[c].at = "gone" => mishaps > 0
    BY <1>1 DEF RefreshInv, AskSound, Asked
  <2>3. mishaps' > 0 /\ mishaps' >= mishaps /\ mishaps' <= MaxMishaps /\ mishaps' \in Nat
    BY <1>1, <2>1, <2>2
  <2> QED
    BY <2>1, <2>3 DEF Excused
<1>9. /\ \A d \in Calls : AnswerSound(d)' /\ WaitSound(d)'
      /\ \A t \in Tokens : FlightSound(t)'
      /\ \A d, e \in Calls : TwiceSound(d, e)'
      /\ \A s \in Sessions : UsedSound(s)'
  BY <1>1, <1>2, <1>7, <1>8, PastMoves
<1>10. refreshing' \in (Calls \X Nat) \cup {Nobody}
  BY <1>1 DEF RefreshInv, RefreshTypes, Settled
<1>11. \A d \in Calls : Asked(d)' <=> Asked(d)
  BY <1>7 DEF Asked
<1>12. Asked(c) /\ AskSound(c)
  BY <1>1 DEF Asked, RefreshInv
<1>13. CASE Forgets(c)
  <2>1. ClearMemory
    BY <1>1, <1>13
  <2>2. HeldSound' /\ CanGoOn' /\ held' = Nobody /\ generation' \in Nat /\ expected' \in Sessions \cup {Nobody}
    BY <2>1, ClearedHolds
  <2>3. RefreshTypes'
    BY <1>1, <1>7, <1>8, <1>10, <2>2 DEF RefreshInv, RefreshTypes
  <2>4. PairingSound'
    BY <1>1, <1>2, <1>7, <1>11, <2>2 DEF RefreshInv, PairingSound
  <2>5. ASSUME NEW d \in Calls PROVE AskSound(d)'
    <3>1. Asked(d) => Issued(call[d].token)'
      BY <1>2, <1>7 DEF RefreshInv, AskSound, Issued
    <3>2. ~Asked(d) => call'[d] = call[d]
      BY <1>4, <1>12
    <3>3. mishaps' # 0
      BY <1>8
    <3> QED
      BY <1>7, <1>8, <1>11, <2>1, <3>1, <3>2, <3>3, ClearedAsks
  <2> QED
    BY <1>2, <1>9, <2>2, <2>3, <2>4, <2>5 DEF RefreshInv
<1>14. CASE ~Forgets(c)
  <2>1. UNCHANGED <<held, generation, expected>>
    BY <1>1, <1>14
  <2>2. RefreshTypes'
    BY <1>1, <1>7, <1>8, <1>10, <2>1 DEF RefreshInv, RefreshTypes
  <2>3. HeldSound' /\ PairingSound'
    BY <1>1, <1>2, <1>7, <1>11, <2>1 DEF RefreshInv, HeldSound, PairingSound, Issued
  <2>4. ASSUME NEW d \in Calls PROVE AskSound(d)'
    <3>1. AskSound(d) /\ (d # c => call'[d] = call[d])
      BY <1>4 DEF RefreshInv
    <3>2. IsCurrent(d)' <=> IsCurrent(d)
      BY <1>7, <2>1 DEF IsCurrent
    <3>3. IsCurrent(d) /\ Asked(d) => refreshing' = <<d, generation'>> \/ Excused'
      <4>1. CASE d = c
        BY <1>8, <1>14, <4>1 DEF Forgets, Excused
      <4>2. CASE d # c
        BY <1>1, <1>8, <2>1, <3>1, <4>2 DEF AskSound, Settled
      <4> QED
        BY <4>1, <4>2
    <3>4. ~Asked(d) => call'[d] = call[d]
      BY <1>12, <3>1
    <3>5. mishaps' # 0
      BY <1>8
    <3> QED
      BY <1>2, <1>7, <1>8, <1>11, <2>1, <3>1, <3>2, <3>3, <3>4, <3>5 DEF AskSound, Issued
  <2>5. CanGoOn'
    BY <1>8 DEF CanGoOn
  <2> QED
    BY <1>2, <1>9, <2>2, <2>3, <2>4, <2>5 DEF RefreshInv
<1> QED
  BY <1>13, <1>14

-----------------------------------------------------------------------------
(* The steps of the server, which leave the client alone.                  *)

LEMMA ServerAsks ==
    ASSUME RefreshInv, UNCHANGED <<held, generation, refreshing, expected, pairing, cautious>>,
           mishaps' >= mishaps, mishaps' \in 0..MaxMishaps,
           FamilyInv', \A t \in Tokens : Issued(t) => Issued(t)',
           \A s \in Sessions : session[s].status # "absent" => session'[s].status # "absent",
           pairing # Nobody => family'[pairing].rotations = family[pairing].rotations,
           call' \in [Calls -> CallRow], flight' \in [Tokens -> Calls \cup {Nobody}],
           \A d \in Calls : /\ call'[d].token = call[d].token
                            /\ call'[d].generation = call[d].generation
                            /\ call'[d].awaited = call[d].awaited
                            /\ Asked(d)' <=> Asked(d)
                            /\ ~Asked(d) => call'[d] = call[d]
                            /\ call'[d].at = "gone" => call[d].at = "gone" \/ mishaps' > 0
                            /\ call'[d].at = "done" <=> call[d].at = "done"
    PROVE  /\ RefreshTypes' /\ HeldSound' /\ PairingSound'
           /\ \A d \in Calls : AskSound(d)'
<1>1. RefreshTypes'
  BY DEF RefreshInv, RefreshTypes
<1>2. HeldSound'
  <2>1. \A t \in Tokens : t = held /\ Issued(t) => Issued(held)'
    OBVIOUS
  <2> QED
    BY <2>1 DEF RefreshInv, RefreshTypes, HeldSound
<1>3. PairingSound'
  BY DEF RefreshInv, RefreshTypes, PairingSound
<1>4. mishaps \in Nat /\ mishaps' \in Nat /\ (Excused => Excused')
  BY RefreshAssumption DEF RefreshInv, RefreshTypes, Excused
<1>5. ASSUME NEW d \in Calls PROVE AskSound(d)'
  <2>1. AskSound(d)
    BY DEF RefreshInv
  <2>2. IsCurrent(d)' <=> IsCurrent(d)
    BY DEF IsCurrent
  <2>3. Asked(d) => call[d].token \in Tokens /\ Issued(call[d].token)'
    BY <2>1 DEF AskSound
  <2> QED
    BY <1>4, <2>1, <2>2, <2>3 DEF AskSound, Issued
<1> QED
  BY <1>1, <1>2, <1>3, <1>5

\* An answer is as good as it was when only the tables move on.
LEMMA AnswerStays ==
    ASSUME RefreshInv, NEW d \in Calls,
           \A t \in Tokens : Issued(t) => Issued(t)',
           \A t \in Tokens : Issued(t) /\ Spent(t) => Spent(t)',
           call'[d].token = call[d].token, call'[d].late = call[d].late,
           call'[d].result = call[d].result, call'[d].at = call[d].at
    PROVE  AnswerSound(d)'
<1>1. AskSound(d) /\ AnswerSound(d)
  BY DEF RefreshInv
<1>2. Asked(d) => call[d].token \in Tokens /\ Issued(call[d].token)
  BY <1>1 DEF AskSound
<1>3. call[d].result # Refused => call[d].result \in Tokens
  BY DEF RefreshInv, RefreshTypes, CallRow
<1>4. /\ Asked(d) => Issued(call[d].token)' /\ (Spent(call[d].token) => Spent(call[d].token)')
      /\ Asked(d) /\ call[d].result # Refused => Issued(call[d].result)'
  BY <1>1, <1>2, <1>3 DEF AnswerSound
<1> QED
  BY <1>1, <1>2, <1>3, <1>4 DEF AnswerSound, Asked, Issued, Spent

\* The client can go on as before: no session that is live has moved, and no
\* answer was lost.
LEMMA GoesOn ==
    ASSUME RefreshInv, UNCHANGED <<held, generation>>, mishaps' >= mishaps, mishaps' \in Nat,
           \A s \in Sessions : session[s].status # "absent" /\ Live(s)' => Live(s),
           \A s \in Sessions : session[s].status # "absent"
                => family'[s].rotations = family[s].rotations,
           \A d \in Calls : call[d].result # Refused \/ ~IsCurrent(d) =>
                /\ call'[d].result = call[d].result
                /\ call'[d].generation = call[d].generation
                /\ call'[d].at = "done" <=> call[d].at = "done",
           \A d \in Calls : Asked(d) => Asked(d)'
    PROVE  CanGoOn'
<1> SUFFICES ASSUME mishaps' = 0, held # Nobody, Live(held[1])'
             PROVE  \/ held[2] = family'[held[1]].rotations
                    \/ \E d \in Calls : /\ Asked(d)' /\ IsCurrent(d)' /\ call'[d].at # "done"
                                        /\ call'[d].result = <<held[1], family'[held[1]].rotations>>
  BY DEF CanGoOn, Live
<1>1. mishaps = 0
  BY DEF RefreshInv, RefreshTypes
<1>2. held \in Tokens /\ held[1] \in Sessions /\ session[held[1]].status # "absent"
  BY TokenShape DEF RefreshInv, RefreshTypes, HeldSound, Issued
<1>3. Live(held[1]) /\ family'[held[1]].rotations = family[held[1]].rotations
  BY <1>2
<1>4. CASE held[2] = family[held[1]].rotations
  BY <1>3, <1>4
<1>5. CASE held[2] # family[held[1]].rotations
  <2>1. PICK d \in Calls : /\ Asked(d) /\ IsCurrent(d) /\ call[d].at # "done"
                           /\ call[d].result = <<held[1], family[held[1]].rotations>>
    BY <1>1, <1>3, <1>5 DEF RefreshInv, CanGoOn
  <2>2. call[d].result # Refused
    BY <2>1 DEF Refused
  <2>3. Asked(d)' /\ IsCurrent(d)' /\ call'[d].at # "done" /\ call'[d].result = call[d].result
    BY <2>1, <2>2 DEF IsCurrent
  <2> QED
    BY <1>3, <2>1, <2>3
<1> QED
  BY <1>4, <1>5

LEMMA SignInKeeps ==
    ASSUME RefreshInv, NEW s \in Sessions, NEW st \in Students, NEW dev \in Devices,
           SignIn(s, st, dev), cautious' = cautious
    PROVE  RefreshInv'
<1>1. /\ IssueSession(s, st, dev, 0)
      /\ pairing' = s \/ pairing' = pairing
      /\ UNCHANGED <<held, generation, refreshing, expected, call, flight, mishaps>>
  BY DEF SignIn
<1>2. PICK at \in Times : at = 0
  BY FamilyAssumption DEF Times
<1>3. /\ FamilyInv' /\ \A u \in Sessions : Onward(u)
      /\ session[s].status = "absent" /\ session'[s] = NewSession(st, dev, at)
      /\ \A u \in Sessions : family'[u].compromised = family[u].compromised
      /\ \A u \in Sessions, n \in Generations : token'[u][n].state = "used" => token[u][n].state = "used"
      /\ \A u \in Sessions : family'[u].rotations = family[u].rotations
  BY <1>1, <1>2, IssueSound DEF RefreshInv
<1>4. /\ \A t \in Tokens : Issued(t) => Issued(t)'
      /\ \A t \in Tokens : Issued(t) /\ Spent(t) => Spent(t)'
      /\ \A u \in Sessions : session[u].status # "absent" => session'[u].status # "absent"
      /\ \A u \in Sessions : session[u].status # "absent" /\ Live(u)' => Live(u)
  BY <1>3, TokensKept DEF RefreshInv
<1>5. RefreshTypes'
  BY <1>1 DEF RefreshInv, RefreshTypes
<1>6. HeldSound'
  <2>1. held # Nobody => held \in Tokens /\ Issued(held)
    BY DEF RefreshInv, RefreshTypes, HeldSound
  <2>2. held # Nobody => Issued(held)'
    BY <1>1, <1>4, <2>1 DEF Issued
  <2> QED
    BY <1>1, <2>2 DEF RefreshInv, HeldSound
<1>7. ASSUME NEW c \in Calls, Asked(c) PROVE /\ call[c].token \in Tokens /\ Issued(call[c].token)
                                             /\ call[c].token[1] # s
  BY <1>3, <1>7 DEF RefreshInv, AskSound, Issued
<1>8. PairingSound'
  <2>1. CASE pairing' = pairing
    BY <1>1, <1>3, <1>4, <2>1 DEF RefreshInv, RefreshTypes, PairingSound, Asked
  <2>2. CASE pairing' = s
    <3>1. session'[s].status # "absent"
      BY <1>3 DEF NewSession
    <3>2. family'[s].rotations = 0
      BY <1>3 DEF RefreshInv, FamilyInv, Row, RowOK
    <3>3. held # Nobody => held[1] # s
      BY <1>3 DEF RefreshInv, HeldSound, Issued
    <3> QED
      BY <1>1, <1>7, <2>2, <3>1, <3>2, <3>3 DEF PairingSound, Asked
  <2> QED
    BY <1>1, <2>1, <2>2
<1>9. ASSUME NEW c \in Calls PROVE AskSound(c)'
  <2>1. Asked(c) => Issued(call[c].token)'
    BY <1>1, <1>4, <1>7 DEF Issued
  <2> QED
    BY <1>1, <2>1 DEF RefreshInv, AskSound, Asked, IsCurrent, Excused
<1>10. ASSUME NEW c \in Calls PROVE AnswerSound(c)' /\ WaitSound(c)'
  <2>1. AnswerSound(c)'
    BY <1>1, <1>4, AnswerStays
  <2> QED
    BY <1>1, <2>1 DEF RefreshInv, WaitSound
<1>11. \A t \in Tokens : FlightSound(t)'
  BY <1>1 DEF RefreshInv, FlightSound
<1>12. \A c, d \in Calls : TwiceSound(c, d)'
  BY <1>1 DEF RefreshInv, TwiceSound, Asked, Excused
<1>13. \A u \in Sessions : UsedSound(u)'
  BY <1>1, <1>3 DEF RefreshInv, UsedSound, Excused
<1>14. CanGoOn'
  <2>1. mishaps' >= mishaps /\ mishaps' \in Nat
    BY <1>1 DEF RefreshInv, RefreshTypes
  <2>2. \A d \in Calls : call'[d] = call[d] /\ (Asked(d) => Asked(d)')
    BY <1>1 DEF Asked
  <2> QED
    BY <1>1, <1>3, <1>4, <2>1, <2>2, GoesOn
<1> QED
  BY <1>3, <1>5, <1>6, <1>8, <1>9, <1>10, <1>11, <1>12, <1>13, <1>14 DEF RefreshInv

\* What the steps inside the server have in common.
LEMMA ServerStep ==
    ASSUME RefreshInv, UNCHANGED <<familyVars, clientVars, mishaps, cautious>>
    PROVE  /\ FamilyInv' /\ UNCHANGED <<session, family, token>>
           /\ UNCHANGED <<held, generation, refreshing, expected, pairing, cautious>>
           /\ mishaps' = mishaps /\ mishaps' >= mishaps /\ mishaps' \in 0..MaxMishaps /\ mishaps' \in Nat
           /\ \A t \in Tokens : Issued(t) => Issued(t)'
           /\ \A t \in Tokens : Issued(t) /\ Spent(t) => Spent(t)'
           /\ \A s \in Sessions : session[s].status # "absent" => session'[s].status # "absent"
           /\ \A s \in Sessions : session[s].status # "absent" /\ Live(s)' => Live(s)
           /\ \A s \in Sessions : family'[s].rotations = family[s].rotations
           /\ pairing # Nobody => family'[pairing].rotations = family[pairing].rotations
           /\ Excused' <=> Excused
<1>1. FamilyInv' /\ UNCHANGED <<session, family, token>>
  BY FamilyStill DEF RefreshInv, familyVars
<1>2. UNCHANGED <<held, generation, refreshing, expected, pairing>>
  BY DEF clientVars
<1>3. mishaps' = mishaps /\ mishaps' \in 0..MaxMishaps /\ mishaps' \in Nat /\ mishaps' >= mishaps
  BY RefreshAssumption DEF RefreshInv, RefreshTypes
<1>4. \A t \in Tokens : (Issued(t) => Issued(t)') /\ (Issued(t) /\ Spent(t) => Spent(t)')
  BY <1>1 DEF Issued, Spent, Live
<1>5. \A s \in Sessions : session[s].status # "absent" /\ Live(s)' => Live(s)
  BY <1>1 DEF Live
<1> QED
  BY <1>1, <1>2, <1>3, <1>4, <1>5 DEF Excused

LEMMA CompleteFlightKeeps ==
    ASSUME RefreshInv, NEW c \in Calls, CompleteFlight(c), cautious' = cautious
    PROVE  RefreshInv'
<1>1. /\ call[c].at = "removed" /\ call' = [call EXCEPT ![c].at = "answered"]
      /\ UNCHANGED <<familyVars, clientVars, flight, mishaps>>
  BY DEF CompleteFlight
<1>2. /\ FamilyInv' /\ UNCHANGED <<session, family, token>>
      /\ UNCHANGED <<held, generation, refreshing, expected, pairing, cautious>>
      /\ mishaps' = mishaps /\ mishaps' >= mishaps /\ mishaps' \in 0..MaxMishaps /\ mishaps' \in Nat
      /\ \A t \in Tokens : Issued(t) => Issued(t)'
      /\ \A s \in Sessions : session[s].status # "absent" => session'[s].status # "absent"
      /\ \A s \in Sessions : session[s].status # "absent" /\ Live(s)' => Live(s)
      /\ \A s \in Sessions : family'[s].rotations = family[s].rotations
      /\ pairing # Nobody => family'[pairing].rotations = family[pairing].rotations
      /\ Excused' <=> Excused
  BY <1>1, ServerStep
<1>3. /\ call' \in [Calls -> CallRow] /\ call'[c].at = "answered"
      /\ \A d \in Calls : d # c => call'[d] = call[d]
      /\ \A d \in Calls : /\ call'[d].token = call[d].token
                          /\ call'[d].generation = call[d].generation
                          /\ call'[d].result = call[d].result
                          /\ call'[d].late = call[d].late
                          /\ call'[d].leader = call[d].leader
                          /\ call'[d].awaited = call[d].awaited
  <2>1. "answered" \in Places
    BY DEF Places
  <2> QED
    BY <1>1, <2>1, OneMoves DEF RefreshInv
<1>4. \A d \in Calls : /\ Asked(d)' <=> Asked(d)
                       /\ ~Asked(d) => call'[d] = call[d]
                       /\ call'[d].at = "gone" => call[d].at = "gone"
                       /\ call'[d].at = "done" <=> call[d].at = "done"
  BY <1>1, <1>3 DEF Asked
<1>5. flight' \in [Tokens -> Calls \cup {Nobody}]
  BY <1>1 DEF RefreshInv, RefreshTypes
<1>6. RefreshTypes' /\ HeldSound' /\ PairingSound' /\ \A d \in Calls : AskSound(d)'
  BY <1>2, <1>3, <1>4, <1>5, ServerAsks
<1>7. /\ \A d \in Calls : AnswerSound(d)' /\ WaitSound(d)'
      /\ \A t \in Tokens : FlightSound(t)'
      /\ \A d, e \in Calls : TwiceSound(d, e)'
      /\ \A s \in Sessions : UsedSound(s)'
  <2>1. UNCHANGED <<session, family, token, flight>>
    BY <1>1, <1>2
  <2>2. \A d \in Calls : d # c => call'[d].at = call[d].at
    BY <1>3
  <2> QED
    BY <1>1, <1>2, <1>3, <2>1, <2>2, PastMoves
<1>8. CanGoOn'
  BY <1>2, <1>3, <1>4, GoesOn
<1> QED
  BY <1>2, <1>6, <1>7, <1>8 DEF RefreshInv

LEMMA RemoveFlightKeeps ==
    ASSUME RefreshInv, NEW c \in Calls, RemoveFlight(c), cautious' = cautious
    PROVE  RefreshInv'
<1>1. /\ call[c].at = "rotated" /\ call' = [call EXCEPT ![c].at = "removed"] /\ flight' = Landed(c)
      /\ UNCHANGED <<familyVars, clientVars, mishaps>>
  BY DEF RemoveFlight
<1>2. /\ FamilyInv' /\ UNCHANGED <<session, family, token>>
      /\ UNCHANGED <<held, generation, refreshing, expected, pairing, cautious>>
      /\ mishaps' = mishaps /\ mishaps' >= mishaps /\ mishaps' \in 0..MaxMishaps /\ mishaps' \in Nat
      /\ \A t \in Tokens : Issued(t) => Issued(t)'
      /\ \A t \in Tokens : Issued(t) /\ Spent(t) => Spent(t)'
      /\ \A s \in Sessions : session[s].status # "absent" => session'[s].status # "absent"
      /\ \A s \in Sessions : session[s].status # "absent" /\ Live(s)' => Live(s)
      /\ \A s \in Sessions : family'[s].rotations = family[s].rotations
      /\ pairing # Nobody => family'[pairing].rotations = family[pairing].rotations
      /\ Excused' <=> Excused
  BY <1>1, ServerStep
<1>3. /\ call' \in [Calls -> CallRow] /\ call'[c].at = "removed"
      /\ \A d \in Calls : d # c => call'[d] = call[d]
      /\ \A d \in Calls : /\ call'[d].token = call[d].token
                          /\ call'[d].generation = call[d].generation
                          /\ call'[d].result = call[d].result
                          /\ call'[d].late = call[d].late
                          /\ call'[d].leader = call[d].leader
                          /\ call'[d].awaited = call[d].awaited
  <2>1. "removed" \in Places
    BY DEF Places
  <2> QED
    BY <1>1, <2>1, OneMoves DEF RefreshInv
<1>4. \A d \in Calls : /\ Asked(d)' <=> Asked(d)
                       /\ ~Asked(d) => call'[d] = call[d]
                       /\ call'[d].at = "gone" <=> call[d].at = "gone"
                       /\ call'[d].at = "done" <=> call[d].at = "done"
                       /\ call'[d].at \in Past <=> call[d].at \in Past
  BY <1>1, <1>3 DEF Asked, Past
<1>5. call[c].token \in Tokens /\ flight[call[c].token] = c
  BY <1>1 DEF RefreshInv, AskSound, WaitSound, Asked
<1>6. /\ flight' \in [Tokens -> Calls \cup {Nobody}] /\ flight'[call[c].token] = Nobody
      /\ \A t \in Tokens : t # call[c].token => flight'[t] = flight[t]
  BY <1>1, <1>5 DEF RefreshInv, RefreshTypes, Landed
<1>7. RefreshTypes' /\ HeldSound' /\ PairingSound' /\ \A d \in Calls : AskSound(d)'
  BY <1>2, <1>3, <1>4, <1>6, ServerAsks
<1>8. ASSUME NEW d \in Calls PROVE AnswerSound(d)'
  <2>1. CASE d = c
    BY <1>2, <1>3, <1>4, <2>1 DEF RefreshInv, AnswerSound, Spent, Issued, Live, Past
  <2>2. CASE d # c
    BY <1>2, <1>3, <2>2, AnswerStays
  <2> QED
    BY <2>1, <2>2
<1>9. ASSUME NEW d \in Calls PROVE WaitSound(d)'
  <2>1. WaitSound(d) /\ AskSound(d)
    BY DEF RefreshInv
  <2>2. call'[d].at \in {"leading", "rotated"} => flight'[call[d].token] = d
    <3> SUFFICES ASSUME call'[d].at \in {"leading", "rotated"}
                 PROVE  flight'[call[d].token] = d
      OBVIOUS
    <3>1. d # c /\ call[d].at \in {"leading", "rotated"}
      BY <1>3
    <3>2. call[d].token \in Tokens /\ flight[call[d].token] = d
      BY <2>1, <3>1 DEF AskSound, WaitSound, Asked
    <3> QED
      BY <1>5, <1>6, <3>1, <3>2
  <2>3. call'[d].at = "following" => call[d].at = "following"
    BY <1>3
  <2> QED
    BY <1>3, <1>4, <2>1, <2>2, <2>3 DEF WaitSound, Past
<1>10. ASSUME NEW t \in Tokens PROVE FlightSound(t)'
  <2>1. CASE t = call[c].token
    BY <1>6, <2>1 DEF FlightSound
  <2>2. CASE t # call[c].token
    <3>1. flight[t] # Nobody => flight[t] \in Calls /\ flight[t] # c
      BY <2>2 DEF RefreshInv, RefreshTypes, FlightSound
    <3> QED
      BY <1>3, <1>6, <2>2, <3>1 DEF RefreshInv, FlightSound
  <2> QED
    BY <2>1, <2>2
<1>11. ASSUME NEW d \in Calls, NEW e \in Calls PROVE TwiceSound(d, e)'
  <2>1. call'[d].at = "rotated" => call[d].at = "rotated"
    BY <1>3
  <2> QED
    BY <1>2, <1>3, <1>4, <2>1 DEF RefreshInv, TwiceSound
<1>12. ASSUME NEW s \in Sessions PROVE UsedSound(s)'
  <2>1. UsedSound(s)
    BY DEF RefreshInv
  <2>2. ASSUME NEW n \in Generations, token[s][n].state = "used"
        PROVE  \E d \in Calls : call'[d].token = <<s, n>> /\ call'[d].at \in Past \cup {"gone"}
    <3>1. PICK d \in Calls : call[d].token = <<s, n>> /\ call[d].at \in Past \cup {"gone"}
      BY <2>1, <2>2 DEF UsedSound
    <3> QED
      BY <1>3, <1>4, <3>1
  <2> QED
    BY <1>2, <2>1, <2>2 DEF UsedSound
<1>13. CanGoOn'
  BY <1>2, <1>3, <1>4, GoesOn
<1> QED
  BY <1>2, <1>7, <1>8, <1>9, <1>10, <1>11, <1>12, <1>13 DEF RefreshInv

LEMMA ArriveKeeps ==
    ASSUME RefreshInv, NEW c \in Calls, Arrive(c), cautious' = cautious
    PROVE  RefreshInv'
<1> DEFINE t == call[c].token
           late == AnsweredBefore(t)
           leads == flight[t] = Nobody
<1>1. /\ call[c].at = "sent" /\ UNCHANGED <<familyVars, clientVars, mishaps>>
      /\ leads => /\ flight' = [flight EXCEPT ![t] = c]
                  /\ call' = [call EXCEPT ![c].at = "leading", ![c].late = late]
      /\ ~leads => /\ call' = [call EXCEPT ![c].at = "following", ![c].leader = flight[t], ![c].late = late]
                   /\ UNCHANGED flight
  BY DEF Arrive
<1>2. /\ FamilyInv' /\ UNCHANGED <<session, family, token>>
      /\ UNCHANGED <<held, generation, refreshing, expected, pairing, cautious>>
      /\ mishaps' = mishaps /\ mishaps' >= mishaps /\ mishaps' \in 0..MaxMishaps /\ mishaps' \in Nat
      /\ \A x \in Tokens : Issued(x) => Issued(x)'
      /\ \A x \in Tokens : Issued(x) /\ Spent(x) => Spent(x)'
      /\ \A s \in Sessions : session[s].status # "absent" => session'[s].status # "absent"
      /\ \A s \in Sessions : session[s].status # "absent" /\ Live(s)' => Live(s)
      /\ \A s \in Sessions : family'[s].rotations = family[s].rotations
      /\ pairing # Nobody => family'[pairing].rotations = family[pairing].rotations
      /\ Excused' <=> Excused
  BY <1>1, ServerStep
<1>3. /\ Asked(c) /\ AskSound(c) /\ AnswerSound(c) /\ t \in Tokens /\ Issued(t)
      /\ call[c].result = Refused
  BY <1>1 DEF RefreshInv, AskSound, AnswerSound, Asked, Past
<1>4. call \in [Calls -> CallRow] /\ flight \in [Tokens -> Calls \cup {Nobody}] /\ late \in BOOLEAN
  BY DEF RefreshInv, RefreshTypes, AnsweredBefore
<1>5. PICK row \in CallRow : row = call[c]
  BY <1>4
<1>6. ~leads => flight[t] \in Calls /\ call[flight[t]].token = t /\ call[flight[t]].at \in {"leading", "rotated"}
  BY <1>3, <1>4 DEF RefreshInv, FlightSound
<1>7. PICK l \in BOOLEAN : l = late
  BY <1>4
<1> HIDE DEF late
<1>8. /\ [row EXCEPT !.at = "leading", !.late = l] \in CallRow
      /\ [row EXCEPT !.at = "leading", !.late = l].at = "leading"
      /\ [row EXCEPT !.at = "leading", !.late = l].late = l
      /\ [row EXCEPT !.at = "leading", !.late = l].token = row.token
      /\ [row EXCEPT !.at = "leading", !.late = l].generation = row.generation
      /\ [row EXCEPT !.at = "leading", !.late = l].result = row.result
      /\ [row EXCEPT !.at = "leading", !.late = l].awaited = row.awaited
  BY DEF CallRow, Places
<1>9. ASSUME NEW e \in Calls
      PROVE /\ [row EXCEPT !.at = "following", !.leader = e, !.late = l] \in CallRow
            /\ [row EXCEPT !.at = "following", !.leader = e, !.late = l].at = "following"
            /\ [row EXCEPT !.at = "following", !.leader = e, !.late = l].late = l
            /\ [row EXCEPT !.at = "following", !.leader = e, !.late = l].leader = e
            /\ [row EXCEPT !.at = "following", !.leader = e, !.late = l].token = row.token
            /\ [row EXCEPT !.at = "following", !.leader = e, !.late = l].generation = row.generation
            /\ [row EXCEPT !.at = "following", !.leader = e, !.late = l].result = row.result
            /\ [row EXCEPT !.at = "following", !.leader = e, !.late = l].awaited = row.awaited
  BY DEF CallRow, Places
<1>10. /\ leads => call'[c] = [row EXCEPT !.at = "leading", !.late = l]
       /\ ~leads => call'[c] = [row EXCEPT !.at = "following", !.leader = flight[t], !.late = l]
       /\ \A d \in Calls : d # c => call'[d] = call[d]
  BY <1>1, <1>4, <1>5, <1>7
<1>11. /\ call' \in [Calls -> CallRow]
       /\ call'[c].at = (IF leads THEN "leading" ELSE "following")
       /\ ~leads => call'[c].leader = flight[t]
       /\ call'[c].late = late /\ call'[c].token = t /\ call'[c].generation = call[c].generation
       /\ call'[c].result = Refused /\ call'[c].awaited = call[c].awaited
  <2>1. call' = [d \in Calls |-> call'[d]]
    BY <1>1, <1>4
  <2>2. row.token = t /\ row.result = Refused /\ row.generation = call[c].generation
        /\ row.awaited = call[c].awaited
    BY <1>3, <1>5
  <2>3. CASE leads
    <3>1. /\ call'[c] \in CallRow /\ call'[c].at = "leading" /\ call'[c].late = l
          /\ call'[c].token = row.token /\ call'[c].generation = row.generation
          /\ call'[c].result = row.result /\ call'[c].awaited = row.awaited
      BY <1>8, <1>10, <2>3
    <3>2. call' \in [Calls -> CallRow]
      BY <1>4, <1>10, <2>1, <3>1
    <3> QED
      BY <1>7, <2>2, <2>3, <3>1, <3>2
  <2>4. CASE ~leads
    <3>1. PICK e \in Calls : e = flight[t]
      BY <1>6, <2>4
    <3>2. /\ call'[c] \in CallRow /\ call'[c].at = "following" /\ call'[c].late = l
          /\ call'[c].leader = e
          /\ call'[c].token = row.token /\ call'[c].generation = row.generation
          /\ call'[c].result = row.result /\ call'[c].awaited = row.awaited
      <4>1. call'[c] = [row EXCEPT !.at = "following", !.leader = e, !.late = l]
        BY <1>10, <2>4, <3>1
      <4> QED
        BY <1>9, <4>1
    <3>3. call' \in [Calls -> CallRow]
      BY <1>4, <1>10, <2>1, <3>2
    <3> QED
      BY <1>7, <2>2, <2>4, <3>1, <3>2, <3>3
  <2> QED
    BY <2>3, <2>4
<1> HIDE DEF leads
<1>12. \A d \in Calls : /\ call'[d].token = call[d].token
                        /\ call'[d].generation = call[d].generation
                        /\ call'[d].awaited = call[d].awaited
                        /\ call'[d].result = call[d].result
                        /\ Asked(d)' <=> Asked(d)
                        /\ ~Asked(d) => call'[d] = call[d]
                        /\ call'[d].at = "gone" <=> call[d].at = "gone"
                        /\ call'[d].at = "done" <=> call[d].at = "done"
                        /\ call'[d].at \in Past <=> call[d].at \in Past
                        /\ call'[d].at = "rotated" <=> call[d].at = "rotated"
  BY <1>1, <1>3, <1>10, <1>11 DEF Asked, Past
<1>13. /\ flight' \in [Tokens -> Calls \cup {Nobody}]
       /\ \A x \in Tokens : x # t => flight'[x] = flight[x]
       /\ flight'[t] = IF leads THEN c ELSE flight[t]
  BY <1>1, <1>3, <1>4
<1>14. late => Spent(t)
  <2> SUFFICES ASSUME late PROVE Spent(t)
    OBVIOUS
  <2>1. PICK d \in Calls : call[d].token = t /\ call[d].at \in {"answered", "done"}
    BY DEF late, AnsweredBefore
  <2> QED
    BY <2>1 DEF RefreshInv, AnswerSound, Asked, Past
<1>15. late /\ ~leads /\ call[flight[t]].at \in Past => call[flight[t]].result = Refused
  <2> SUFFICES ASSUME late, ~leads, call[flight[t]].at \in Past PROVE call[flight[t]].result = Refused
    OBVIOUS
  <2>1. PICK d \in Calls : call[d].token = t /\ call[d].at \in {"answered", "done"}
    BY DEF late, AnsweredBefore
  <2>2. PICK e \in Calls : e = flight[t] /\ call[e].token = t /\ call[e].at = "rotated"
    BY <1>6 DEF Past
  <2>3. d # e /\ call[d].at \in Past /\ TwiceSound(e, d) /\ Asked(e) /\ Asked(d)
    BY <2>1, <2>2 DEF RefreshInv, Past, Asked
  <2> QED
    BY <2>1, <2>2, <2>3 DEF TwiceSound
<1>16. \A d \in Calls : call[d].at \in {"leading", "rotated"} => call[d].token \in Tokens /\ flight[call[d].token] = d
  BY DEF RefreshInv, AskSound, WaitSound, Asked
<1> HIDE DEF t
<1>17. RefreshTypes' /\ HeldSound' /\ PairingSound' /\ \A d \in Calls : AskSound(d)'
  BY <1>2, <1>11, <1>12, <1>13, ServerAsks
<1>18. ASSUME NEW d \in Calls PROVE AnswerSound(d)'
  <2>1. CASE d = c
    BY <1>2, <1>3, <1>11, <1>14, <2>1 DEF AnswerSound, Past, Spent, Live
  <2>2. CASE d # c
    BY <1>2, <1>10, <2>2, AnswerStays
  <2> QED
    BY <2>1, <2>2
<1>19. ASSUME NEW d \in Calls PROVE WaitSound(d)'
  <2>1. CASE d = c
    <3>1. CASE leads
      BY <1>3, <1>11, <1>13, <2>1, <3>1 DEF WaitSound
    <3>2. CASE ~leads
      <4>1. PICK e \in Calls : e = flight[t] /\ call[e].token = t /\ call[e].at \in {"leading", "rotated"}
        BY <1>6, <3>2
      <4>2. e # c /\ call'[e] = call[e]
        BY <1>1, <1>10, <4>1
      <4> QED
        BY <1>11, <1>15, <2>1, <3>2, <4>1, <4>2 DEF WaitSound, Past
    <3> QED
      BY <3>1, <3>2
  <2>2. CASE d # c
    <3>1. WaitSound(d) /\ call'[d] = call[d]
      BY <1>10, <2>2 DEF RefreshInv
    <3>2. call[d].at \in {"leading", "rotated"} => flight'[call[d].token] = d
      <4> SUFFICES ASSUME call[d].at \in {"leading", "rotated"} PROVE flight'[call[d].token] = d
        OBVIOUS
      <4>1. call[d].token \in Tokens /\ flight[call[d].token] = d
        BY <1>16
      <4>2. leads => call[d].token # t
        BY <4>1, RefreshAssumption DEF leads
      <4> QED
        BY <1>13, <4>1, <4>2
    <3>3. call[d].at = "following" => call[d].leader \in Calls /\ call[d].leader # c
      BY <1>1, <3>1 DEF WaitSound, Past
    <3>4. \A e \in Calls : e # c => call'[e] = call[e]
      BY <1>10
    <3> QED
      BY <3>1, <3>2, <3>3, <3>4 DEF WaitSound
  <2> QED
    BY <2>1, <2>2
<1>20. ASSUME NEW x \in Tokens PROVE FlightSound(x)'
  <2>1. CASE leads /\ x = t
    BY <1>3, <1>11, <1>13, <2>1 DEF FlightSound
  <2>2. CASE ~(leads /\ x = t)
    <3>1. flight'[x] = flight[x]
      BY <1>13, <2>2
    <3>2. flight[x] # Nobody => flight[x] \in Calls /\ flight[x] # c
      BY <1>1, <1>4 DEF RefreshInv, FlightSound
    <3> QED
      BY <1>10, <3>1, <3>2 DEF RefreshInv, FlightSound
  <2> QED
    BY <2>1, <2>2
<1>21. ASSUME NEW d \in Calls, NEW e \in Calls PROVE TwiceSound(d, e)'
  BY <1>2, <1>12 DEF RefreshInv, TwiceSound
<1>22. ASSUME NEW s \in Sessions PROVE UsedSound(s)'
  <2>1. UsedSound(s)
    BY DEF RefreshInv
  <2>2. ASSUME NEW n \in Generations, token[s][n].state = "used"
        PROVE  \E d \in Calls : call'[d].token = <<s, n>> /\ call'[d].at \in Past \cup {"gone"}
    <3>1. PICK d \in Calls : call[d].token = <<s, n>> /\ call[d].at \in Past \cup {"gone"}
      BY <2>1, <2>2 DEF UsedSound
    <3> QED
      BY <1>12, <3>1
  <2> QED
    BY <1>2, <2>1, <2>2 DEF UsedSound
<1>23. CanGoOn'
  BY <1>2, <1>12, GoesOn
<1> QED
  BY <1>2, <1>17, <1>18, <1>19, <1>20, <1>21, <1>22, <1>23 DEF RefreshInv

LEMMA WakeFollowerKeeps ==
    ASSUME RefreshInv, NEW c \in Calls, WakeFollower(c), cautious' = cautious
    PROVE  RefreshInv'
<1> DEFINE e == call[c].leader
<1>1. /\ call[c].at = "following" /\ call[e].at \in {"answered", "done"}
      /\ call' = [call EXCEPT ![c].at = "answered", ![c].result = call[e].result]
      /\ UNCHANGED <<familyVars, clientVars, flight, mishaps>>
  BY DEF WakeFollower, MayWake
<1>2. /\ FamilyInv' /\ UNCHANGED <<session, family, token>>
      /\ UNCHANGED <<held, generation, refreshing, expected, pairing, cautious>>
      /\ mishaps' = mishaps /\ mishaps' >= mishaps /\ mishaps' \in 0..MaxMishaps /\ mishaps' \in Nat
      /\ \A x \in Tokens : Issued(x) => Issued(x)'
      /\ \A x \in Tokens : Issued(x) /\ Spent(x) => Spent(x)'
      /\ \A s \in Sessions : session[s].status # "absent" => session'[s].status # "absent"
      /\ \A s \in Sessions : session[s].status # "absent" /\ Live(s)' => Live(s)
      /\ \A s \in Sessions : family'[s].rotations = family[s].rotations
      /\ pairing # Nobody => family'[pairing].rotations = family[pairing].rotations
      /\ Excused' <=> Excused
  BY <1>1, ServerStep
<1>3. /\ Asked(c) /\ AskSound(c) /\ AnswerSound(c) /\ WaitSound(c)
      /\ call[c].token \in Tokens /\ Issued(call[c].token) /\ call[c].result = Refused
  BY <1>1 DEF RefreshInv, AskSound, AnswerSound, Asked, Past
<1>4. /\ e \in Calls /\ call[e].token = call[c].token /\ call[e].at \in Past /\ e # c
      /\ call[c].late => call[e].result = Refused
      /\ AnswerSound(e) /\ Asked(e) /\ Spent(call[c].token)
  BY <1>1, <1>3 DEF WaitSound, Past, RefreshInv, AnswerSound, Asked
<1>5. call \in [Calls -> CallRow] /\ flight \in [Tokens -> Calls \cup {Nobody}]
  BY DEF RefreshInv, RefreshTypes
<1>6. PICK row \in CallRow : row = call[c]
  BY <1>5
<1>7. PICK r \in Tokens \cup {Refused} : r = call[e].result
  BY <1>4, <1>5 DEF CallRow
<1>8. LET new == [row EXCEPT !.at = "answered", !.result = r]
      IN /\ new \in CallRow /\ new.at = "answered" /\ new.result = r
         /\ new.late = row.late /\ new.token = row.token /\ new.generation = row.generation
         /\ new.awaited = row.awaited /\ new.leader = row.leader
  BY DEF CallRow, Places
<1>9. /\ call'[c] = [row EXCEPT !.at = "answered", !.result = r]
      /\ \A d \in Calls : d # c => call'[d] = call[d]
  BY <1>1, <1>5, <1>6, <1>7
<1>10. /\ call' \in [Calls -> CallRow] /\ call'[c].at = "answered" /\ call'[c].result = call[e].result
       /\ call'[c].late = call[c].late /\ call'[c].token = call[c].token
       /\ call'[c].generation = call[c].generation /\ call'[c].awaited = call[c].awaited
  BY <1>1, <1>5, <1>6, <1>7, <1>8, <1>9
<1> HIDE DEF e
<1>11. \A d \in Calls : /\ call'[d].token = call[d].token
                        /\ call'[d].generation = call[d].generation
                        /\ call'[d].awaited = call[d].awaited
                        /\ Asked(d)' <=> Asked(d)
                        /\ ~Asked(d) => call'[d] = call[d]
                        /\ call'[d].at = "gone" <=> call[d].at = "gone"
                        /\ call'[d].at = "done" <=> call[d].at = "done"
                        /\ call[d].at \in Past => call'[d].at \in Past
                        /\ call'[d].at = "rotated" => d # c
  BY <1>1, <1>3, <1>9, <1>10 DEF Asked, Past
<1>12. RefreshTypes' /\ HeldSound' /\ PairingSound' /\ \A d \in Calls : AskSound(d)'
  <2>1. flight' \in [Tokens -> Calls \cup {Nobody}]
    BY <1>1, <1>5
  <2> QED
    BY <1>2, <1>10, <1>11, <2>1, ServerAsks
<1>13. ASSUME NEW d \in Calls PROVE AnswerSound(d)'
  <2>1. CASE d = c
    BY <1>2, <1>3, <1>4, <1>10, <2>1 DEF AnswerSound, Past, Spent, Live, Issued
  <2>2. CASE d # c
    BY <1>2, <1>9, <2>2, AnswerStays
  <2> QED
    BY <2>1, <2>2
<1>14. ASSUME NEW d \in Calls PROVE WaitSound(d)'
  <2>1. CASE d = c
    BY <1>10, <2>1 DEF WaitSound
  <2>2. CASE d # c
    <3>1. WaitSound(d) /\ call'[d] = call[d]
      BY <1>9, <2>2 DEF RefreshInv
    <3>2. call[d].at = "following" => call[d].leader \in Calls /\ call[d].leader # c
      BY <1>1, <3>1 DEF WaitSound, Past
    <3>3. \A x \in Calls : x # c => call'[x] = call[x]
      BY <1>9
    <3> QED
      BY <1>1, <3>1, <3>2, <3>3 DEF WaitSound
  <2> QED
    BY <2>1, <2>2
<1>15. ASSUME NEW x \in Tokens PROVE FlightSound(x)'
  <2>1. flight[x] # Nobody => flight[x] \in Calls /\ flight[x] # c
    BY <1>1, <1>5 DEF RefreshInv, FlightSound
  <2>2. flight[x] # Nobody => call'[flight[x]] = call[flight[x]]
    BY <1>9, <2>1
  <2> QED
    BY <1>1, <2>1, <2>2 DEF RefreshInv, FlightSound
<1>16. ASSUME NEW d \in Calls, NEW f \in Calls PROVE TwiceSound(d, f)'
  <2>1. TwiceSound(d, f)
    BY DEF RefreshInv
  <2>2. CASE f = c /\ d # c
    <3>1. call[d].at = "rotated" /\ Asked(d) /\ call[d].token = call[c].token => call[d].result = Refused
      <4> SUFFICES ASSUME call[d].at = "rotated", Asked(d), call[d].token = call[c].token
                   PROVE  call[d].result = Refused
        OBVIOUS
      <4>1. d # e
        BY <1>1 DEF e
      <4>2. TwiceSound(d, e)
        BY <1>4 DEF RefreshInv
      <4> QED
        BY <1>4, <4>1, <4>2 DEF TwiceSound
    <3>2. call'[d] = call[d]
      BY <1>9, <2>2
    <3> QED
      BY <1>2, <1>3, <1>11, <2>1, <2>2, <3>1, <3>2 DEF TwiceSound
  <2>3. CASE f # c
    <3>1. call'[f] = call[f]
      BY <1>9, <2>3
    <3>2. call'[d].at = "rotated" => call'[d] = call[d]
      BY <1>9, <1>11
    <3> QED
      BY <1>2, <1>11, <2>1, <3>1, <3>2 DEF TwiceSound
  <2>4. CASE d = f
    BY <2>4 DEF TwiceSound
  <2> QED
    BY <2>2, <2>3, <2>4
<1>17. ASSUME NEW s \in Sessions PROVE UsedSound(s)'
  <2>1. UsedSound(s)
    BY DEF RefreshInv
  <2>2. ASSUME NEW n \in Generations, token[s][n].state = "used"
        PROVE  \E d \in Calls : call'[d].token = <<s, n>> /\ call'[d].at \in Past \cup {"gone"}
    <3>1. PICK d \in Calls : call[d].token = <<s, n>> /\ call[d].at \in Past \cup {"gone"}
      BY <2>1, <2>2 DEF UsedSound
    <3> QED
      BY <1>11, <3>1
  <2> QED
    BY <1>2, <2>1, <2>2 DEF UsedSound
<1>18. CanGoOn'
  <2>1. /\ \A s \in Sessions : session[s].status # "absent" => family'[s].rotations = family[s].rotations
        /\ \A d \in Calls : Asked(d) => Asked(d)'
    BY <1>2, <1>11
  <2> SUFFICES ASSUME mishaps' = 0, held # Nobody, Live(held[1])'
               PROVE  \/ held[2] = family'[held[1]].rotations
                      \/ \E d \in Calls : /\ Asked(d)' /\ IsCurrent(d)' /\ call'[d].at # "done"
                                          /\ call'[d].result = <<held[1], family'[held[1]].rotations>>
    BY <1>2 DEF CanGoOn, Live
  <2>2. Live(held[1]) /\ mishaps = 0
    BY <1>2 DEF Live
  <2>3. CASE held[2] = family[held[1]].rotations
    BY <1>2, <2>3
  <2>4. CASE held[2] # family[held[1]].rotations
    <3>1. PICK d \in Calls : /\ Asked(d) /\ IsCurrent(d) /\ call[d].at # "done"
                             /\ call[d].result = <<held[1], family[held[1]].rotations>>
      BY <2>2, <2>4 DEF RefreshInv, CanGoOn
    <3>2. call[d].result # Refused
      BY <3>1 DEF Refused
    <3>3. d # c
      BY <1>3, <3>2
    <3> QED
      BY <1>2, <1>9, <3>1, <3>3 DEF Asked, IsCurrent
  <2> QED
    BY <2>3, <2>4
<1> QED
  BY <1>2, <1>12, <1>13, <1>14, <1>15, <1>16, <1>17, <1>18 DEF RefreshInv

LEMMA RefreshCrashKeeps ==
    ASSUME RefreshInv, Crash, cautious' = cautious
    PROVE  RefreshInv'
<1>1. /\ mishaps < MaxMishaps /\ mishaps' = mishaps + 1
      /\ call' = [c \in Calls |-> IF call[c].at \in InServer
                                  THEN [call[c] EXCEPT !.at = "gone"] ELSE call[c]]
      /\ flight' = [t \in Tokens |-> Nobody]
      /\ UNCHANGED <<familyVars, clientVars>>
  BY DEF Crash
<1>2. FamilyInv' /\ UNCHANGED <<session, family, token>>
  BY <1>1, FamilyStill DEF RefreshInv, familyVars
<1>3. /\ mishaps' > 0 /\ mishaps' >= mishaps /\ mishaps' \in 0..MaxMishaps /\ mishaps' \in Nat
      /\ (Excused => Excused')
      /\ UNCHANGED <<held, generation, refreshing, expected, pairing, cautious>>
  BY <1>1, RefreshAssumption DEF RefreshInv, RefreshTypes, Excused, clientVars
<1>4. ASSUME NEW d \in Calls
      PROVE /\ call'[d] \in CallRow
            /\ call'[d].token = call[d].token /\ call'[d].generation = call[d].generation
            /\ call'[d].awaited = call[d].awaited /\ call'[d].result = call[d].result
            /\ call'[d].late = call[d].late
            /\ call[d].at \in InServer => call'[d].at = "gone"
            /\ call[d].at \notin InServer => call'[d] = call[d]
  <2>1. call[d] \in CallRow /\ "gone" \in Places
    BY DEF RefreshInv, RefreshTypes, Places
  <2>2. call'[d] = IF call[d].at \in InServer THEN [call[d] EXCEPT !.at = "gone"] ELSE call[d]
    BY <1>1
  <2> QED
    BY <2>1, <2>2, AtRow
<1>5. \A d \in Calls : /\ Asked(d)' <=> Asked(d)
                       /\ ~Asked(d) => call'[d] = call[d]
                       /\ call'[d].at = "done" <=> call[d].at = "done"
                       /\ call'[d].at \notin {"leading", "rotated", "following"}
                       /\ call'[d].at \in Past => call'[d] = call[d]
                       /\ call[d].at \in Past \cup {"gone"} => call'[d].at \in Past \cup {"gone"}
  BY <1>4 DEF Asked, Past, InServer
<1>6. RefreshTypes' /\ HeldSound' /\ PairingSound' /\ \A d \in Calls : AskSound(d)'
  <2>1. call' \in [Calls -> CallRow] /\ flight' \in [Tokens -> Calls \cup {Nobody}]
    BY <1>1, <1>4
  <2>2. /\ \A x \in Tokens : Issued(x) => Issued(x)'
        /\ \A s \in Sessions : session[s].status # "absent" => session'[s].status # "absent"
        /\ pairing # Nobody => family'[pairing].rotations = family[pairing].rotations
    BY <1>2 DEF Issued
  <2> QED
    BY <1>2, <1>3, <1>4, <1>5, <2>1, <2>2, ServerAsks
<1>7. ASSUME NEW d \in Calls PROVE AnswerSound(d)'
  BY <1>2, <1>4, <1>5 DEF RefreshInv, AnswerSound, Spent, Issued, Live
<1>8. \A d \in Calls : WaitSound(d)'
  BY <1>5 DEF WaitSound
<1>9. \A t \in Tokens : FlightSound(t)'
  BY <1>1 DEF FlightSound
<1>10. \A d, e \in Calls : TwiceSound(d, e)'
  BY <1>3, <1>4, <1>5 DEF RefreshInv, TwiceSound
<1>11. ASSUME NEW s \in Sessions PROVE UsedSound(s)'
  <2>1. UsedSound(s)
    BY DEF RefreshInv
  <2>2. ASSUME NEW n \in Generations, token[s][n].state = "used"
        PROVE  \E d \in Calls : call'[d].token = <<s, n>> /\ call'[d].at \in Past \cup {"gone"}
    <3>1. PICK d \in Calls : call[d].token = <<s, n>> /\ call[d].at \in Past \cup {"gone"}
      BY <2>1, <2>2 DEF UsedSound
    <3> QED
      BY <1>4, <1>5, <3>1
  <2> QED
    BY <1>2, <1>3, <2>1, <2>2 DEF UsedSound
<1>12. CanGoOn'
  BY <1>3 DEF CanGoOn
<1> QED
  BY <1>2, <1>6, <1>7, <1>8, <1>9, <1>10, <1>11, <1>12 DEF RefreshInv

LEMMA RotateLeadingKeeps ==
    ASSUME RefreshInv, NEW c \in Calls, RotateLeading(c), cautious' = cautious
    PROVE  RefreshInv'
<1>1. /\ call[c].at = "leading" /\ UNCHANGED <<clientVars, flight, mishaps>>
  BY DEF RotateLeading
<1>2. PICK t \in Tokens : t = call[c].token
  BY <1>1 DEF RefreshInv, AskSound, Asked
<1>3. /\ Asked(c) /\ AskSound(c) /\ AnswerSound(c) /\ WaitSound(c) /\ Issued(t)
      /\ call[c].result = Refused /\ flight[t] = c
  BY <1>1, <1>2 DEF RefreshInv, AskSound, AnswerSound, WaitSound, Asked, Past
<1>4. PICK s \in Sessions, n \in Generations : t = <<s, n>> /\ t[1] = s /\ t[2] = n
  BY TokenShape
<1>5. n \in Nat /\ s \in Sessions
  BY FamilyAssumption DEF Generations
<1>6. PICK at \in Times : at = 0
  BY FamilyAssumption DEF Times
<1> DEFINE Exchanged == Rotate(s, n, Students, at)
           Denied == \/ RotationLimit(s, n, Students, at)
                     \/ ReuseDetected(s, n, at)
                     \/ RotationDenied(s, n, Students, at) /\ UNCHANGED familyVars
<1>7. \/ /\ Exchanged
         /\ call' = [call EXCEPT ![c].at = "rotated", ![c].result = <<s, family[s].rotations + 1>>]
      \/ /\ Denied
         /\ call' = [call EXCEPT ![c].at = "rotated", ![c].result = Refused]
  BY <1>2, <1>4, <1>6 DEF RotateLeading
<1> DEFINE FamilyMoved ==
      /\ FamilyInv' /\ \A u \in Sessions : Onward(u)
      /\ \A u \in Sessions : session[u].status = "absent" => session'[u] = session[u]
      /\ \A u \in Sessions : u # s => family'[u].compromised = family[u].compromised
      /\ family'[s].compromised => family[s].compromised \/ token[s][n].state = "used"
      /\ \A u \in Sessions, m \in Generations :
            token'[u][m].state = "used" => token[u][m].state = "used" \/ (u = s /\ m = n)
      /\ \A u \in Sessions : u # s => family'[u].rotations = family[u].rotations
      /\ Spent(t)'
<1>8. ASSUME Exchanged
      PROVE  /\ FamilyMoved
             /\ n = family[s].rotations /\ family'[s].rotations = n + 1 /\ n + 1 \in Generations
             /\ ~Spent(t) /\ Live(s) /\ session'[s].status = "open"
  <2>1. /\ FamilyInv' /\ \A u \in Sessions : Onward(u)
        /\ \A u \in Sessions : session[u].status = "absent" => session'[u] = session[u]
        /\ \A u \in Sessions : u # s => Same(u)
        /\ family'[s].compromised = family[s].compromised
        /\ n = family[s].rotations /\ family'[s].rotations = n + 1
        /\ session'[s].status = "open" /\ n + 1 \in Generations
        /\ token'[s][n].state = "used"
        /\ \A m \in Generations : m # n /\ token'[s][m].state = "used" => token[s][m].state = "used"
    BY <1>8, RotateSound DEF RefreshInv
  <2>2. /\ token[s][n].state = "active" /\ Live(s) /\ token[s][n].expires > 0
    BY <1>6, <1>8 DEF Rotate, MayRotate
  <2>3. token[s][n].expires \in Int
    BY FamilyAssumption DEF RefreshInv, FamilyInv, FamilyTypeOK, Expiries
  <2>4. ~Spent(t)
    BY <1>4, <2>2, <2>3 DEF Spent
  <2>5. Spent(t)'
    BY <1>4, <2>1 DEF Spent
  <2>6. \A u \in Sessions : u # s => /\ family'[u].compromised = family[u].compromised
                                     /\ family'[u].rotations = family[u].rotations
                                     /\ token'[u] = token[u]
    BY <2>1 DEF Same
  <2>7. \A u \in Sessions, m \in Generations :
            token'[u][m].state = "used" => token[u][m].state = "used" \/ (u = s /\ m = n)
    <3> SUFFICES ASSUME NEW u \in Sessions, NEW m \in Generations, token'[u][m].state = "used"
                 PROVE  token[u][m].state = "used" \/ (u = s /\ m = n)
      OBVIOUS
    <3>1. CASE u = s
      BY <2>1, <3>1
    <3>2. CASE u # s
      BY <2>6, <3>2
    <3> QED
      BY <3>1, <3>2
  <2> QED
    BY <2>1, <2>2, <2>4, <2>5, <2>6, <2>7
<1>9. ASSUME Denied
      PROVE  FamilyMoved /\ family'[s].rotations = family[s].rotations
  <2>1. CASE RotationLimit(s, n, Students, at)
    <3>1. /\ FamilyInv' /\ \A u \in Sessions : Onward(u)
          /\ \A u \in Sessions : session[u].status = "absent" => session'[u] = session[u]
          /\ \A u \in Sessions : family'[u].compromised = family[u].compromised
          /\ \A u \in Sessions, m \in Generations :
                token'[u][m].state = "used" => token[u][m].state = "used"
          /\ \A u \in Sessions : family'[u].rotations = family[u].rotations
          /\ session'[s].status = "revoked"
      BY <2>1, LimitSound DEF RefreshInv
    <3>2. Spent(t)'
      BY <1>4, <3>1 DEF Spent, Live
    <3>3. family'[s].compromised => family[s].compromised
      BY <3>1
    <3>4. \A u \in Sessions, m \in Generations :
             token'[u][m].state = "used" => token[u][m].state = "used" \/ (u = s /\ m = n)
      BY <3>1
    <3>5. family'[s].rotations = family[s].rotations
      BY <3>1
    <3> QED
      BY <3>1, <3>2, <3>3, <3>4, <3>5
  <2>2. CASE ReuseDetected(s, n, at)
    <3>1. /\ FamilyInv' /\ \A u \in Sessions : Onward(u)
          /\ \A u \in Sessions : session[u].status = "absent" => session'[u] = session[u]
          /\ \A u \in Sessions : u # s => family'[u].compromised = family[u].compromised
          /\ \A u \in Sessions, m \in Generations :
                token'[u][m].state = "used" => token[u][m].state = "used"
          /\ \A u \in Sessions : family'[u].rotations = family[u].rotations
          /\ session'[s].status = "revoked"
      BY <2>2, ReuseSound DEF RefreshInv
    <3>2. Spent(t)'
      BY <1>4, <3>1 DEF Spent, Live
    <3>3. token[s][n].state = "used"
      BY <2>2 DEF ReuseDetected, IsReuse
    <3>4. \A u \in Sessions, m \in Generations :
             token'[u][m].state = "used" => token[u][m].state = "used" \/ (u = s /\ m = n)
      BY <3>1
    <3>5. family'[s].rotations = family[s].rotations
      BY <3>1
    <3> QED
      BY <3>1, <3>2, <3>3, <3>4, <3>5
  <2>3. CASE RotationDenied(s, n, Students, at) /\ UNCHANGED familyVars
    <3>1. /\ FamilyInv' /\ \A u \in Sessions : Onward(u)
          /\ UNCHANGED <<session, family, token>>
      BY <2>3, FamilyStill DEF RefreshInv, familyVars
    <3>2. Row(s) /\ session[s].status # "absent"
      BY <1>3, <1>4 DEF RefreshInv, FamilyInv, Issued
    <3>3. session[s].student \in Students
      BY <3>2 DEF Row, RowOK
    <3>4. token[s][n].expires \in Int
      BY FamilyAssumption DEF RefreshInv, FamilyInv, FamilyTypeOK, Expiries
    <3>5. Spent(t)
      BY <1>4, <1>6, <2>3, <3>3, <3>4 DEF RotationDenied, MayRotate, Spent
    <3>6. Spent(t)'
      BY <3>1, <3>5, <1>4 DEF Spent, Live
    <3>7. family'[s].compromised => family[s].compromised
      BY <3>1
    <3>8. \A u \in Sessions, m \in Generations :
             token'[u][m].state = "used" => token[u][m].state = "used" \/ (u = s /\ m = n)
      BY <3>1
    <3>9. family'[s].rotations = family[s].rotations
      BY <3>1
    <3> QED
      BY <3>1, <3>6, <3>7, <3>8, <3>9
  <2> QED
    BY <1>9, <2>1, <2>2, <2>3
<1>10. FamilyMoved
  BY <1>7, <1>8, <1>9
<1>11. PICK r \in Tokens \cup {Refused} :
          /\ call' = [call EXCEPT ![c].at = "rotated", ![c].result = r]
          /\ r # Refused => Exchanged /\ r = <<s, n + 1>> /\ r \in Tokens
          /\ r = Refused => Denied
  <2>1. CASE /\ Exchanged
             /\ call' = [call EXCEPT ![c].at = "rotated", ![c].result = <<s, family[s].rotations + 1>>]
    <3>1. <<s, n + 1>> \in Tokens /\ n = family[s].rotations /\ <<s, n + 1>> # Refused
      BY <1>8, <2>1, TokenPair, TokenShape
    <3> QED
      BY <2>1, <3>1
  <2>2. CASE /\ Denied
             /\ call' = [call EXCEPT ![c].at = "rotated", ![c].result = Refused]
    BY <2>2
  <2> QED
    BY <1>7, <2>1, <2>2
<1>12. /\ r # Refused => /\ n = family[s].rotations /\ family'[s].rotations = n + 1
                         /\ ~Spent(t) /\ Live(s) /\ session'[s].status = "open"
       /\ r = Refused => family'[s].rotations = family[s].rotations
  BY <1>8, <1>9, <1>11
<1> HIDE DEF Exchanged, Denied
<1>13. /\ FamilyInv' /\ \A u \in Sessions : Onward(u)
       /\ \A u \in Sessions : u # s => family'[u].compromised = family[u].compromised
       /\ family'[s].compromised => family[s].compromised \/ token[s][n].state = "used"
       /\ \A u \in Sessions, m \in Generations :
             token'[u][m].state = "used" => token[u][m].state = "used" \/ (u = s /\ m = n)
       /\ \A u \in Sessions : u # s => family'[u].rotations = family[u].rotations
       /\ Spent(t)'
  BY <1>10
<1> HIDE DEF FamilyMoved
<1>14. /\ \A x \in Tokens : Issued(x) => Issued(x)'
       /\ \A x \in Tokens : Issued(x) /\ Spent(x) => Spent(x)'
       /\ \A u \in Sessions : session[u].status # "absent" => session'[u].status # "absent"
       /\ \A u \in Sessions : session[u].status # "absent" /\ Live(u)' => Live(u)
  BY <1>13, TokensKept DEF RefreshInv
<1>15. call \in [Calls -> CallRow] /\ call[c] \in CallRow
  BY DEF RefreshInv, RefreshTypes
<1>16. PICK row \in CallRow : row = call[c]
  BY <1>15
<1>17. LET new == [row EXCEPT !.at = "rotated", !.result = r]
       IN /\ new \in CallRow /\ new.at = "rotated" /\ new.result = r
          /\ new.late = row.late /\ new.token = row.token /\ new.generation = row.generation
          /\ new.awaited = row.awaited /\ new.leader = row.leader
  BY DEF CallRow, Places
<1>18. /\ call'[c] = [row EXCEPT !.at = "rotated", !.result = r]
       /\ \A d \in Calls : d # c => call'[d] = call[d]
  BY <1>11, <1>15, <1>16
<1>19. /\ call' \in [Calls -> CallRow] /\ call'[c].at = "rotated" /\ call'[c].result = r
       /\ call'[c].late = call[c].late /\ call'[c].token = t /\ call[c].token = t
       /\ call'[c].generation = call[c].generation /\ call'[c].awaited = call[c].awaited
  BY <1>2, <1>11, <1>15, <1>16, <1>17, <1>18
<1>20. \A d \in Calls : /\ call'[d].token = call[d].token
                        /\ call'[d].generation = call[d].generation
                        /\ call'[d].awaited = call[d].awaited
                        /\ Asked(d)' <=> Asked(d)
                        /\ ~Asked(d) => call'[d] = call[d]
                        /\ call'[d].at = "gone" <=> call[d].at = "gone"
                        /\ call'[d].at = "done" <=> call[d].at = "done"
                        /\ call[d].at \in Past => call'[d].at \in Past
  BY <1>1, <1>3, <1>18, <1>19 DEF Asked, Past
<1>21. /\ UNCHANGED <<held, generation, refreshing, expected, pairing, cautious, flight>>
       /\ mishaps' = mishaps /\ mishaps' >= mishaps /\ mishaps' \in 0..MaxMishaps /\ mishaps' \in Nat
       /\ Excused' <=> Excused
  BY <1>1, RefreshAssumption DEF clientVars, RefreshInv, RefreshTypes, Excused
<1>22. ASSUME NEW d \in Calls, d # c, Asked(d), call[d].token = t
       PROVE  /\ Excused
              /\ r # Refused => call[d].at \notin Past /\ ~call[d].late
              /\ call[d].at # "rotated"
  <2>1. AskSound(d) /\ AnswerSound(d) /\ WaitSound(d) /\ TwiceSound(c, d)
    BY DEF RefreshInv
  <2> QED
    BY <1>3, <1>12, <1>19, <1>22, <2>1 DEF AnswerSound, WaitSound, TwiceSound
<1>23. RefreshTypes' /\ HeldSound' /\ PairingSound' /\ \A d \in Calls : AskSound(d)'
  <2>1. flight' \in [Tokens -> Calls \cup {Nobody}]
    BY <1>21 DEF RefreshInv, RefreshTypes
  <2>2. pairing # Nobody => family'[pairing].rotations = family[pairing].rotations
    <3>1. pairing # Nobody => pairing \in Sessions /\ pairing # s
      BY <1>3, <1>4, <1>19 DEF RefreshInv, RefreshTypes, PairingSound
    <3> QED
      BY <1>13, <3>1
  <2> QED
    BY <1>13, <1>14, <1>19, <1>20, <1>21, <2>1, <2>2, ServerAsks
<1>24. ASSUME NEW d \in Calls PROVE AnswerSound(d)'
  <2>1. CASE d = c
    <3>1. r # Refused => r = <<call'[c].token[1], call'[c].token[2] + 1>>
      BY <1>4, <1>11, <1>19
    <3>2. r # Refused => Issued(r)'
      <4> SUFFICES ASSUME r # Refused PROVE Issued(r)'
        OBVIOUS
      <4>1. r[1] = s /\ r[2] = n + 1
        BY <1>11
      <4>2. session'[s].status # "absent" /\ n + 1 <= family'[s].rotations
        BY <1>5, <1>12
      <4> QED
        BY <4>1, <4>2 DEF Issued
    <3>3. call[c].late => r = Refused
      BY <1>3, <1>12, <1>19 DEF AnswerSound
    <3>4. call'[c].at \in Past
      BY <1>19 DEF Past
    <3>5. /\ call'[c].result # Refused =>
              /\ call'[c].result = <<call'[c].token[1], call'[c].token[2] + 1>>
              /\ session'[call'[c].result[1]].status # "absent"
              /\ call'[c].result[2] <= family'[call'[c].result[1]].rotations
      BY <1>19, <3>1, <3>2 DEF Issued
    <3>6. Spent(call[c].token)'
      BY <1>13, <1>19 DEF Spent, Live
    <3> QED
      BY <1>19, <2>1, <3>3, <3>4, <3>5, <3>6 DEF AnswerSound, Issued
  <2>2. CASE d # c
    BY <1>14, <1>18, <2>2, AnswerStays
  <2> QED
    BY <2>1, <2>2
<1>25. ASSUME NEW d \in Calls PROVE WaitSound(d)'
  <2>1. CASE d = c
    BY <1>3, <1>19, <1>21, <2>1 DEF WaitSound
  <2>2. CASE d # c
    <3>1. WaitSound(d) /\ call'[d] = call[d]
      BY <1>18, <2>2 DEF RefreshInv
    <3>2. CASE call[d].at = "following" /\ call[d].leader = c
      <4>1. call[d].token = t /\ Asked(d)
        BY <1>19, <3>1, <3>2 DEF WaitSound, Asked
      <4>2. call[d].late => r = Refused
        BY <1>22, <2>2, <4>1
      <4> QED
        BY <1>19, <3>1, <3>2, <4>1, <4>2 DEF WaitSound, Past
    <3>3. CASE ~(call[d].at = "following" /\ call[d].leader = c)
      <4>1. \A x \in Calls : x # c => call'[x] = call[x]
        BY <1>18
      <4> QED
        BY <1>21, <3>1, <3>3, <4>1 DEF WaitSound
    <3> QED
      BY <3>2, <3>3
  <2> QED
    BY <2>1, <2>2
<1>26. ASSUME NEW x \in Tokens PROVE FlightSound(x)'
  <2>1. FlightSound(x) /\ flight[x] \in Calls \cup {Nobody}
    BY DEF RefreshInv, RefreshTypes
  <2>2. flight[x] # Nobody /\ flight[x] # c => call'[flight[x]] = call[flight[x]]
    BY <1>18, <2>1
  <2> QED
    BY <1>19, <1>21, <2>1, <2>2 DEF FlightSound
<1>27. ASSUME NEW d \in Calls, NEW e \in Calls PROVE TwiceSound(d, e)'
  <2>1. TwiceSound(d, e)
    BY DEF RefreshInv
  <2>2. CASE d # c /\ e # c
    BY <1>18, <1>20, <1>21, <2>1, <2>2 DEF TwiceSound
  <2>3. CASE d = c /\ e # c
    <3>1. call'[e] = call[e] /\ (Asked(e)' <=> Asked(e))
      BY <1>18, <1>20, <2>3
    <3> QED
      BY <1>19, <1>21, <1>22, <2>3, <3>1 DEF TwiceSound
  <2>4. CASE d # c /\ e = c
    <3>1. call'[d] = call[d] /\ (Asked(d)' <=> Asked(d))
      BY <1>18, <1>20, <2>4
    <3> QED
      BY <1>19, <1>21, <1>22, <2>4, <3>1 DEF TwiceSound
  <2> QED
    BY <2>2, <2>3, <2>4 DEF TwiceSound
<1>28. ASSUME NEW u \in Sessions PROVE UsedSound(u)'
  <2>1. UsedSound(u)
    BY DEF RefreshInv
  <2>2. ASSUME NEW m \in Generations, token'[u][m].state = "used"
        PROVE  \E d \in Calls : call'[d].token = <<u, m>> /\ call'[d].at \in Past \cup {"gone"}
    <3>1. CASE u = s /\ m = n
      BY <1>4, <1>19, <3>1 DEF Past
    <3>2. CASE ~(u = s /\ m = n)
      <4>1. token[u][m].state = "used"
        BY <1>13, <2>2, <3>2
      <4>2. PICK d \in Calls : call[d].token = <<u, m>> /\ call[d].at \in Past \cup {"gone"}
        BY <2>1, <4>1 DEF UsedSound
      <4> QED
        BY <1>20, <4>2
    <3> QED
      BY <3>1, <3>2
  <2>3. family'[u].compromised => Excused
    <3> SUFFICES ASSUME family'[u].compromised, ~family[u].compromised PROVE Excused
      BY <2>1 DEF UsedSound
    <3>1. u = s /\ token[s][n].state = "used"
      BY <1>13
    <3>2. PICK d \in Calls : call[d].token = <<s, n>> /\ call[d].at \in Past \cup {"gone"}
      BY <2>1, <3>1 DEF UsedSound
    <3>3. d # c /\ Asked(d) /\ call[d].token = t
      BY <1>1, <1>4, <3>2 DEF Asked, Past
    <3> QED
      BY <1>22, <3>3
  <2> QED
    BY <1>21, <2>2, <2>3 DEF UsedSound
<1>29. CanGoOn'
  <2> SUFFICES ASSUME mishaps = 0, held # Nobody, Live(held[1])'
               PROVE  \/ held[2] = family'[held[1]].rotations
                      \/ \E d \in Calls : /\ Asked(d)' /\ IsCurrent(d)' /\ call'[d].at # "done"
                                          /\ call'[d].result = <<held[1], family'[held[1]].rotations>>
    BY <1>21 DEF CanGoOn, Live
  <2>1. /\ held \in Tokens /\ held[1] \in Sessions /\ session[held[1]].status # "absent"
        /\ held[2] \in Nat /\ held = <<held[1], held[2]>>
    BY TokenShape DEF RefreshInv, RefreshTypes, HeldSound, Issued
  <2>2. Live(held[1])
    BY <1>14, <1>21, <2>1 DEF Live
  <2>3. \/ held[2] = family[held[1]].rotations
        \/ \E d \in Calls : /\ Asked(d) /\ IsCurrent(d) /\ call[d].at # "done"
                            /\ call[d].result = <<held[1], family[held[1]].rotations>>
    BY <2>2 DEF RefreshInv, CanGoOn
  <2>4. CASE r # Refused /\ held[1] = s
    <3>1. held[2] = n
      <4>1. n <= held[2]
        BY <1>3, <1>4, <1>19, <2>4 DEF AskSound
      <4>2. ASSUME NEW d \in Calls, Asked(d), IsCurrent(d),
                   call[d].result = <<held[1], family[held[1]].rotations>>
            PROVE  FALSE
        <5>1. call[d].result # Refused /\ AskSound(d) /\ AnswerSound(d)
          BY <4>2 DEF Refused, RefreshInv
        <5>2. call[d].result = <<held[1], held[2] + 1>>
          BY <4>2, <5>1 DEF AskSound, AnswerSound
        <5>3. held[2] + 1 = n
          BY <1>12, <2>4, <4>2, <5>2
        <5> QED
          BY <1>5, <2>1, <4>1, <5>3
      <4> QED
        BY <1>12, <2>3, <2>4, <4>2
    <3>2. call[c].token = held
      BY <1>4, <1>19, <2>1, <2>4, <3>1
    <3>3. IsCurrent(c)
      BY <1>3, <3>2 DEF AskSound
    <3> QED
      BY <1>3, <1>11, <1>12, <1>19, <1>20, <1>21, <2>4, <3>3 DEF IsCurrent
  <2>5. CASE ~(r # Refused /\ held[1] = s)
    <3>1. family'[held[1]].rotations = family[held[1]].rotations
      BY <1>12, <1>13, <2>1, <2>5
    <3>2. CASE held[2] = family[held[1]].rotations
      BY <3>1, <3>2
    <3>3. CASE held[2] # family[held[1]].rotations
      <4>1. PICK d \in Calls : /\ Asked(d) /\ IsCurrent(d) /\ call[d].at # "done"
                               /\ call[d].result = <<held[1], family[held[1]].rotations>>
        BY <2>3, <3>3
      <4>2. call[d].result # Refused
        BY <4>1 DEF Refused
      <4>3. d # c
        BY <1>3, <4>2
      <4> QED
        BY <1>18, <1>20, <1>21, <3>1, <4>1, <4>3 DEF IsCurrent
    <3> QED
      BY <3>2, <3>3
  <2> QED
    BY <2>4, <2>5
<1> QED
  BY <1>13, <1>23, <1>24, <1>25, <1>26, <1>27, <1>28, <1>29 DEF RefreshInv

LEMMA RefreshStart ==
    ASSUME RefreshInit
    PROVE  RefreshInv
<1>1. FamilyInv
  BY FamilyStart DEF RefreshInit
<1>2. /\ cautious \in BOOLEAN /\ held = Nobody /\ generation = 0 /\ refreshing = Nobody
      /\ expected = Nobody /\ pairing = Nobody
      /\ call = [c \in Calls |-> NoCall]
      /\ flight = [t \in Tokens |-> Nobody]
      /\ mishaps = 0
  BY DEF RefreshInit
<1>3. NoCall \in CallRow
  BY DEF NoCall, CallRow, Places
<1>4. RefreshTypes
  BY <1>2, <1>3, RefreshAssumption DEF RefreshTypes
<1>5. \A c \in Calls : call[c] = NoCall /\ call[c].at = "unused"
  BY <1>2 DEF NoCall
<1>6. \A c \in Calls : AskSound(c) /\ AnswerSound(c) /\ WaitSound(c)
  BY <1>5 DEF AskSound, AnswerSound, WaitSound, Asked
<1>7. \A t \in Tokens : FlightSound(t)
  BY <1>2 DEF FlightSound
<1>8. \A c, d \in Calls : TwiceSound(c, d)
  BY <1>5 DEF TwiceSound, Asked
<1>9. ASSUME NEW s \in Sessions PROVE UsedSound(s)
  BY DEF UsedSound, RefreshInit, FamilyInit
<1> QED
  BY <1>1, <1>2, <1>4, <1>6, <1>7, <1>8, <1>9
     DEF RefreshInv, HeldSound, PairingSound, CanGoOn

LEMMA RefreshStays ==
    ASSUME RefreshInv, UNCHANGED refreshVars
    PROVE  RefreshInv'
<1>1. /\ FamilyInv' /\ UNCHANGED <<session, family, token>>
      /\ UNCHANGED <<cautious, held, generation, refreshing, expected, pairing, call, flight, mishaps>>
  BY FamilyStill DEF RefreshInv, refreshVars, familyVars, clientVars
<1>2. RefreshTypes'
  BY <1>1 DEF RefreshInv, RefreshTypes
<1>3. HeldSound' /\ PairingSound' /\ CanGoOn'
  BY <1>1 DEF RefreshInv, HeldSound, PairingSound, CanGoOn, Issued, Asked, Live, IsCurrent
<1>4. \A c \in Calls : AskSound(c)'
  BY <1>1 DEF RefreshInv, AskSound, Asked, IsCurrent, Issued, Excused
<1>5. \A c \in Calls : AnswerSound(c)'
  BY <1>1 DEF RefreshInv, AnswerSound, Asked, Issued, Spent, Live
<1>6. \A c \in Calls : WaitSound(c)'
  BY <1>1 DEF RefreshInv, WaitSound
<1>7. \A t \in Tokens : FlightSound(t)'
  BY <1>1 DEF RefreshInv, FlightSound
<1>8. \A c, d \in Calls : TwiceSound(c, d)'
  BY <1>1 DEF RefreshInv, TwiceSound, Asked, Excused
<1>9. \A s \in Sessions : UsedSound(s)'
  BY <1>1 DEF RefreshInv, UsedSound, Excused
<1> QED
  BY <1>1, <1>2, <1>3, <1>4, <1>5, <1>6, <1>7, <1>8, <1>9 DEF RefreshInv

LEMMA RefreshKeeps ==
    ASSUME RefreshInv, [RefreshNext]_refreshVars
    PROVE  RefreshInv'
<1>1. CASE UNCHANGED refreshVars
  BY <1>1, RefreshStays
<1>2. CASE RefreshNext
  <2>1. cautious' = cautious /\ RefreshStep
    BY <1>2 DEF RefreshNext
  <2>2. CASE \E s \in Sessions, st \in Students, dev \in Devices : SignIn(s, st, dev)
    BY <2>1, <2>2, SignInKeeps
  <2>3. CASE StoreSession
    BY <2>1, <2>3, StoreSessionKeeps
  <2>4. CASE SignOut
    BY <2>1, <2>4, SignOutKeeps
  <2>5. CASE \E c \in Calls : StartRefresh(c) \/ ReceiveAnswer(c) \/ GiveUp(c)
    BY <2>1, <2>5, StartRefreshKeeps, ReceiveAnswerKeeps, GiveUpKeeps
  <2>6. CASE \E c \in Calls : Serve(c)
    BY <2>1, <2>6, ArriveKeeps, RotateLeadingKeeps, RemoveFlightKeeps, CompleteFlightKeeps,
       WakeFollowerKeeps DEF Serve
  <2>7. CASE Crash
    BY <2>1, <2>7, RefreshCrashKeeps
  <2> QED
    BY <2>1, <2>2, <2>3, <2>4, <2>5, <2>6, <2>7 DEF RefreshStep
<1> QED
  BY <1>1, <1>2

-----------------------------------------------------------------------------
(* What refreshing promises.                                               *)

\* The inductive invariant holds in every state: the tables, the client, the
\* requests and the flights agree.
THEOREM RefreshIsSound == RefreshSpec => []RefreshInv
<1>1. RefreshInit => RefreshInv
  BY RefreshStart
<1>2. RefreshInv /\ [RefreshNext]_refreshVars => RefreshInv'
  BY RefreshKeeps
<1> QED
  BY <1>1, <1>2, PTL DEF RefreshSpec

LEMMA HeldFollows ==
    ASSUME RefreshInv
    PROVE  ClientHoldsItsSession
<1>1. RefreshTypeOK
  BY DEF RefreshInv, RefreshTypes, RefreshTypeOK, FamilyInv
<1>2. NoResurrection
  BY DEF RefreshInv, HeldSound, NoResurrection
<1>3. SessionReachable
  <2> SUFFICES ASSUME mishaps = 0, expected # Nobody, Live(expected)
               PROVE  /\ held # Nobody /\ held[1] = expected
                      /\ \/ held[2] = family[expected].rotations
                         \/ \E c \in Calls :
                               /\ call[c].token = held /\ IsCurrent(c)
                               /\ call[c].awaited /\ call[c].at # "done"
                               /\ call[c].result = <<expected, family[expected].rotations>>
    BY DEF SessionReachable
  <2>1. held # Nobody /\ held[1] = expected
    BY DEF RefreshInv, HeldSound
  <2>2. CASE held[2] = family[expected].rotations
    BY <2>1, <2>2
  <2>3. CASE held[2] # family[expected].rotations
    <3>1. PICK c \in Calls : /\ Asked(c) /\ IsCurrent(c) /\ call[c].at # "done"
                             /\ call[c].result = <<expected, family[expected].rotations>>
      BY <2>1, <2>3 DEF RefreshInv, CanGoOn
    <3>2. call[c].token = held /\ call[c].awaited
      BY <3>1 DEF RefreshInv, AskSound
    <3> QED
      BY <2>1, <3>1, <3>2
  <2> QED
    BY <2>2, <2>3
<1> QED
  BY <1>1, <1>2, <1>3 DEF ClientHoldsItsSession

\* What a client holds belongs to the session it stored last and has not left,
\* and while no answer was lost it can go on: it holds the latest refresh token
\* of a session that is live, or the answer that brings it is awaited and will
\* be taken (TokenManager.performRefresh, ServiceClient.Refresh).
THEOREM ClientStaysWithItsSession == RefreshSpec => []ClientHoldsItsSession
<1>1. RefreshInv => ClientHoldsItsSession
  BY HeldFollows
<1> QED
  BY <1>1, RefreshIsSound, PTL

LEMMA ExchangeFollows ==
    ASSUME RefreshInv
    PROVE  ExchangedOnce
<1>1. LateReplayRefused
  <2> SUFFICES ASSUME NEW c \in Calls, call[c].late, call[c].at \in {"answered", "done"}
               PROVE  call[c].result = Refused
    BY DEF LateReplayRefused
  <2> QED
    BY DEF RefreshInv, AnswerSound, Asked, Past
<1>2. OneSuccessor
  <2> SUFFICES ASSUME NEW c \in Calls, NEW d \in Calls, call[c].token = call[d].token,
                      call[c].result # Refused, call[d].result # Refused
               PROVE  call[c].result = call[d].result
    BY DEF OneSuccessor
  <2>1. Asked(c) /\ Asked(d)
    BY DEF RefreshInv, AskSound, NoCall
  <2> QED
    BY <2>1 DEF RefreshInv, AnswerSound
<1>3. NoFalseAlarm
  BY DEF RefreshInv, UsedSound, Excused, NoFalseAlarm
<1> QED
  BY <1>1, <1>2, <1>3 DEF ExchangedOnce

\* However many requests present one refresh token, in whatever order they
\* arrive and whenever the server dies: all answers carry the same replacement,
\* one that comes after an answer is refused, and a family is compromised only
\* after an answer was lost to a client that keeps its tokens
\* (StudentPlatformService.refresh_tokens).
THEOREM TokensAreExchangedOnce == RefreshSpec => []ExchangedOnce
<1>1. RefreshInv => ExchangedOnce
  BY ExchangeFollows
<1> QED
  BY <1>1, RefreshIsSound, PTL

-----------------------------------------------------------------------------
(* Credentials: the invariant.                                             *)

CredentialTypes ==
    /\ now \in Times
    /\ enrolled \subseteq Students
    /\ open \subseteq Assignments
    /\ password \in [Students -> PasswordRow]
    /\ device \in [Devices -> DeviceRow]
    /\ activation \in [Activations -> ActivationRow]
    /\ claim \in [Claims -> ClaimRow]
    /\ accepted \in [Devices -> Assignments \cup {Nobody}]
    /\ checks \subseteq Check

OpenedBy(s, d) == session[s].status \in {"open", "revoked"} /\ session[s].device = d

\* A student outside the course has no verifier.
StudentSound(st) == st \notin enrolled => password[st].hash = NoPassword

\* A device nobody approved yet was approved by no code, and can still be
\* mistyped; one that is approved may be exchanged.
DeviceSound(d) ==
    /\ device[d].state = "pending" => device[d].attempts < MaxAttempts
    /\ device[d].state \in {"absent", "pending"} =>
          /\ \A c \in Activations : activation[c].device # d
          /\ \A g \in Claims : claim[g].device # d
    /\ device[d].state = "approved" => device[d].student \in enrolled

\* A session rests on its device, which was consumed for it alone.
LoginSound(s) ==
    session[s].status \in {"open", "revoked"} =>
        /\ device[session[s].device].state = "consumed"
        /\ device[session[s].device].student = session[s].student
        /\ session[s].status = "open" => session[s].student \in enrolled
        /\ \A u \in Sessions : OpenedBy(u, session[s].device) => u = s

CodeSound(c) == activation[c].state = "issued" => activation[c].student \in enrolled

Current(g) == claim[g].under = password[claim[g].student].hash

\* A claim that can be redeemed rests on the student's present verifier, and so
\* does what came of a claim that was.
ClaimSound(g) ==
    /\ claim[g].state # "absent" =>
          claim[g].student \in Students /\ claim[g].under \in Passwords
    /\ claim[g].state = "issued" => claim[g].student \in enrolled /\ Current(g)
    /\ claim[g].device # Nobody =>
          /\ claim[g].state = "consumed"
          /\ device[claim[g].device].student = claim[g].student
          /\ accepted[claim[g].device] = claim[g].assignment
          /\ \A h \in Claims : claim[h].device = claim[g].device => h = g
          /\ \A c \in Activations : activation[c].device # claim[g].device
          /\ device[claim[g].device].state = "approved" => Current(g)
          /\ \A s \in Sessions : session[s].status = "open" /\ session[s].device = claim[g].device
                                 => Current(g)

ChecksSound == \A chk \in checks : chk.read.hash \in Passwords

CredentialInv ==
    /\ FamilyInv /\ Counted(now)
    /\ CredentialTypes
    /\ ChecksSound
    /\ \A st \in Students : StudentSound(st)
    /\ \A d \in Devices : DeviceSound(d)
    /\ \A s \in Sessions : LoginSound(s)
    /\ \A c \in Activations : CodeSound(c)
    /\ \A g \in Claims : ClaimSound(g)
    /\ OneCodeAtATime

-----------------------------------------------------------------------------
(* Steps that grant nothing: rows stay or lose what they could do.         *)

Fades(d) ==
    /\ device[d].state # "absent" => device'[d].student = device[d].student
    /\ device'[d].state = "pending" => device'[d].attempts < MaxAttempts
    /\ device'[d].state \in {"absent", "pending"} => device[d].state \in {"absent", "pending"}
    /\ device'[d].state = "approved" => device[d].state = "approved"
    /\ device[d].state = "consumed" =>
          device'[d].state = "consumed" \/ \A s \in Sessions : ~OpenedBy(s, d)'

CodeFades(c) ==
    /\ activation'[c].student = activation[c].student
    /\ activation'[c].device = activation[c].device
    /\ activation'[c].state = "issued" => activation[c].state = "issued"

ClaimFades(g) ==
    /\ claim'[g].student = claim[g].student /\ claim'[g].device = claim[g].device
    /\ claim'[g].assignment = claim[g].assignment /\ claim'[g].under = claim[g].under
    /\ \/ claim'[g].state = claim[g].state
       \/ claim[g].state = "issued" /\ claim'[g].state \in {"revoked", "expired"}

LoginFades(s) ==
    session'[s].status \in {"open", "revoked"} =>
        /\ session[s].status \in {"open", "revoked"}
        /\ session'[s].student = session[s].student
        /\ session'[s].device = session[s].device
        /\ session'[s].status = "open" => session[s].status = "open"

\* What the roster does to one student: nothing that was granted is touched, or
\* nothing that was granted is left.
StudentStays(st) ==
    /\ st \in enrolled => st \in enrolled'
    /\ password[st].hash \in {NoPassword, password'[st].hash}

StudentCleared(st) ==
    /\ \A c \in Activations : activation'[c].student = st => activation'[c].state # "issued"
    /\ \A g \in Claims : claim'[g].student = st => claim'[g].state # "issued"
    /\ \A d \in Devices : device'[d].student = st => device'[d].state # "approved"
    /\ \A s \in Sessions : session'[s].student = st => session'[s].status # "open"

StudentStep(st) ==
    /\ st \notin enrolled' => password'[st].hash = NoPassword
    /\ StudentStays(st) \/ StudentCleared(st)

Quiet ==
    /\ \A st \in Students : StudentStep(st)
    /\ \A d \in Devices : Fades(d)
    /\ \A c \in Activations : CodeFades(c)
    /\ \A g \in Claims : ClaimFades(g)
    /\ \A s \in Sessions : LoginFades(s)
    /\ UNCHANGED accepted

LEMMA CodeStudent ==
    ASSUME CredentialInv, NEW c \in Activations, activation[c].state = "issued"
    PROVE  activation[c].student \in Students /\ activation[c].student \in enrolled
BY DEF CredentialInv, CodeSound, CredentialTypes

LEMMA DeviceStudent ==
    ASSUME CredentialInv, NEW d \in Devices, device[d].state = "approved"
    PROVE  device[d].student \in Students /\ device[d].student \in enrolled
BY DEF CredentialInv, DeviceSound, CredentialTypes

LEMMA QuietClaim ==
    ASSUME CredentialInv, CredentialTypes', Quiet, NEW g \in Claims
    PROVE  ClaimSound(g)'
<1>1. ClaimFades(g) /\ ClaimSound(g)
  BY DEF Quiet, CredentialInv
<1>2. claim'[g].student = claim[g].student /\ claim'[g].device = claim[g].device
      /\ claim'[g].assignment = claim[g].assignment /\ claim'[g].under = claim[g].under
  BY <1>1 DEF ClaimFades
<1>3. claim'[g].state # "absent" => claim'[g].student \in Students /\ claim'[g].under \in Passwords
  BY <1>1 DEF ClaimFades, ClaimSound
<1>4. ASSUME claim'[g].state # "absent"
      PROVE  claim[g].student \in Students /\ StudentStep(claim[g].student) /\ claim[g].under \in Passwords
  BY <1>1, <1>2, <1>3, <1>4 DEF Quiet
<1>5. NoPassword \notin Passwords
  BY CredentialAssumption
<1>6. ASSUME claim'[g].state # "absent", StudentStays(claim[g].student), Current(g)
      PROVE  Current(g)'
  BY <1>2, <1>4, <1>5, <1>6 DEF Current, StudentStays
<1>7. claim'[g].state = "issued" => claim'[g].student \in enrolled' /\ Current(g)'
  <2> SUFFICES ASSUME claim'[g].state = "issued"
               PROVE  claim'[g].student \in enrolled' /\ Current(g)'
    OBVIOUS
  <2>1. claim[g].state = "issued" /\ claim[g].student \in enrolled /\ Current(g)
    BY <1>1 DEF ClaimFades, ClaimSound
  <2>2. ~StudentCleared(claim[g].student)
    BY <1>2 DEF StudentCleared
  <2>3. StudentStays(claim[g].student)
    BY <1>4, <2>2 DEF StudentStep
  <2> QED
    BY <1>2, <1>6, <2>1, <2>3 DEF StudentStays
<1>8. ASSUME claim'[g].device # Nobody
      PROVE  /\ claim'[g].state = "consumed"
             /\ device'[claim'[g].device].student = claim'[g].student
             /\ accepted'[claim'[g].device] = claim'[g].assignment
             /\ \A h \in Claims : claim'[h].device = claim'[g].device => h = g
             /\ \A c \in Activations : activation'[c].device # claim'[g].device
             /\ device'[claim'[g].device].state = "approved" => Current(g)'
             /\ \A s \in Sessions : session'[s].status = "open" /\ session'[s].device = claim'[g].device
                                    => Current(g)'
  <2>1. PICK d \in Devices : d = claim[g].device
    BY <1>2, <1>8 DEF CredentialInv, CredentialTypes, ClaimRow
  <2>2. /\ claim[g].state = "consumed" /\ device[d].student = claim[g].student
        /\ accepted[d] = claim[g].assignment
        /\ \A h \in Claims : claim[h].device = d => h = g
        /\ \A c \in Activations : activation[c].device # d
        /\ device[d].state = "approved" => Current(g)
        /\ \A s \in Sessions : session[s].status = "open" /\ session[s].device = d => Current(g)
    BY <1>1, <1>2, <1>8, <2>1 DEF ClaimSound
  <2>3. claim'[g].state = "consumed"
    BY <1>1, <2>2 DEF ClaimFades
  <2>4. Fades(d) /\ DeviceSound(d) /\ accepted' = accepted
    BY DEF Quiet, CredentialInv
  <2>5. device[d].state # "absent"
    BY <2>1, <2>4 DEF DeviceSound
  <2>6. device'[d].student = device[d].student
    BY <2>4, <2>5 DEF Fades
  <2>7. \A h \in Claims : claim'[h].device = d => h = g
    BY <2>2 DEF Quiet, ClaimFades
  <2>8. \A c \in Activations : activation'[c].device # d
    BY <2>2 DEF Quiet, CodeFades
  <2>9. StudentStays(claim[g].student) \/ StudentCleared(claim[g].student)
    BY <1>4, <2>3 DEF StudentStep
  <2>10. device'[d].state = "approved" => Current(g)'
    <3> SUFFICES ASSUME device'[d].state = "approved" PROVE Current(g)'
      OBVIOUS
    <3>1. Current(g)
      BY <2>2, <2>4 DEF Fades
    <3>2. ~StudentCleared(claim[g].student)
      BY <2>2, <2>6 DEF StudentCleared
    <3> QED
      BY <1>6, <2>3, <2>9, <3>1, <3>2
  <2>11. ASSUME NEW s \in Sessions, session'[s].status = "open", session'[s].device = d
         PROVE  Current(g)'
    <3>1. /\ session[s].status = "open" /\ session[s].device = d
          /\ session'[s].student = session[s].student
      BY <2>11 DEF Quiet, LoginFades
    <3>2. session[s].student = device[d].student
      BY <3>1 DEF CredentialInv, LoginSound
    <3>3. ~StudentCleared(claim[g].student)
      BY <2>2, <2>11, <3>1, <3>2 DEF StudentCleared
    <3> QED
      BY <1>6, <2>2, <2>3, <2>9, <3>1, <3>3
  <2> QED
    BY <1>2, <2>1, <2>2, <2>3, <2>4, <2>6, <2>7, <2>8, <2>10, <2>11
<1> QED
  BY <1>3, <1>7, <1>8 DEF ClaimSound

LEMMA QuietStep ==
    ASSUME CredentialInv, FamilyInv', Counted(now)', CredentialTypes', ChecksSound', Quiet
    PROVE  CredentialInv'
<1>1. ASSUME NEW st \in Students PROVE StudentSound(st)'
  BY DEF Quiet, StudentStep, StudentSound
<1>2. ASSUME NEW d \in Devices PROVE DeviceSound(d)'
  <2>1. Fades(d) /\ DeviceSound(d)
    BY DEF Quiet, CredentialInv
  <2>2. device'[d].state = "pending" => device'[d].attempts < MaxAttempts
    BY <2>1 DEF Fades
  <2>3. device'[d].state \in {"absent", "pending"} =>
          /\ \A c \in Activations : activation'[c].device # d
          /\ \A g \in Claims : claim'[g].device # d
    BY <2>1 DEF Fades, DeviceSound, Quiet, CodeFades, ClaimFades
  <2>4. ASSUME device'[d].state = "approved" PROVE device'[d].student \in enrolled'
    <3>1. device[d].state = "approved" /\ device'[d].student = device[d].student
      BY <2>1, <2>4 DEF Fades
    <3>2. device[d].student \in Students /\ device[d].student \in enrolled
      BY <3>1, DeviceStudent
    <3>3. StudentStep(device[d].student)
      BY <3>2 DEF Quiet
    <3> QED
      BY <2>4, <3>1, <3>2, <3>3 DEF StudentStep, StudentStays, StudentCleared
  <2> QED
    BY <2>2, <2>3, <2>4 DEF DeviceSound
<1>3. ASSUME NEW s \in Sessions PROVE LoginSound(s)'
  <2> SUFFICES ASSUME session'[s].status \in {"open", "revoked"}
               PROVE  /\ device'[session'[s].device].state = "consumed"
                      /\ device'[session'[s].device].student = session'[s].student
                      /\ session'[s].status = "open" => session'[s].student \in enrolled'
                      /\ \A u \in Sessions : OpenedBy(u, session[s].device)' => u = s
                      /\ session'[s].device = session[s].device
    BY DEF LoginSound, OpenedBy
  <2>1. LoginFades(s) /\ LoginSound(s)
    BY DEF Quiet, CredentialInv
  <2>2. /\ session[s].status \in {"open", "revoked"}
        /\ session'[s].student = session[s].student /\ session'[s].device = session[s].device
        /\ session'[s].status = "open" => session[s].status = "open"
    BY <2>1 DEF LoginFades
  <2>3. /\ device[session[s].device].state = "consumed"
        /\ device[session[s].device].student = session[s].student
        /\ session[s].status = "open" => session[s].student \in enrolled
        /\ \A u \in Sessions : OpenedBy(u, session[s].device) => u = s
    BY <2>1, <2>2 DEF LoginSound
  <2>4. session[s].device \in Devices /\ session[s].student \in Students
    <3>1. Row(s)
      BY DEF CredentialInv, FamilyInv
    <3> QED
      BY <2>2, <3>1 DEF Row, RowOK
  <2>5. PICK d \in Devices : d = session[s].device
    BY <2>4
  <2>6. Fades(d)
    BY DEF Quiet
  <2>7. OpenedBy(s, d)'
    BY <2>2, <2>5 DEF OpenedBy
  <2>8. device'[d].state = "consumed" /\ device'[d].student = session[s].student
    BY <2>3, <2>5, <2>6, <2>7 DEF Fades
  <2>9. \A u \in Sessions : OpenedBy(u, d)' => u = s
    BY <2>3, <2>5 DEF Quiet, LoginFades, OpenedBy
  <2>10. session'[s].status = "open" => session'[s].student \in enrolled'
    <3>1. StudentStep(session[s].student)
      BY <2>4 DEF Quiet
    <3> QED
      BY <2>2, <2>3, <3>1 DEF StudentStep, StudentStays, StudentCleared
  <2>11. \A u \in Sessions : OpenedBy(u, session[s].device)' => u = s
    BY <2>2, <2>5, <2>9 DEF OpenedBy
  <2> QED
    BY <2>2, <2>5, <2>8, <2>10, <2>11
<1>4. ASSUME NEW c \in Activations PROVE CodeSound(c)'
  <2> SUFFICES ASSUME activation'[c].state = "issued" PROVE activation'[c].student \in enrolled'
    BY DEF CodeSound
  <2>1. activation[c].state = "issued" /\ activation'[c].student = activation[c].student
    BY DEF Quiet, CodeFades
  <2>2. activation[c].student \in Students /\ activation[c].student \in enrolled
    BY <2>1, CodeStudent
  <2>3. StudentStep(activation[c].student)
    BY <2>2 DEF Quiet
  <2> QED
    BY <2>1, <2>2, <2>3 DEF StudentStep, StudentStays, StudentCleared
<1>5. \A g \in Claims : ClaimSound(g)'
  BY QuietClaim
<1>6. OneCodeAtATime'
  BY DEF CredentialInv, OneCodeAtATime, Quiet, CodeFades, ClaimFades
<1> QED
  BY <1>1, <1>2, <1>3, <1>4, <1>5, <1>6 DEF CredentialInv

-----------------------------------------------------------------------------
(* Rows of the tables of Credentials, one field at a time.                 *)

Marked(row, x, at) == [row EXCEPT !.state = x, !.updated = at]

LEMMA DeviceChange ==
    ASSUME NEW row \in DeviceRow, NEW x \in DeviceStates, NEW at \in Times
    PROVE  /\ Marked(row, x, at) \in DeviceRow /\ Marked(row, x, at).state = x
           /\ Marked(row, x, at).student = row.student
           /\ Marked(row, x, at).attempts = row.attempts
BY DEF DeviceRow, Marked

LEMMA DevicePruned ==
    ASSUME NEW row \in DeviceRow
    PROVE  LET new == [row EXCEPT !.state = "pruned"]
           IN  /\ new \in DeviceRow /\ new.state = "pruned"
               /\ new.student = row.student /\ new.attempts = row.attempts
BY DEF DeviceRow, DeviceStates

LEMMA CodeChange ==
    ASSUME NEW row \in ActivationRow, NEW x \in CodeStates
    PROVE  LET new == [row EXCEPT !.state = x]
           IN  /\ new \in ActivationRow /\ new.state = x
               /\ new.student = row.student /\ new.device = row.device
BY DEF ActivationRow

LEMMA ClaimChange ==
    ASSUME NEW row \in ClaimRow, NEW x \in CodeStates
    PROVE  LET new == [row EXCEPT !.state = x]
           IN  /\ new \in ClaimRow /\ new.state = x
               /\ new.student = row.student /\ new.device = row.device
               /\ new.assignment = row.assignment /\ new.under = row.under
BY DEF ClaimRow

ConsumedBy(row, d) == [row EXCEPT !.state = "consumed", !.device = d]

LEMMA CodeConsumed ==
    ASSUME NEW row \in ActivationRow, NEW d \in Devices
    PROVE  /\ ConsumedBy(row, d) \in ActivationRow /\ ConsumedBy(row, d).state = "consumed"
           /\ ConsumedBy(row, d).device = d /\ ConsumedBy(row, d).student = row.student
BY DEF ActivationRow, CodeStates, ConsumedBy

LEMMA ClaimConsumed ==
    ASSUME NEW row \in ClaimRow, NEW d \in Devices
    PROVE  /\ ConsumedBy(row, d) \in ClaimRow /\ ConsumedBy(row, d).state = "consumed"
           /\ ConsumedBy(row, d).device = d /\ ConsumedBy(row, d).student = row.student
           /\ ConsumedBy(row, d).assignment = row.assignment
           /\ ConsumedBy(row, d).under = row.under
BY DEF ClaimRow, CodeStates, ConsumedBy

LEMMA FreshRow ==
    ASSUME NEW h \in Passwords \cup {NoPassword}
    PROVE  /\ Fresh(h) \in PasswordRow /\ Fresh(h).hash = h
           /\ Fresh(h).lockedUntil = -1 /\ Fresh(h).failures = 0 /\ Fresh(h).guesses = 0
           /\ 0 # MaxFailures
<1>1. 0 \in 0..MaxFailures /\ -1 \in -1..(MaxTime + Lockout) /\ 0 # MaxFailures
  BY CredentialAssumption, FamilyAssumption
<1> QED
  BY <1>1 DEF Fresh, PasswordRow

\* A guess that is counted is remembered as a failure until it locks the row.
Remembered(row) ==
    /\ row.guesses < MaxFailures
    /\ IF row.lockedUntil = -1 THEN row.failures = row.guesses ELSE row.guesses = 0

LEMMA FailedRow ==
    ASSUME NEW chk, NEW row \in PasswordRow, row = password[chk.student], NEW at \in Times
    PROVE  /\ Failed(chk, at) \in PasswordRow /\ Failed(chk, at).hash = row.hash
           /\ Remembered(row) => Remembered(Failed(chk, at))
<1> DEFINE f == IF row.lockedUntil # -1 THEN 1 ELSE row.failures + 1
           e == Earlier(f, MaxFailures)
           l == IF f >= MaxFailures THEN at + Lockout ELSE -1
           g == IF f >= MaxFailures THEN 0 ELSE row.guesses + 1
           new == [row EXCEPT !.failures = e, !.lockedUntil = l, !.guesses = g]
<1>1. MaxFailures \in Nat \ {0} /\ Lockout \in Nat /\ MaxTime \in Nat /\ at \in Nat /\ at <= MaxTime
  BY CredentialAssumption, FamilyAssumption DEF Times
<1>2. row.failures \in Nat /\ row.guesses \in Nat
  BY <1>1 DEF PasswordRow
<1>3. f \in Nat /\ e \in 0..MaxFailures /\ l \in -1..(MaxTime + Lockout) /\ g \in Nat
  BY <1>1, <1>2 DEF Earlier
<1>4. Failed(chk, at) = new
  BY DEF Failed, CountedBefore
<1>5. ASSUME Remembered(row)
      PROVE  g < MaxFailures /\ IF l = -1 THEN e = g ELSE g = 0
  BY <1>1, <1>2, <1>5 DEF Remembered, Earlier
<1> HIDE DEF e, l, g
<1>6. /\ new \in PasswordRow /\ new.hash = row.hash
      /\ new.failures = e /\ new.lockedUntil = l /\ new.guesses = g
  BY <1>3 DEF PasswordRow
<1> HIDE DEF new
<1> QED
  BY <1>4, <1>5, <1>6 DEF Remembered

LEMMA MistakenRow ==
    ASSUME NEW row \in DeviceRow, NEW at \in Times, row.attempts < MaxAttempts
    PROVE  LET new == Mistaken(row, at)
           IN  /\ new \in DeviceRow /\ new.student = row.student
               /\ new.state \in {row.state, "denied"}
               /\ new.state = "pending" => new.attempts < MaxAttempts
<1> DEFINE a == row.attempts + 1
           x == IF row.attempts + 1 >= MaxAttempts THEN "denied" ELSE row.state
<1>1. row.attempts \in 0..MaxAttempts /\ MaxAttempts \in Nat
  BY CredentialAssumption DEF DeviceRow
<1>2. a \in 0..MaxAttempts /\ x \in DeviceStates /\ (x = "pending" => a < MaxAttempts)
  BY <1>1 DEF DeviceRow, DeviceStates
<1>3. x \in {row.state, "denied"}
  OBVIOUS
<1>4. Mistaken(row, at) = [row EXCEPT !.attempts = a, !.updated = at, !.state = x]
  BY DEF Mistaken, DeviceRow
<1> HIDE DEF a, x
<1>5. /\ [row EXCEPT !.attempts = a, !.updated = at, !.state = x] \in DeviceRow
      /\ [row EXCEPT !.attempts = a, !.updated = at, !.state = x].attempts = a
      /\ [row EXCEPT !.attempts = a, !.updated = at, !.state = x].state = x
      /\ [row EXCEPT !.attempts = a, !.updated = at, !.state = x].student = row.student
  BY <1>2 DEF DeviceRow
<1> QED
  BY <1>2, <1>3, <1>4, <1>5

LEMMA RecentTime ==
    ASSUME CredentialInv, NEW at \in Recent
    PROVE  /\ at \in Times /\ at \in Int /\ now \in Int /\ at <= now /\ now - at <= Retention
           /\ at + CodeLife \in CodeExpiries
<1>1. /\ MaxWait \in Int /\ MaxWait <= Retention /\ Retention \in Nat
      /\ CodeLife \in Nat /\ MaxTime \in Nat
  BY CredentialAssumption, FamilyAssumption
<1>2. at \in Times /\ at <= now /\ now - at <= MaxWait /\ now \in Times
  BY DEF Recent, CredentialInv, CredentialTypes
<1> QED
  BY <1>1, <1>2 DEF Times, CodeExpiries

-----------------------------------------------------------------------------
(* What stays.                                                             *)

LEMMA CountedStays ==
    ASSUME CredentialInv, \A u \in Sessions : Onward(u),
           \A u \in Sessions : session[u].status = "absent" => session'[u] = session[u],
           UNCHANGED issuances, UNCHANGED now
    PROVE  Counted(now)'
<1>1. PICK t : t = now
  OBVIOUS
<1>2. Counted(t)
  BY <1>1 DEF CredentialInv
<1>3. Counted(t)'
  BY <1>2, NothingOpens
<1> QED
  BY <1>1, <1>3 DEF Counted

LEMMA LoginsFade ==
    ASSUME FamilyInv, FamilyInv', \A u \in Sessions : Onward(u),
           \A u \in Sessions : session[u].status = "absent" => session'[u] = session[u]
    PROVE  \A s \in Sessions : LoginFades(s)
<1> SUFFICES ASSUME NEW s \in Sessions, session'[s].status \in {"open", "revoked"}
             PROVE  /\ session[s].status \in {"open", "revoked"}
                    /\ session'[s].student = session[s].student
                    /\ session'[s].device = session[s].device
                    /\ session'[s].status = "open" => session[s].status = "open"
  BY DEF LoginFades
<1>1. session[s].status \in SessionStatus
  BY DEF FamilyInv, FamilyTypeOK, SessionRow
<1>2. session[s].status # "absent"
  OBVIOUS
<1>3. Onward(s)
  OBVIOUS
<1> QED
  BY <1>1, <1>2, <1>3 DEF Onward, SessionStatus

LEMMA FamilyRests ==
    ASSUME CredentialInv, UNCHANGED familyVars, UNCHANGED now
    PROVE  FamilyInv' /\ Counted(now)' /\ \A s \in Sessions : LoginFades(s)
<1>1. FamilyInv /\ UNCHANGED <<session, issuances>>
  BY DEF CredentialInv, familyVars
<1>2. FamilyInv' /\ \A u \in Sessions : Onward(u)
  BY <1>1, FamilyStill
<1>3. \A s \in Sessions : LoginFades(s)
  BY <1>1, <1>2, LoginsFade
<1>4. Counted(now)'
  BY <1>1, <1>2, CountedStays
<1> QED
  BY <1>2, <1>3, <1>4

LEMMA DevicesRest ==
    ASSUME CredentialInv, UNCHANGED device
    PROVE  \A d \in Devices : Fades(d)
BY DEF CredentialInv, DeviceSound, Fades

LEMMA CodesRest ==
    ASSUME UNCHANGED activation
    PROVE  \A c \in Activations : CodeFades(c)
BY DEF CodeFades

LEMMA ClaimsRest ==
    ASSUME UNCHANGED claim
    PROVE  \A g \in Claims : ClaimFades(g)
BY DEF ClaimFades

LEMMA StudentsRest ==
    ASSUME CredentialInv, enrolled \subseteq enrolled',
           \A st \in Students : password'[st].hash = password[st].hash
    PROVE  \A st \in Students : StudentStep(st)
BY DEF CredentialInv, StudentSound, StudentStep, StudentStays

-----------------------------------------------------------------------------
(* The roster.                                                             *)

LEMMA RevokeEverythingSound ==
    ASSUME CredentialInv, NEW st \in Students, NEW at \in Times,
           RevokeEverything(st, at), UNCHANGED now
    PROVE  /\ FamilyInv' /\ Counted(now)'
           /\ device' \in [Devices -> DeviceRow]
           /\ activation' \in [Activations -> ActivationRow]
           /\ claim' \in [Claims -> ClaimRow]
           /\ \A d \in Devices : Fades(d)
           /\ \A c \in Activations : CodeFades(c)
           /\ \A g \in Claims : ClaimFades(g)
           /\ \A s \in Sessions : LoginFades(s)
           /\ StudentCleared(st)
<1>1. /\ device \in [Devices -> DeviceRow] /\ activation \in [Activations -> ActivationRow]
      /\ claim \in [Claims -> ClaimRow] /\ FamilyInv
  BY DEF CredentialInv, CredentialTypes
<1>2. /\ RevokeRows(Rows(st), at)
      /\ device' = [d \in Devices |->
            IF device[d].state = "approved" /\ device[d].student = st
            THEN [device[d] EXCEPT !.state = "denied", !.updated = at]
            ELSE device[d]]
      /\ activation' = [c \in Activations |->
            IF activation[c].state = "issued" /\ activation[c].student = st
            THEN [activation[c] EXCEPT !.state = "revoked"] ELSE activation[c]]
      /\ claim' = [g \in Claims |->
            IF claim[g].state = "issued" /\ claim[g].student = st
            THEN [claim[g] EXCEPT !.state = "revoked"] ELSE claim[g]]
  BY <1>1 DEF RevokeEverything, RevokeCredentials, DenyApproved, WithdrawnCodes
<1>3. PICK S \in SUBSET Sessions : S = Rows(st)
  BY DEF Rows
<1>4. \A s \in S : session[s].status # "absent" /\ session[s].status # "pruned"
  BY <1>3 DEF Rows
<1>5. RevokeRows(S, at)
  BY <1>2, <1>3
<1>6. /\ FamilyInv' /\ \A u \in Sessions : Onward(u)
      /\ \A u \in Sessions : session[u].status = "absent" => session'[u] = session[u]
  BY <1>1, <1>4, <1>5, RevokeSound
<1>7. Counted(now)'
  <2>1. UNCHANGED issuances
    BY <1>5 DEF RevokeRows
  <2> QED
    BY <1>6, <2>1, CountedStays
<1>8. \A s \in Sessions : LoginFades(s)
  BY <1>1, <1>6, LoginsFade
<1>9. ASSUME NEW d \in Devices
      PROVE  /\ device'[d] \in DeviceRow /\ Fades(d)
             /\ device'[d].student = st => device'[d].state # "approved"
  <2>1. device[d] \in DeviceRow /\ DeviceSound(d)
    BY <1>1 DEF CredentialInv
  <2>2. CASE device[d].state = "approved" /\ device[d].student = st
    <3>1. device'[d] = Marked(device[d], "denied", at)
      BY <1>2, <2>2 DEF Marked
    <3>2. PICK row \in DeviceRow : row = device[d]
      BY <2>1
    <3>3. "denied" \in DeviceStates
      BY DEF DeviceStates
    <3>4. /\ device'[d] \in DeviceRow /\ device'[d].state = "denied"
          /\ device'[d].student = device[d].student
      BY <3>1, <3>2, <3>3, DeviceChange
    <3> QED
      BY <2>2, <3>4 DEF Fades
  <2>3. CASE ~(device[d].state = "approved" /\ device[d].student = st)
    <3>1. device'[d] = device[d]
      BY <1>2, <2>3
    <3> QED
      BY <2>1, <2>3, <3>1 DEF Fades, DeviceSound
  <2> QED
    BY <2>2, <2>3
<1>10. ASSUME NEW c \in Activations
       PROVE  /\ activation'[c] \in ActivationRow /\ CodeFades(c)
              /\ activation'[c].student = st => activation'[c].state # "issued"
  <2>1. activation[c] \in ActivationRow
    BY <1>1
  <2> QED
    BY <1>2, <2>1, CodeChange DEF CodeFades, CodeStates
<1>11. ASSUME NEW g \in Claims
       PROVE  /\ claim'[g] \in ClaimRow /\ ClaimFades(g)
              /\ claim'[g].student = st => claim'[g].state # "issued"
  <2>1. claim[g] \in ClaimRow
    BY <1>1
  <2> QED
    BY <1>2, <2>1, ClaimChange DEF ClaimFades, CodeStates
<1>12. ASSUME NEW s \in Sessions, session'[s].student = st PROVE session'[s].status # "open"
  <2> SUFFICES ASSUME session'[s].status = "open" PROVE FALSE
    OBVIOUS
  <2>1. session[s].status = "open" /\ session[s].student = st
    BY <1>8, <1>12 DEF LoginFades
  <2>2. session'[s] = Closed(session[s], at) /\ session[s] \in SessionRow
    BY <1>1, <1>2, <2>1 DEF RevokeRows, Rows, FamilyInv, FamilyTypeOK
  <2> QED
    BY <2>2, ClosedRow
<1>13. StudentCleared(st)
  BY <1>9, <1>10, <1>11, <1>12 DEF StudentCleared
<1>14. /\ device' \in [Devices -> DeviceRow] /\ activation' \in [Activations -> ActivationRow]
       /\ claim' \in [Claims -> ClaimRow]
  BY <1>2, <1>9, <1>10, <1>11
<1> QED
  BY <1>6, <1>7, <1>8, <1>9, <1>10, <1>11, <1>13, <1>14

LEMMA DeactivateKeeps ==
    ASSUME CredentialInv, NEW st \in Students, NEW at \in Recent, Deactivate(st, at)
    PROVE  CredentialInv'
<1>1. /\ enrolled' = enrolled \ {st} /\ RevokeEverything(st, at)
      /\ password' = [password EXCEPT ![st] = Fresh(NoPassword)]
      /\ UNCHANGED <<now, open, accepted, checks>>
  BY DEF Deactivate
<1>2. at \in Times
  BY RecentTime
<1>3. /\ FamilyInv' /\ Counted(now)'
      /\ device' \in [Devices -> DeviceRow]
      /\ activation' \in [Activations -> ActivationRow]
      /\ claim' \in [Claims -> ClaimRow]
      /\ \A d \in Devices : Fades(d)
      /\ \A c \in Activations : CodeFades(c)
      /\ \A g \in Claims : ClaimFades(g)
      /\ \A s \in Sessions : LoginFades(s)
      /\ StudentCleared(st)
  BY <1>1, <1>2, RevokeEverythingSound
<1>4. password \in [Students -> PasswordRow]
  BY DEF CredentialInv, CredentialTypes
<1>5. password' \in [Students -> PasswordRow] /\ password'[st].hash = NoPassword
  BY <1>1, <1>4, FreshRow
<1>6. CredentialTypes' /\ ChecksSound'
  BY <1>1, <1>3, <1>5 DEF CredentialInv, CredentialTypes, ChecksSound
<1>7. ASSUME NEW x \in Students PROVE StudentStep(x)
  <2>1. CASE x = st
    BY <1>3, <1>5, <2>1 DEF StudentStep
  <2>2. CASE x # st
    <3>1. password'[x] = password[x]
      BY <1>1, <1>4, <2>2
    <3> QED
      BY <1>1, <2>2, <3>1 DEF StudentStep, StudentStays, CredentialInv, StudentSound
  <2> QED
    BY <2>1, <2>2
<1>8. Quiet
  BY <1>1, <1>3, <1>7 DEF Quiet
<1> QED
  BY <1>3, <1>6, <1>8, QuietStep

LEMMA SetPasswordKeeps ==
    ASSUME CredentialInv, NEW st \in Students, NEW hash \in Passwords, NEW at \in Recent,
           SetPassword(st, hash, at)
    PROVE  CredentialInv'
<1>1. /\ st \in enrolled /\ password' = [password EXCEPT ![st] = Fresh(hash)]
      /\ UNCHANGED <<now, enrolled, open, accepted, checks>>
  BY DEF SetPassword, rosterVars
<1>2. at \in Times
  BY RecentTime
<1>3. password \in [Students -> PasswordRow]
  BY DEF CredentialInv, CredentialTypes
<1>4. password' \in [Students -> PasswordRow] /\ password'[st].hash = hash
  BY <1>1, <1>3, FreshRow
<1>5. ASSUME NEW x \in Students, x # st PROVE StudentStep(x)
  <2>1. password'[x] = password[x]
    BY <1>1, <1>3, <1>5
  <2> QED
    BY <1>1, <2>1 DEF StudentStep, StudentStays, CredentialInv, StudentSound
<1>6. CASE password[st].hash \in Passwords \ {hash}
  <2>1. RevokeEverything(st, at)
    BY <1>6 DEF SetPassword
  <2>2. /\ FamilyInv' /\ Counted(now)'
        /\ device' \in [Devices -> DeviceRow]
        /\ activation' \in [Activations -> ActivationRow]
        /\ claim' \in [Claims -> ClaimRow]
        /\ \A d \in Devices : Fades(d)
        /\ \A c \in Activations : CodeFades(c)
        /\ \A g \in Claims : ClaimFades(g)
        /\ \A s \in Sessions : LoginFades(s)
        /\ StudentCleared(st)
    BY <1>1, <1>2, <2>1, RevokeEverythingSound
  <2>3. CredentialTypes' /\ ChecksSound'
    BY <1>1, <1>4, <2>2 DEF CredentialInv, CredentialTypes, ChecksSound
  <2>4. StudentStep(st)
    BY <1>1, <2>2 DEF StudentStep
  <2>5. Quiet
    BY <1>1, <1>5, <2>2, <2>4 DEF Quiet
  <2> QED
    BY <2>2, <2>3, <2>5, QuietStep
<1>7. CASE password[st].hash \notin Passwords \ {hash}
  <2>1. UNCHANGED familyVars /\ UNCHANGED <<device, activation, claim>>
    BY <1>7 DEF SetPassword
  <2>2. FamilyInv' /\ Counted(now)' /\ \A s \in Sessions : LoginFades(s)
    BY <1>1, <2>1, FamilyRests
  <2>3. CredentialTypes' /\ ChecksSound'
    BY <1>1, <1>4, <2>1 DEF CredentialInv, CredentialTypes, ChecksSound
  <2>4. password[st].hash \in {NoPassword, hash}
    BY <1>3, <1>7 DEF PasswordRow
  <2>5. StudentStep(st)
    BY <1>1, <1>4, <2>4 DEF StudentStep, StudentStays
  <2>6. Quiet
    BY <1>1, <1>5, <2>1, <2>2, <2>5, DevicesRest, CodesRest, ClaimsRest DEF Quiet
  <2> QED
    BY <2>2, <2>3, <2>6, QuietStep
<1> QED
  BY <1>6, <1>7

\* Steps that leave the codes, the devices and the sessions alone.
LEMMA PasswordsMove ==
    ASSUME CredentialInv, UNCHANGED familyVars, UNCHANGED <<device, activation, claim, accepted>>,
           UNCHANGED now, enrolled \subseteq enrolled', enrolled' \subseteq Students,
           open' \subseteq Assignments, password' \in [Students -> PasswordRow],
           \A st \in Students : password'[st].hash = password[st].hash,
           checks' \subseteq Check, ChecksSound'
    PROVE  CredentialInv'
<1>1. FamilyInv' /\ Counted(now)' /\ \A s \in Sessions : LoginFades(s)
  BY FamilyRests
<1>2. CredentialTypes'
  BY DEF CredentialInv, CredentialTypes
<1>3. Quiet
  BY <1>1, DevicesRest, CodesRest, ClaimsRest, StudentsRest DEF Quiet
<1> QED
  BY <1>1, <1>2, <1>3, QuietStep

LEMMA RosterKeeps ==
    ASSUME CredentialInv, RosterNext
    PROVE  CredentialInv'
<1>1. ASSUME NEW st \in Students, Reactivate(st) PROVE CredentialInv'
  BY <1>1, PasswordsMove DEF Reactivate, pairVars, CredentialInv, CredentialTypes, ChecksSound
<1>2. ASSUME NEW a \in Assignments, ToggleAssignment(a) PROVE CredentialInv'
  <2>1. open' \subseteq Assignments
    BY <1>2 DEF ToggleAssignment, CredentialInv, CredentialTypes
  <2> QED
    BY <1>2, <2>1, PasswordsMove DEF ToggleAssignment, pairVars, CredentialInv, CredentialTypes, ChecksSound
<1> QED
  BY <1>1, <1>2, DeactivateKeeps, SetPasswordKeeps DEF RosterNext

-----------------------------------------------------------------------------
(* Passwords: a check that fails, is refused, or has just begun.           *)

LEMMA ReadPasswordKeeps ==
    ASSUME CredentialInv, NEW f \in Forms, NEW st \in Students, NEW matches \in BOOLEAN,
           ReadPassword(f, st, matches)
    PROVE  CredentialInv'
<1>1. /\ password[st].hash # NoPassword
      /\ checks' = checks \cup {[form |-> f, student |-> st, read |-> password[st],
                                  matches |-> matches]}
      /\ UNCHANGED <<familyVars, now, rosterVars, password, pairVars>>
  BY DEF ReadPassword
<1>2. password[st] \in PasswordRow
  BY DEF CredentialInv, CredentialTypes
<1>3. checks' \subseteq Check
  BY <1>1, <1>2 DEF Check, CredentialInv, CredentialTypes
<1>4. ChecksSound'
  <2>1. password[st].hash \in Passwords
    BY <1>1, <1>2 DEF PasswordRow
  <2> QED
    BY <1>1, <2>1 DEF ChecksSound, CredentialInv
<1> QED
  BY <1>1, <1>3, <1>4, PasswordsMove DEF rosterVars, pairVars, CredentialInv, CredentialTypes

LEMMA CountFailureKeeps ==
    ASSUME CredentialInv, NEW chk \in checks, NEW at \in Recent, CountFailure(chk, at)
    PROVE  CredentialInv'
<1>1. /\ checks' = checks \ {chk}
      /\ password' = IF /\ password[chk.student].hash = chk.read.hash
                        /\ password[chk.student].lockedUntil <= at
                     THEN [password EXCEPT ![chk.student] = Failed(chk, at)]
                     ELSE password
      /\ UNCHANGED <<familyVars, now, rosterVars, pairVars>>
  BY DEF CountFailure
<1>2. PICK st \in Students : st = chk.student
  BY DEF CredentialInv, CredentialTypes, Check
<1>3. password \in [Students -> PasswordRow] /\ at \in Times
  BY RecentTime DEF CredentialInv, CredentialTypes
<1>4. Failed(chk, at) \in PasswordRow /\ Failed(chk, at).hash = password[st].hash
  BY <1>2, <1>3, FailedRow
<1>5. /\ password' \in [Students -> PasswordRow]
      /\ \A x \in Students : password'[x].hash = password[x].hash
  <2>1. CASE password' = password
    BY <1>3, <2>1
  <2>2. CASE password' = [password EXCEPT ![st] = Failed(chk, at)]
    BY <1>3, <1>4, <2>2
  <2> QED
    BY <1>1, <1>2, <2>1, <2>2
<1>6. checks' \subseteq Check /\ ChecksSound'
  BY <1>1 DEF CredentialInv, CredentialTypes, ChecksSound
<1> QED
  BY <1>1, <1>5, <1>6, PasswordsMove DEF rosterVars, pairVars, CredentialInv, CredentialTypes

LEMMA RejectCheckKeeps ==
    ASSUME CredentialInv, NEW chk \in checks, RejectCheck(chk)
    PROVE  CredentialInv'
<1>1. /\ checks' = checks \ {chk}
      /\ UNCHANGED <<familyVars, now, rosterVars, password, pairVars>>
  BY DEF RejectCheck
<1>2. checks' \subseteq Check /\ ChecksSound'
  BY <1>1 DEF CredentialInv, CredentialTypes, ChecksSound
<1> QED
  BY <1>1, <1>2, PasswordsMove DEF rosterVars, pairVars, CredentialInv, CredentialTypes

-----------------------------------------------------------------------------
(* Devices and codes that go out of date, are mistyped or withdrawn.       *)

LEMMA PairingMoves ==
    ASSUME CredentialInv, UNCHANGED <<familyVars, now, rosterVars, password, accepted, checks>>,
           device' \in [Devices -> DeviceRow], activation' \in [Activations -> ActivationRow],
           claim' \in [Claims -> ClaimRow],
           \A d \in Devices : Fades(d), \A c \in Activations : CodeFades(c),
           \A g \in Claims : ClaimFades(g)
    PROVE  CredentialInv'
<1>1. UNCHANGED <<familyVars, now, enrolled, open, password, accepted, checks>>
  BY DEF rosterVars
<1>2. FamilyInv' /\ Counted(now)' /\ \A s \in Sessions : LoginFades(s)
  BY <1>1, FamilyRests
<1>3. CredentialTypes' /\ ChecksSound'
  BY <1>1 DEF CredentialInv, CredentialTypes, ChecksSound
<1>4. Quiet
  BY <1>1, <1>2, StudentsRest DEF Quiet
<1> QED
  BY <1>2, <1>3, <1>4, QuietStep

LEMMA RevokeActivationKeeps ==
    ASSUME CredentialInv, NEW c \in Activations, RevokeActivation(c)
    PROVE  CredentialInv'
<1>1. /\ activation' = [activation EXCEPT ![c].state = "revoked"]
      /\ UNCHANGED <<familyVars, now, rosterVars, password, device, claim, accepted, checks>>
  BY DEF RevokeActivation
<1>2. /\ activation \in [Activations -> ActivationRow] /\ device \in [Devices -> DeviceRow]
      /\ claim \in [Claims -> ClaimRow]
  BY DEF CredentialInv, CredentialTypes
<1>3. PICK row \in ActivationRow : row = activation[c]
  BY <1>2
<1>4. "revoked" \in CodeStates
  BY DEF CodeStates
<1>5. activation' = [activation EXCEPT ![c] = [row EXCEPT !.state = "revoked"]]
  BY <1>1, <1>3
<1>6. activation' \in [Activations -> ActivationRow] /\ \A e \in Activations : CodeFades(e)
  BY <1>2, <1>3, <1>4, <1>5, CodeChange DEF CodeFades
<1> QED
  BY <1>1, <1>2, <1>6, PairingMoves, DevicesRest, ClaimsRest

\* What the housekeeping does to the row of one device.
LEMMA Housekeeping ==
    ASSUME CredentialInv, NEW at \in Times, NEW d \in Devices
    PROVE  LET new == Housekept(at)[d]
           IN  /\ new \in DeviceRow /\ new.student = device[d].student
               /\ new.attempts = device[d].attempts
               /\ new.state \in {device[d].state, "expired", "pruned"}
               /\ new.state = "expired" => device[d].state \in {"pending", "approved", "expired"}
               /\ new.state = "pruned" /\ device[d].state = "consumed" =>
                     \A s \in Sessions : ~OpenedBy(s, d)
<1> DEFINE expired == [e \in Devices |->
            IF device[e].state \in {"pending", "approved"} /\ device[e].expires <= at
            THEN [device[e] EXCEPT !.state = "expired", !.updated = at]
            ELSE device[e]]
<1>1. PICK row \in DeviceRow : row = device[d]
  BY DEF CredentialInv, CredentialTypes
<1>2. PICK aged \in DeviceRow :
         /\ aged = expired[d] /\ aged.student = row.student /\ aged.attempts = row.attempts
         /\ aged.state \in {row.state, "expired"}
         /\ aged.state = "expired" => row.state \in {"pending", "approved", "expired"}
  <2>1. "expired" \in DeviceStates
    BY DEF DeviceStates
  <2>2. CASE row.state \in {"pending", "approved"} /\ row.expires <= at
    <3>1. expired[d] = Marked(row, "expired", at)
      BY <1>1, <2>2 DEF Marked
    <3> HIDE DEF expired
    <3> QED
      BY <2>1, <2>2, <3>1, DeviceChange
  <2>3. CASE ~(row.state \in {"pending", "approved"} /\ row.expires <= at)
    <3>1. expired[d] = row
      BY <1>1, <2>3
    <3> QED
      BY <3>1
  <2> QED
    BY <2>2, <2>3
<1>3. Housekept(at)[d] =
         IF /\ expired[d].state \in {"consumed", "denied", "expired"}
            /\ expired[d].updated <= at - DeviceRetention
            /\ ~Refer(d)
         THEN [expired[d] EXCEPT !.state = "pruned"] ELSE expired[d]
  BY DEF Housekept
<1> HIDE DEF expired
<1>4. ~Refer(d) => \A s \in Sessions : ~OpenedBy(s, d)
  BY DEF Refer, OpenedBy
<1>5. CASE Housekept(at)[d] = aged
  <2>1. aged.state = "pruned" => row.state # "consumed"
    BY <1>2
  <2> QED
    BY <1>1, <1>2, <1>5, <2>1
<1>6. CASE Housekept(at)[d] = [aged EXCEPT !.state = "pruned"] /\ ~Refer(d)
  BY <1>1, <1>2, <1>4, <1>6, DevicePruned
<1> QED
  BY <1>2, <1>3, <1>5, <1>6

LEMMA CreateDeviceKeeps ==
    ASSUME CredentialInv, NEW d \in Devices, NEW at \in Recent, CreateDevice(d, at)
    PROVE  CredentialInv'
<1>1. /\ device[d].state = "absent"
      /\ device' = [Housekept(at) EXCEPT ![d] =
                     [NoDevice EXCEPT !.state = "pending", !.updated = at, !.expires = at + CodeLife]]
      /\ UNCHANGED <<familyVars, now, rosterVars, password, activation, claim, accepted, checks>>
  BY DEF CreateDevice
<1>2. at \in Times /\ at + CodeLife \in CodeExpiries
  BY RecentTime
<1>3. UNCHANGED session
  BY <1>1 DEF familyVars
<1> DEFINE row == [NoDevice EXCEPT !.state = "pending", !.updated = at, !.expires = at + CodeLife]
<1>4. /\ row \in DeviceRow /\ row.state = "pending" /\ row.attempts = 0 /\ 0 < MaxAttempts
  <2>1. 0 \in 0..MaxAttempts /\ 0 < MaxAttempts
    BY CredentialAssumption
  <2> QED
    BY <1>2, <2>1 DEF NoDevice, DeviceRow, DeviceStates
<1>5. device'[d] = row /\ \A e \in Devices : e # d => device'[e] = Housekept(at)[e]
  BY <1>1 DEF Housekept
<1> HIDE DEF row
<1>6. ASSUME NEW e \in Devices PROVE device'[e] \in DeviceRow /\ Fades(e)
  <2>1. CASE e = d
    BY <1>1, <1>4, <1>5, <2>1 DEF Fades
  <2>2. CASE e # d
    <3>1. device'[e] = Housekept(at)[e] /\ DeviceSound(e)
      BY <1>5, <2>2 DEF CredentialInv
    <3>2. /\ device'[e] \in DeviceRow /\ device'[e].student = device[e].student
          /\ device'[e].attempts = device[e].attempts
          /\ device'[e].state \in {device[e].state, "expired", "pruned"}
          /\ device'[e].state = "expired" => device[e].state \in {"pending", "approved", "expired"}
          /\ device'[e].state = "pruned" /\ device[e].state = "consumed" =>
                     \A s \in Sessions : ~OpenedBy(s, e)
      BY <1>2, <3>1, Housekeeping
    <3> QED
      BY <1>3, <3>1, <3>2 DEF Fades, DeviceSound, OpenedBy
  <2> QED
    BY <2>1, <2>2
<1>7. device' \in [Devices -> DeviceRow]
  <2>1. device' = [e \in Devices |-> device'[e]]
    BY <1>1 DEF Housekept
  <2> QED
    BY <1>6, <2>1
<1>8. activation \in [Activations -> ActivationRow] /\ claim \in [Claims -> ClaimRow]
  BY DEF CredentialInv, CredentialTypes
<1> QED
  BY <1>1, <1>6, <1>7, <1>8, PairingMoves, CodesRest, ClaimsRest

\* One device is marked expired, or a mistake is counted.
LEMMA DeviceMarked ==
    ASSUME CredentialInv, NEW d \in Devices, NEW row \in DeviceRow,
           device' = [device EXCEPT ![d] = row], device[d].state \in {"pending", "approved"},
           row.student = device[d].student, row.state \in {device[d].state, "denied", "expired"},
           row.state = "pending" => row.attempts < MaxAttempts
    PROVE  device' \in [Devices -> DeviceRow] /\ \A e \in Devices : Fades(e)
<1>1. device \in [Devices -> DeviceRow]
  BY DEF CredentialInv, CredentialTypes
<1>2. device'[d] = row /\ \A e \in Devices : e # d => device'[e] = device[e]
  BY <1>1
<1>3. ASSUME NEW e \in Devices PROVE Fades(e)
  <2>1. CASE e = d
    BY <1>2, <2>1 DEF Fades
  <2>2. CASE e # d
    BY <1>2, <2>2 DEF Fades, CredentialInv, DeviceSound
  <2> QED
    BY <2>1, <2>2
<1> QED
  BY <1>1, <1>3

LEMMA DeviceExpires ==
    ASSUME CredentialInv, NEW d \in Devices, NEW at \in Times,
           device[d].state \in {"pending", "approved"},
           device' = [device EXCEPT ![d].state = "expired", ![d].updated = at]
    PROVE  device' \in [Devices -> DeviceRow] /\ \A e \in Devices : Fades(e)
<1>1. device \in [Devices -> DeviceRow]
  BY DEF CredentialInv, CredentialTypes
<1>2. PICK row \in DeviceRow : row = device[d]
  BY <1>1
<1>3. "expired" \in DeviceStates
  BY DEF DeviceStates
<1>4. PICK new \in DeviceRow : /\ new = Marked(row, "expired", at)
                               /\ new.state = "expired" /\ new.student = row.student
  BY <1>3, DeviceChange
<1>5. device' = [device EXCEPT ![d] = new]
  BY <1>1, <1>2, <1>4 DEF Marked
<1> QED
  BY <1>2, <1>4, <1>5, DeviceMarked

LEMMA ExpireDeviceKeeps ==
    ASSUME CredentialInv, NEW d \in Devices, NEW at \in Recent, ExpireDevice(d, at)
    PROVE  CredentialInv'
<1>1. /\ device[d].state \in {"pending", "approved"}
      /\ device' = [device EXCEPT ![d].state = "expired", ![d].updated = at]
      /\ UNCHANGED <<familyVars, now, rosterVars, password, activation, claim, accepted, checks>>
  BY DEF ExpireDevice
<1>2. device' \in [Devices -> DeviceRow] /\ \A e \in Devices : Fades(e)
  BY <1>1, RecentTime, DeviceExpires
<1>3. activation \in [Activations -> ActivationRow] /\ claim \in [Claims -> ClaimRow]
  BY DEF CredentialInv, CredentialTypes
<1> QED
  BY <1>1, <1>2, <1>3, PairingMoves, CodesRest, ClaimsRest

LEMMA MistypeKeeps ==
    ASSUME CredentialInv, NEW d \in Devices, NEW at \in Recent, MistypeActivation(d, at)
    PROVE  CredentialInv'
<1>1. /\ device[d].state = "pending"
      /\ device' = [device EXCEPT ![d] = Mistaken(@, at)]
      /\ UNCHANGED <<familyVars, now, rosterVars, password, claim, accepted, checks>>
  BY DEF MistypeActivation
<1>2. /\ device \in [Devices -> DeviceRow] /\ activation \in [Activations -> ActivationRow]
      /\ claim \in [Claims -> ClaimRow] /\ at \in Times
  BY RecentTime DEF CredentialInv, CredentialTypes
<1>3. device[d] \in DeviceRow /\ device[d].attempts < MaxAttempts
  BY <1>1, <1>2 DEF CredentialInv, DeviceSound
<1>4. /\ Mistaken(device[d], at) \in DeviceRow
      /\ Mistaken(device[d], at).student = device[d].student
      /\ Mistaken(device[d], at).state \in {device[d].state, "denied"}
      /\ Mistaken(device[d], at).state = "pending" => Mistaken(device[d], at).attempts < MaxAttempts
  BY <1>2, <1>3, MistakenRow
<1>5. PICK row \in DeviceRow : row = Mistaken(device[d], at)
  BY <1>4
<1>6. device' \in [Devices -> DeviceRow] /\ \A e \in Devices : Fades(e)
  <2>1. device' = [device EXCEPT ![d] = row]
    BY <1>1, <1>5
  <2> QED
    BY <1>1, <1>4, <1>5, <2>1, DeviceMarked
<1>7. activation' \in [Activations -> ActivationRow] /\ \A c \in Activations : CodeFades(c)
  <2>1. CASE UNCHANGED activation
    BY <1>2, <2>1, CodesRest
  <2>2. ASSUME NEW c \in Activations,
               activation' = [activation EXCEPT ![c].state =
                   IF activation[c].expires <= at THEN "expired" ELSE "revoked"]
        PROVE  activation' \in [Activations -> ActivationRow] /\ \A e \in Activations : CodeFades(e)
    <3>1. PICK x \in {"expired", "revoked"} : activation' = [activation EXCEPT ![c].state = x]
      BY <2>2
    <3>2. PICK old \in ActivationRow : old = activation[c]
      BY <1>2
    <3>3. x \in CodeStates
      BY DEF CodeStates
    <3>4. activation' = [activation EXCEPT ![c] = [old EXCEPT !.state = x]]
      BY <3>1, <3>2
    <3>5. \A e \in Activations : activation'[e] \in ActivationRow /\ CodeFades(e)
      BY <1>2, <3>2, <3>3, <3>4, CodeChange DEF CodeFades
    <3> QED
      BY <1>2, <3>4, <3>5
  <2> QED
    BY <2>1, <2>2 DEF MistypeActivation
<1> QED
  BY <1>1, <1>2, <1>6, <1>7, PairingMoves, ClaimsRest

LEMMA SpoilClaimKeeps ==
    ASSUME CredentialInv, NEW d \in Devices, NEW g \in Claims, NEW at \in Recent,
           SpoilClaim(d, g, at)
    PROVE  CredentialInv'
<1>1. /\ claim[g].state = "issued"
      /\ claim' = [claim EXCEPT ![g].state =
                    IF claim[g].expires <= at THEN "expired" ELSE "revoked"]
      /\ device' = IF device[d].state = "pending" /\ device[d].expires <= at
                   THEN [device EXCEPT ![d].state = "expired", ![d].updated = at]
                   ELSE device
      /\ UNCHANGED <<familyVars, now, rosterVars, password, activation, accepted, checks>>
  BY DEF SpoilClaim
<1>2. /\ device \in [Devices -> DeviceRow] /\ activation \in [Activations -> ActivationRow]
      /\ claim \in [Claims -> ClaimRow] /\ at \in Times
  BY RecentTime DEF CredentialInv, CredentialTypes
<1>3. device' \in [Devices -> DeviceRow] /\ \A e \in Devices : Fades(e)
  <2>1. CASE device[d].state = "pending" /\ device[d].expires <= at
    BY <1>1, <1>2, <2>1, DeviceExpires
  <2>2. CASE ~(device[d].state = "pending" /\ device[d].expires <= at)
    BY <1>1, <1>2, <2>2, DevicesRest
  <2> QED
    BY <2>1, <2>2
<1>4. claim' \in [Claims -> ClaimRow] /\ \A h \in Claims : ClaimFades(h)
  <2>1. PICK x \in {"expired", "revoked"} : claim' = [claim EXCEPT ![g].state = x]
    BY <1>1
  <2>2. PICK old \in ClaimRow : old = claim[g]
    BY <1>2
  <2>3. x \in CodeStates
    BY DEF CodeStates
  <2>4. claim' = [claim EXCEPT ![g] = [old EXCEPT !.state = x]]
    BY <2>1, <2>2
  <2>5. \A h \in Claims : claim'[h] \in ClaimRow /\ ClaimFades(h)
    BY <1>1, <1>2, <2>2, <2>3, <2>4, ClaimChange DEF ClaimFades
  <2> QED
    BY <1>2, <2>4, <2>5
<1> QED
  BY <1>1, <1>2, <1>3, <1>4, PairingMoves, CodesRest

-----------------------------------------------------------------------------
(* Sessions in use, and time.                                              *)

LEMMA SessionsMove ==
    ASSUME CredentialInv, FamilyInv', \A u \in Sessions : Onward(u),
           \A u \in Sessions : session[u].status = "absent" => session'[u] = session[u],
           UNCHANGED issuances, UNCHANGED <<now, rosterVars, password, pairVars, checks>>
    PROVE  CredentialInv'
<1>1. UNCHANGED <<now, enrolled, open, password, device, activation, claim, accepted, checks>>
  BY DEF rosterVars, pairVars
<1>2. Counted(now)' /\ \A s \in Sessions : LoginFades(s)
  BY <1>1, CountedStays, LoginsFade DEF CredentialInv
<1>3. CredentialTypes' /\ ChecksSound'
  BY <1>1 DEF CredentialInv, CredentialTypes, ChecksSound
<1>4. Quiet
  BY <1>1, <1>2, DevicesRest, CodesRest, ClaimsRest, StudentsRest DEF Quiet
<1> QED
  BY <1>2, <1>3, <1>4, QuietStep

LEMMA UseSessionKeeps ==
    ASSUME CredentialInv, NEW s \in Sessions, NEW at \in Recent, UseSession(s, at)
    PROVE  CredentialInv'
<1>1. at \in Times /\ FamilyInv
  BY RecentTime DEF CredentialInv
<1>2. PICK n \in Generations, keeps \in BOOLEAN : Use(s, n, enrolled, keeps, at)
  BY DEF UseSession
<1>3. PICK members : members = enrolled
  OBVIOUS
<1>4. Use(s, n, members, keeps, at)
  BY <1>2, <1>3
<1>5. /\ FamilyInv' /\ \A u \in Sessions : Onward(u)
      /\ \A u \in Sessions : session[u].status = "absent" => session'[u] = session[u]
  BY <1>1, <1>4, UseSound
<1>6. UNCHANGED issuances
  BY <1>2 DEF Use
<1> QED
  BY <1>5, <1>6, SessionsMove DEF UseSession

LEMMA RefreshSessionKeeps ==
    ASSUME CredentialInv, NEW s \in Sessions, NEW n \in Generations, NEW at \in Recent,
           RefreshSession(s, n, at)
    PROVE  CredentialInv'
<1>1. at \in Times /\ FamilyInv
  BY RecentTime DEF CredentialInv
<1>2. PICK members : members = enrolled
  OBVIOUS
<1>3. CASE Rotate(s, n, members, at)
  <2>1. /\ FamilyInv' /\ \A u \in Sessions : Onward(u)
        /\ \A u \in Sessions : session[u].status = "absent" => session'[u] = session[u]
    BY <1>1, <1>3, RotateSound
  <2>2. UNCHANGED issuances
    BY <1>3 DEF Rotate
  <2> QED
    BY <2>1, <2>2, SessionsMove DEF RefreshSession
<1>4. CASE RotationLimit(s, n, members, at)
  <2>1. /\ FamilyInv' /\ \A u \in Sessions : Onward(u)
        /\ \A u \in Sessions : session[u].status = "absent" => session'[u] = session[u]
    BY <1>1, <1>4, LimitSound
  <2>2. UNCHANGED issuances
    BY <1>4 DEF RotationLimit, RevokeRows
  <2> QED
    BY <2>1, <2>2, SessionsMove DEF RefreshSession
<1>5. CASE ReuseDetected(s, n, at)
  <2>1. /\ FamilyInv' /\ \A u \in Sessions : Onward(u)
        /\ \A u \in Sessions : session[u].status = "absent" => session'[u] = session[u]
    BY <1>1, <1>5, ReuseSound
  <2>2. UNCHANGED issuances
    BY <1>5 DEF ReuseDetected
  <2> QED
    BY <2>1, <2>2, SessionsMove DEF RefreshSession
<1> QED
  BY <1>2, <1>3, <1>4, <1>5 DEF RefreshSession

LEMMA RevocationKeeps ==
    ASSUME CredentialInv, NEW S \in SUBSET Sessions, NEW at \in Recent, RevokeRows(S, at),
           \A s \in S : session[s].status # "absent" /\ session[s].status # "pruned",
           UNCHANGED <<now, rosterVars, password, pairVars, checks>>
    PROVE  CredentialInv'
<1>1. at \in Times /\ FamilyInv
  BY RecentTime DEF CredentialInv
<1>2. /\ FamilyInv' /\ \A u \in Sessions : Onward(u)
      /\ \A u \in Sessions : session[u].status = "absent" => session'[u] = session[u]
  BY <1>1, RevokeSound
<1>3. UNCHANGED issuances
  BY DEF RevokeRows
<1> QED
  BY <1>2, <1>3, SessionsMove

LEMMA EndSessionKeeps ==
    ASSUME CredentialInv, NEW s \in Sessions, NEW at \in Recent, EndSession(s, at)
    PROVE  CredentialInv'
<1>1. PICK S \in SUBSET Sessions : S = {s}
  OBVIOUS
<1>2. RevokeRows(S, at) /\ session[s].status \in {"open", "revoked"}
  BY <1>1 DEF EndSession, RevokeSession
<1> QED
  BY <1>1, <1>2, RevocationKeeps DEF EndSession

LEMMA EndSessionsKeeps ==
    ASSUME CredentialInv, NEW st \in Students, NEW at \in Recent, EndSessions(st, at)
    PROVE  CredentialInv'
<1>1. PICK S \in SUBSET Sessions : S = {s \in Rows(st) : session[s].status = "open"}
  BY DEF Rows
<1>2. RevokeRows(S, at)
  BY <1>1 DEF EndSessions, RevokeStudentSessions
<1>3. \A s \in S : session[s].status # "absent" /\ session[s].status # "pruned"
  BY <1>1
<1> QED
  BY <1>2, <1>3, RevocationKeeps DEF EndSessions

LEMMA TickKeeps ==
    ASSUME CredentialInv, Tick
    PROVE  CredentialInv'
<1>1. /\ now < MaxTime /\ now' = now + 1
      /\ UNCHANGED <<familyVars, rosterVars, password, pairVars, checks>>
  BY DEF Tick
<1>2. UNCHANGED <<session, family, token, issuances, referenced, enrolled, open, password, device,
                  activation, claim, accepted, checks>>
  BY <1>1 DEF familyVars, rosterVars, pairVars
<1>3. /\ FamilyInv' /\ \A u \in Sessions : Onward(u)
  BY <1>1, FamilyStill DEF CredentialInv
<1>4. now \in Times /\ now' \in Times /\ now \in Int /\ now' \in Int
  <2>1. now \in Times
    BY DEF CredentialInv, CredentialTypes
  <2> QED
    BY <1>1, <2>1, FamilyAssumption DEF Times
<1>5. Counted(now)'
  <2>1. PICK t, u : t = now /\ u = now'
    OBVIOUS
  <2>2. FamilyTypeOK /\ Counted(t) /\ t \in Int /\ u \in Int /\ t <= u
    BY <1>1, <1>4, <2>1 DEF CredentialInv, FamilyInv
  <2>3. Counted(u)
    BY <2>2, CountedLater
  <2> QED
    BY <1>2, <2>1, <2>3 DEF Counted, Logins
<1>6. CredentialTypes' /\ ChecksSound'
  BY <1>2, <1>4 DEF CredentialInv, CredentialTypes, ChecksSound
<1>7. \A s \in Sessions : LoginFades(s)
  BY <1>2 DEF LoginFades
<1>8. Quiet
  BY <1>2, <1>7, DevicesRest, CodesRest, ClaimsRest, StudentsRest DEF Quiet
<1> QED
  BY <1>3, <1>5, <1>6, <1>8, QuietStep

-----------------------------------------------------------------------------
(* Steps that grant something: codes, approvals and sessions.              *)

LEMMA IssueActivationKeeps ==
    ASSUME CredentialInv, NEW c \in Activations, NEW st \in Students, NEW at \in Recent,
           IssueActivation(c, st, at)
    PROVE  CredentialInv'
<1> DEFINE new == [state |-> "issued", student |-> st, expires |-> at + CodeLife, device |-> Nobody]
           Gone(e) == activation[e].state = "issued" /\ activation[e].student = st
<1>1. /\ st \in enrolled
      /\ activation' = [e \in Activations |->
              IF e = c THEN new
              ELSE IF Gone(e)
              THEN [activation[e] EXCEPT
                       !.state = IF activation[e].expires <= at THEN "expired" ELSE "revoked"]
              ELSE activation[e]]
      /\ UNCHANGED <<familyVars, now, rosterVars, password, device, claim, accepted, checks>>
  BY DEF IssueActivation
<1>2. UNCHANGED <<session, now, enrolled, open, password, device, claim, accepted, checks>>
  BY <1>1 DEF rosterVars, familyVars
<1>3. activation \in [Activations -> ActivationRow] /\ at + CodeLife \in CodeExpiries
  BY RecentTime DEF CredentialInv, CredentialTypes
<1>4. new \in ActivationRow
  BY <1>3 DEF ActivationRow, CodeStates
<1>5. ASSUME NEW e \in Activations, e # c
      PROVE  /\ activation'[e] \in ActivationRow
             /\ activation'[e].student = activation[e].student
             /\ activation'[e].device = activation[e].device
             /\ activation'[e].state = "issued" => activation[e].state = "issued" /\ ~Gone(e)
  <2>1. PICK old \in ActivationRow : old = activation[e]
    BY <1>3
  <2>2. CASE Gone(e)
    <3>1. PICK x \in {"expired", "revoked"} : activation'[e] = [old EXCEPT !.state = x]
      BY <1>1, <1>5, <2>1, <2>2
    <3>2. x \in CodeStates
      BY DEF CodeStates
    <3> QED
      BY <2>1, <3>1, <3>2, CodeChange
  <2>3. CASE ~Gone(e)
    BY <1>1, <1>5, <2>1, <2>3
  <2> QED
    BY <2>2, <2>3
<1>6. activation'[c] = new
  BY <1>1
<1>7. activation' \in [Activations -> ActivationRow]
  BY <1>1, <1>4, <1>5
<1>8. FamilyInv' /\ Counted(now)'
  BY <1>1, FamilyRests
<1>9. CredentialTypes' /\ ChecksSound'
  BY <1>2, <1>7 DEF CredentialInv, CredentialTypes, ChecksSound
<1>10. \A e \in Activations : activation'[e].device \in {Nobody, activation[e].device}
  BY <1>5, <1>6
<1>11. \A x \in Students : StudentSound(x)'
  BY <1>2 DEF CredentialInv, StudentSound
<1>12. \A d \in Devices : DeviceSound(d)'
  <2> SUFFICES ASSUME NEW d \in Devices PROVE DeviceSound(d)'
    OBVIOUS
  <2>1. DeviceSound(d) /\ d # Nobody
    BY FamilyAssumption DEF CredentialInv
  <2> QED
    BY <1>2, <1>10, <2>1 DEF DeviceSound
<1>13. \A s \in Sessions : LoginSound(s)'
  BY <1>2 DEF CredentialInv, LoginSound, OpenedBy
<1>14. \A e \in Activations : CodeSound(e)'
  BY <1>1, <1>2, <1>5, <1>6 DEF CredentialInv, CodeSound
<1>15. \A g \in Claims : ClaimSound(g)'
  <2> SUFFICES ASSUME NEW g \in Claims PROVE ClaimSound(g)'
    OBVIOUS
  <2>1. ClaimSound(g)
    BY DEF CredentialInv
  <2> QED
    BY <1>2, <1>10, <2>1 DEF ClaimSound, Current
<1>16. OneCodeAtATime'
  <2>1. \A e, f \in Activations :
          /\ activation'[e].state = "issued" /\ activation'[f].state = "issued"
          /\ activation'[e].student = activation'[f].student
          => e = f
    <3>1. \A e, f \in Activations :
            /\ activation[e].state = "issued" /\ activation[f].state = "issued"
            /\ activation[e].student = activation[f].student
            => e = f
      BY DEF CredentialInv, OneCodeAtATime
    <3>2. activation'[c].student = st
      BY <1>6
    <3> QED
      BY <1>5, <3>1, <3>2
  <2> QED
    BY <1>2, <2>1 DEF CredentialInv, OneCodeAtATime
<1> QED
  BY <1>8, <1>9, <1>11, <1>12, <1>13, <1>14, <1>15, <1>16 DEF CredentialInv

LEMMA IssueClaimKeeps ==
    ASSUME CredentialInv, NEW chk \in checks, NEW g \in Claims, NEW a \in Assignments,
           NEW at \in Recent, IssueClaim(chk, g, a, at)
    PROVE  CredentialInv'
<1>1. PICK st \in Students : st = chk.student
  BY DEF CredentialInv, CredentialTypes, Check
<1> DEFINE new == [state |-> "issued", student |-> st, assignment |-> a, expires |-> at + CodeLife,
                   device |-> Nobody, under |-> chk.read.hash]
           Gone(h) == claim[h].state = "issued" /\ claim[h].student = st /\ claim[h].assignment = a
<1>2. /\ st \in enrolled /\ password[st].hash = chk.read.hash
      /\ checks' = checks \ {chk}
      /\ password' = [password EXCEPT ![st] = Fresh(@.hash)]
      /\ claim' = [Replaced(st, a, at) EXCEPT ![g] = new]
      /\ UNCHANGED <<familyVars, now, rosterVars, device, activation, accepted>>
  BY <1>1 DEF IssueClaim, StillVerified
<1>3. UNCHANGED <<session, now, enrolled, open, device, activation, accepted>>
  BY <1>2 DEF rosterVars, familyVars
<1>4. /\ claim \in [Claims -> ClaimRow] /\ at + CodeLife \in CodeExpiries
      /\ password \in [Students -> PasswordRow] /\ chk.read.hash \in Passwords
  BY RecentTime DEF CredentialInv, CredentialTypes, ChecksSound
<1>5. new \in ClaimRow
  BY <1>4 DEF ClaimRow, CodeStates
<1>6. claim'[g] = new /\ claim' = [h \in Claims |-> claim'[h]]
      /\ \A h \in Claims : h # g => claim'[h] = Replaced(st, a, at)[h]
  <2>1. Replaced(st, a, at) = [h \in Claims |-> Replaced(st, a, at)[h]]
    BY DEF Replaced
  <2> QED
    BY <1>2, <2>1
<1> HIDE DEF new
<1>7. ASSUME NEW h \in Claims, h # g
      PROVE  /\ claim'[h] \in ClaimRow /\ ClaimFades(h)
             /\ claim'[h].state = "issued" => ~Gone(h)
  <2>1. PICK old \in ClaimRow : old = claim[h]
    BY <1>4
  <2>2. CASE Gone(h)
    <3>1. PICK x \in {"expired", "revoked"} : Replaced(st, a, at)[h] = [old EXCEPT !.state = x]
      BY <2>1, <2>2 DEF Replaced
    <3>2. x \in CodeStates
      BY DEF CodeStates
    <3>3. PICK row \in ClaimRow :
             /\ row = [old EXCEPT !.state = x] /\ row.state = x
             /\ row.student = old.student /\ row.device = old.device
             /\ row.assignment = old.assignment /\ row.under = old.under
      BY <3>2, ClaimChange
    <3>4. claim'[h] = row
      BY <1>6, <1>7, <3>1, <3>3
    <3> QED
      BY <2>1, <2>2, <3>3, <3>4 DEF ClaimFades
  <2>3. CASE ~Gone(h)
    <3>1. claim'[h] = claim[h]
      BY <1>6, <1>7, <2>3 DEF Replaced
    <3> QED
      BY <2>1, <2>3, <3>1 DEF ClaimFades
  <2> QED
    BY <2>2, <2>3
<1>8. claim' \in [Claims -> ClaimRow]
  BY <1>5, <1>6, <1>7
<1>9. /\ claim'[g].state = "issued" /\ claim'[g].student = st /\ claim'[g].device = Nobody
      /\ claim'[g].assignment = a /\ claim'[g].under = password[st].hash
      /\ claim'[g].under \in Passwords
  BY <1>2, <1>4, <1>6 DEF new
<1>10. /\ password' \in [Students -> PasswordRow]
       /\ \A x \in Students : password'[x].hash = password[x].hash
  <2>1. password[st] \in PasswordRow /\ password[st].hash \in Passwords \cup {NoPassword}
    BY <1>2, <1>4
  <2> QED
    BY <1>2, <1>4, <2>1, FreshRow
<1>11. FamilyInv' /\ Counted(now)'
  BY <1>2, FamilyRests
<1>12. CredentialTypes' /\ ChecksSound'
  BY <1>2, <1>3, <1>8, <1>10 DEF CredentialInv, CredentialTypes, ChecksSound
<1>13. \A h \in Claims : claim'[h].device \in {Nobody, claim[h].device}
  BY <1>7, <1>9 DEF ClaimFades
<1>14. \A x \in Students : StudentSound(x)'
  BY <1>3, <1>10 DEF CredentialInv, StudentSound
<1>15. \A d \in Devices : DeviceSound(d)'
  <2> SUFFICES ASSUME NEW d \in Devices PROVE DeviceSound(d)'
    OBVIOUS
  <2>1. DeviceSound(d) /\ d # Nobody
    BY FamilyAssumption DEF CredentialInv
  <2> QED
    BY <1>3, <1>13, <2>1 DEF DeviceSound
<1>16. \A s \in Sessions : LoginSound(s)'
  BY <1>3 DEF CredentialInv, LoginSound, OpenedBy
<1>17. \A e \in Activations : CodeSound(e)'
  BY <1>3 DEF CredentialInv, CodeSound
<1>18. ASSUME NEW h \in Claims PROVE ClaimSound(h)'
  <2>1. CASE h = g
    BY <1>2, <1>3, <1>9, <1>10, <2>1 DEF ClaimSound, Current
  <2>2. CASE h # g
    <3>1. ClaimSound(h) /\ ClaimFades(h)
      BY <1>7, <2>2 DEF CredentialInv
    <3>2. claim[h].state # "absent" => claim[h].student \in Students
      BY <3>1 DEF ClaimSound
    <3>3. claim[h].state # "absent" => (Current(h)' <=> Current(h))
      BY <1>10, <3>1, <3>2 DEF Current, ClaimFades
    <3>4. claim'[h].state # "absent" => claim[h].state # "absent"
      BY <3>1 DEF ClaimFades
    <3>5. claim[h].device # Nobody =>
             \A x \in Claims : claim'[x].device = claim[h].device => x = h
      BY <1>13, <3>1 DEF ClaimSound
    <3>6. /\ claim'[h].student = claim[h].student /\ claim'[h].device = claim[h].device
          /\ claim'[h].assignment = claim[h].assignment /\ claim'[h].under = claim[h].under
          /\ claim'[h].state = "issued" => claim[h].state = "issued"
          /\ claim[h].state = "consumed" => claim'[h].state = "consumed"
      BY <3>1 DEF ClaimFades
    <3>7. claim'[h].state # "absent" => claim'[h].student \in Students /\ claim'[h].under \in Passwords
      BY <3>1, <3>4, <3>6 DEF ClaimSound
    <3>8. claim'[h].state = "issued" => claim'[h].student \in enrolled' /\ Current(h)'
      BY <1>3, <3>1, <3>3, <3>6 DEF ClaimSound
    <3>9. ASSUME claim[h].device # Nobody
          PROVE  /\ claim'[h].state = "consumed"
                 /\ device'[claim[h].device].student = claim[h].student
                 /\ accepted'[claim[h].device] = claim[h].assignment
                 /\ \A c \in Activations : activation'[c].device # claim[h].device
                 /\ device'[claim[h].device].state = "approved" => Current(h)'
                 /\ \A s \in Sessions : session'[s].status = "open" /\ session'[s].device = claim[h].device
                                        => Current(h)'
      BY <1>3, <3>1, <3>3, <3>6, <3>9 DEF ClaimSound
    <3> QED
      BY <3>5, <3>6, <3>7, <3>8, <3>9 DEF ClaimSound
  <2> QED
    BY <2>1, <2>2
<1>19. OneCodeAtATime'
  <2>1. \A e, f \in Claims :
          /\ claim'[e].state = "issued" /\ claim'[f].state = "issued"
          /\ claim'[e].student = claim'[f].student
          /\ claim'[e].assignment = claim'[f].assignment
          => e = f
    <3>1. \A e, f \in Claims :
          /\ claim[e].state = "issued" /\ claim[f].state = "issued"
          /\ claim[e].student = claim[f].student
          /\ claim[e].assignment = claim[f].assignment
          => e = f
      BY DEF CredentialInv, OneCodeAtATime
    <3>2. ASSUME NEW h \in Claims, h # g, claim'[h].state = "issued"
          PROVE  /\ claim[h].state = "issued" /\ ~Gone(h)
                 /\ claim'[h].student = claim[h].student /\ claim'[h].assignment = claim[h].assignment
      BY <1>7, <3>2 DEF ClaimFades
    <3> QED
      BY <1>9, <3>1, <3>2
  <2> QED
    BY <1>3, <2>1 DEF CredentialInv, OneCodeAtATime
<1> QED
  BY <1>11, <1>12, <1>14, <1>15, <1>16, <1>17, <1>18, <1>19 DEF CredentialInv

\* A pending device becomes one of the student's.
LEMMA ApprovedRow ==
    ASSUME CredentialInv, NEW d \in Devices, NEW st \in Students, NEW at \in Times
    PROVE  /\ Approved(d, st, at) \in DeviceRow /\ Approved(d, st, at).state = "approved"
           /\ Approved(d, st, at).student = st
<1>1. PICK row \in DeviceRow : row = device[d]
  BY DEF CredentialInv, CredentialTypes
<1>2. Approved(d, st, at) = [row EXCEPT !.state = "approved", !.student = st, !.updated = at]
  BY <1>1 DEF Approved
<1>3. /\ [row EXCEPT !.state = "approved", !.student = st, !.updated = at] \in DeviceRow
      /\ [row EXCEPT !.state = "approved", !.student = st, !.updated = at].state = "approved"
      /\ [row EXCEPT !.state = "approved", !.student = st, !.updated = at].student = st
  BY DEF DeviceRow, DeviceStates
<1> QED
  BY <1>2, <1>3

Approves(d, st) ==
    /\ device[d].state = "pending" /\ st \in enrolled
    /\ device' = [device EXCEPT ![d] = device'[d]]
    /\ device'[d] \in DeviceRow
    /\ device'[d].state = "approved" /\ device'[d].student = st
    /\ UNCHANGED <<familyVars, now, rosterVars, password, checks>>

LEMMA ApprovesRow ==
    ASSUME CredentialInv, NEW d \in Devices, NEW st \in Students, NEW at \in Times,
           device[d].state = "pending", st \in enrolled,
           device' = [device EXCEPT ![d] = Approved(d, st, at)],
           UNCHANGED <<familyVars, now, rosterVars, password, checks>>
    PROVE  Approves(d, st)
<1>1. device \in [Devices -> DeviceRow]
  BY DEF CredentialInv, CredentialTypes
<1>2. device'[d] = Approved(d, st, at)
  BY <1>1
<1> QED
  BY <1>1, <1>2, ApprovedRow DEF Approves

\* An approval opens nothing; what remains to show is about codes and claims.
LEMMA ApprovalSound ==
    ASSUME CredentialInv, NEW d \in Devices, NEW st \in Students, Approves(d, st)
    PROVE  /\ FamilyInv' /\ Counted(now)' /\ ChecksSound'
           /\ device' \in [Devices -> DeviceRow]
           /\ \A e \in Devices : e # d => device'[e] = device[e]
           /\ UNCHANGED <<session, now, enrolled, open, password, checks>>
           /\ \A x \in Students : StudentSound(x)'
           /\ \A s \in Sessions : LoginSound(s)'
           /\ \A s \in Sessions : ~OpenedBy(s, d)
           /\ \A c \in Activations : activation[c].device # d
           /\ \A g \in Claims : claim[g].device # d
<1>1. device \in [Devices -> DeviceRow]
  BY DEF CredentialInv, CredentialTypes
<1>2. /\ device[d].state = "pending" /\ st \in enrolled
      /\ device' = [device EXCEPT ![d] = device'[d]] /\ device'[d] \in DeviceRow
      /\ UNCHANGED <<familyVars, now, rosterVars, password, checks>>
  BY DEF Approves
<1>3. device' \in [Devices -> DeviceRow] /\ \A e \in Devices : e # d => device'[e] = device[e]
  BY <1>1, <1>2
<1>4. UNCHANGED <<session, now, enrolled, open, password, checks>>
  BY <1>2 DEF familyVars, rosterVars
<1>5. FamilyInv' /\ Counted(now)'
  BY <1>2, FamilyRests
<1>6. ChecksSound' /\ \A x \in Students : StudentSound(x)'
  BY <1>4 DEF CredentialInv, ChecksSound, StudentSound
<1>7. DeviceSound(d)
  BY DEF CredentialInv
<1>8. /\ \A c \in Activations : activation[c].device # d
      /\ \A g \in Claims : claim[g].device # d
  BY <1>2, <1>7 DEF DeviceSound
<1>9. ASSUME NEW s \in Sessions PROVE ~OpenedBy(s, d)
  BY <1>2 DEF CredentialInv, LoginSound, OpenedBy
<1>10. ASSUME NEW s \in Sessions PROVE LoginSound(s)'
  <2> SUFFICES ASSUME session[s].status \in {"open", "revoked"} PROVE LoginSound(s)'
    BY <1>4 DEF LoginSound
  <2>1. Row(s) /\ LoginSound(s)
    BY DEF CredentialInv, FamilyInv
  <2>2. session[s].device \in Devices /\ session[s].device # d
    BY <1>9, <2>1 DEF Row, RowOK, OpenedBy
  <2>3. device'[session[s].device] = device[session[s].device]
    BY <1>3, <2>2
  <2>4. \A u \in Sessions : OpenedBy(u, session[s].device)' <=> OpenedBy(u, session[s].device)
    BY <1>4 DEF OpenedBy
  <2> QED
    BY <1>4, <2>1, <2>3, <2>4 DEF LoginSound
<1> QED
  BY <1>3, <1>4, <1>5, <1>6, <1>8, <1>9, <1>10

LEMMA DevicesAfterApproval ==
    ASSUME CredentialInv, NEW d \in Devices, NEW st \in Students, Approves(d, st),
           \A c \in Activations : activation'[c].device \in {d, activation[c].device},
           \A g \in Claims : claim'[g].device \in {d, claim[g].device}
    PROVE  \A e \in Devices : DeviceSound(e)'
<1>1. /\ device'[d].state = "approved" /\ device'[d].student = st /\ st \in enrolled
      /\ \A e \in Devices : e # d => device'[e] = device[e]
      /\ UNCHANGED enrolled
  BY ApprovalSound DEF Approves
<1>2. ASSUME NEW e \in Devices, e # d PROVE DeviceSound(e)'
  <2>1. DeviceSound(e) /\ device'[e] = device[e]
    BY <1>1, <1>2 DEF CredentialInv
  <2> QED
    BY <1>1, <1>2, <2>1 DEF DeviceSound
<1>3. DeviceSound(d)'
  BY <1>1 DEF DeviceSound
<1> QED
  BY <1>2, <1>3

\* The claims an approval did not come from.
LEMMA ClaimAfterApproval ==
    ASSUME CredentialInv, NEW d \in Devices, NEW st \in Students, Approves(d, st),
           NEW g \in Claims, claim'[g] = claim[g],
           \A c \in Activations : activation'[c].device \in {d, activation[c].device},
           \A h \in Claims : claim'[h].device \in {d, claim[h].device},
           \A e \in Devices : e # d => accepted'[e] = accepted[e]
    PROVE  ClaimSound(g)'
<1>1. ClaimSound(g)
  BY DEF CredentialInv
<1>2. /\ UNCHANGED <<session, enrolled, password>> /\ claim[g].device # d
      /\ \A e \in Devices : e # d => device'[e] = device[e]
  BY ApprovalSound
<1>3. Current(g)' <=> Current(g)
  BY <1>2 DEF Current
<1>4. claim[g].device \in Devices \cup {Nobody}
  BY DEF CredentialInv, CredentialTypes, ClaimRow
<1>5. claim[g].device # Nobody => /\ device'[claim[g].device] = device[claim[g].device]
                                  /\ accepted'[claim[g].device] = accepted[claim[g].device]
  BY <1>2, <1>4
<1>6. /\ \A h \in Claims : claim'[h].device = claim[g].device => claim[h].device = claim[g].device
      /\ \A c \in Activations : activation'[c].device = claim[g].device
                                => activation[c].device = claim[g].device
  BY <1>2
<1> QED
  BY <1>1, <1>2, <1>3, <1>5, <1>6 DEF ClaimSound

LEMMA ApproveDeviceKeeps ==
    ASSUME CredentialInv, NEW d \in Devices, NEW st \in Students, NEW at \in Recent,
           ApproveDevice(d, st, at)
    PROVE  CredentialInv'
<1>1. /\ device[d].state = "pending" /\ st \in enrolled
      /\ device' = [device EXCEPT ![d] = Approved(d, st, at)]
      /\ UNCHANGED <<familyVars, now, rosterVars, password, checks>>
      /\ UNCHANGED <<activation, claim, accepted>>
  BY DEF ApproveDevice
<1>2. Approves(d, st)
  BY <1>1, RecentTime, ApprovesRow
<1>3. /\ FamilyInv' /\ Counted(now)' /\ ChecksSound'
      /\ device' \in [Devices -> DeviceRow]
      /\ UNCHANGED <<session, now, enrolled, open, password, checks>>
      /\ \A x \in Students : StudentSound(x)'
      /\ \A s \in Sessions : LoginSound(s)'
  BY <1>2, ApprovalSound
<1>4. CredentialTypes'
  BY <1>1, <1>3 DEF CredentialInv, CredentialTypes
<1>5. \A e \in Devices : DeviceSound(e)'
  BY <1>1, <1>2, DevicesAfterApproval
<1>6. \A g \in Claims : ClaimSound(g)'
  BY <1>1, <1>2, ClaimAfterApproval
<1>7. \A c \in Activations : CodeSound(c)'
  BY <1>1, <1>3 DEF CredentialInv, CodeSound
<1>8. OneCodeAtATime'
  BY <1>1 DEF CredentialInv, OneCodeAtATime
<1> QED
  BY <1>3, <1>4, <1>5, <1>6, <1>7, <1>8 DEF CredentialInv

LEMMA RedeemActivationKeeps ==
    ASSUME CredentialInv, NEW d \in Devices, NEW c \in Activations, NEW at \in Recent,
           RedeemActivation(d, c, at)
    PROVE  CredentialInv'
<1>1. /\ device[d].state = "pending" /\ activation[c].student \in enrolled
      /\ device' = [device EXCEPT ![d] = Approved(d, activation[c].student, at)]
      /\ activation' = [activation EXCEPT ![c].state = "consumed", ![c].device = d]
      /\ UNCHANGED <<familyVars, now, rosterVars, password, checks>>
      /\ UNCHANGED <<claim, accepted>>
  BY DEF RedeemActivation
<1>2. /\ activation \in [Activations -> ActivationRow] /\ enrolled \subseteq Students
  BY DEF CredentialInv, CredentialTypes
<1>3. PICK st \in Students : st = activation[c].student
  BY <1>1, <1>2
<1>4. Approves(d, st)
  BY <1>1, <1>3, RecentTime, ApprovesRow
<1>5. /\ FamilyInv' /\ Counted(now)' /\ ChecksSound'
      /\ device' \in [Devices -> DeviceRow]
      /\ UNCHANGED <<session, now, enrolled, open, password, checks>>
      /\ \A x \in Students : StudentSound(x)'
      /\ \A s \in Sessions : LoginSound(s)'
  BY <1>4, ApprovalSound
<1>6. PICK old \in ActivationRow : old = activation[c]
  BY <1>2
<1>7. PICK new \in ActivationRow : /\ new = ConsumedBy(old, d)
                                   /\ new.state = "consumed" /\ new.device = d
                                   /\ new.student = old.student
  BY CodeConsumed
<1>8. activation' = [activation EXCEPT ![c] = new]
  BY <1>1, <1>2, <1>6, <1>7 DEF ConsumedBy
<1>9. /\ activation' \in [Activations -> ActivationRow] /\ activation'[c] = new
      /\ \A e \in Activations : e # c => activation'[e] = activation[e]
  BY <1>2, <1>8
<1>10. CredentialTypes'
  BY <1>1, <1>5, <1>9 DEF CredentialInv, CredentialTypes
<1>11. \A e \in Activations : activation'[e].device \in {d, activation[e].device}
  BY <1>7, <1>9
<1>12. \A e \in Devices : DeviceSound(e)'
  BY <1>1, <1>4, <1>11, DevicesAfterApproval
<1>13. \A g \in Claims : ClaimSound(g)'
  BY <1>1, <1>4, <1>11, ClaimAfterApproval
<1>14. \A e \in Activations : CodeSound(e)'
  BY <1>5, <1>7, <1>9 DEF CredentialInv, CodeSound
<1>15. OneCodeAtATime'
  BY <1>1, <1>7, <1>9 DEF CredentialInv, OneCodeAtATime
<1> QED
  BY <1>5, <1>10, <1>12, <1>13, <1>14, <1>15 DEF CredentialInv

LEMMA RedeemClaimKeeps ==
    ASSUME CredentialInv, NEW d \in Devices, NEW g \in Claims, NEW at \in Recent,
           RedeemClaim(d, g, at)
    PROVE  CredentialInv'
<1>1. /\ device[d].state = "pending" /\ claim[g].student \in enrolled /\ claim[g].state = "issued"
      /\ device' = [device EXCEPT ![d] = Approved(d, claim[g].student, at)]
      /\ claim' = [claim EXCEPT ![g].state = "consumed", ![g].device = d]
      /\ accepted' = [accepted EXCEPT ![d] = claim[g].assignment]
      /\ UNCHANGED <<familyVars, now, rosterVars, password, checks>>
      /\ UNCHANGED activation
  BY DEF RedeemClaim, ClaimIsGood
<1>2. /\ claim \in [Claims -> ClaimRow] /\ enrolled \subseteq Students
      /\ accepted \in [Devices -> Assignments \cup {Nobody}]
  BY DEF CredentialInv, CredentialTypes
<1>3. PICK st \in Students : st = claim[g].student
  BY <1>1, <1>2
<1>4. Approves(d, st)
  BY <1>1, <1>3, RecentTime, ApprovesRow
<1>5. /\ FamilyInv' /\ Counted(now)' /\ ChecksSound'
      /\ device' \in [Devices -> DeviceRow]
      /\ UNCHANGED <<session, now, enrolled, open, password, checks>>
      /\ \A x \in Students : StudentSound(x)'
      /\ \A s \in Sessions : LoginSound(s)'
      /\ \A s \in Sessions : ~OpenedBy(s, d)
      /\ \A c \in Activations : activation[c].device # d
      /\ \A h \in Claims : claim[h].device # d
  BY <1>4, ApprovalSound
<1>6. PICK old \in ClaimRow : old = claim[g]
  BY <1>2
<1>7. PICK new \in ClaimRow : /\ new = ConsumedBy(old, d)
                              /\ new.state = "consumed" /\ new.device = d
                              /\ new.student = old.student
                              /\ new.assignment = old.assignment /\ new.under = old.under
  BY ClaimConsumed
<1>8. claim' = [claim EXCEPT ![g] = new]
  BY <1>1, <1>2, <1>6, <1>7 DEF ConsumedBy
<1>9. /\ claim' \in [Claims -> ClaimRow] /\ claim'[g] = new
      /\ \A h \in Claims : h # g => claim'[h] = claim[h]
  BY <1>2, <1>8
<1>10. old.assignment \in Assignments \cup {Nobody}
  BY DEF ClaimRow
<1>11. /\ accepted' \in [Devices -> Assignments \cup {Nobody}] /\ accepted'[d] = old.assignment
       /\ \A e \in Devices : e # d => accepted'[e] = accepted[e]
  BY <1>1, <1>2, <1>6, <1>10
<1>12. CredentialTypes'
  BY <1>1, <1>5, <1>9, <1>11 DEF CredentialInv, CredentialTypes
<1>13. \A h \in Claims : claim'[h].device \in {d, claim[h].device}
  BY <1>7, <1>9
<1>14. \A e \in Devices : DeviceSound(e)'
  BY <1>1, <1>4, <1>13, DevicesAfterApproval
<1>15. \A c \in Activations : activation'[c].device \in {d, activation[c].device}
  BY <1>1
<1>16. ASSUME NEW h \in Claims, h # g PROVE ClaimSound(h)'
  BY <1>4, <1>9, <1>11, <1>13, <1>15, <1>16, ClaimAfterApproval
<1>17. ClaimSound(g)'
  <2>1. ClaimSound(g)
    BY DEF CredentialInv
  <2>2. old.student \in Students /\ old.under \in Passwords /\ Current(g)
    BY <1>1, <1>6, <2>1 DEF ClaimSound
  <2>3. Current(g)'
    BY <1>5, <1>6, <1>7, <1>9, <2>2 DEF Current
  <2>4. device'[d].student = old.student
    BY <1>3, <1>4, <1>6 DEF Approves
  <2>5. \A h \in Claims : claim'[h].device = d => h = g
    BY <1>5, <1>9
  <2>6. \A c \in Activations : activation'[c].device # d
    BY <1>1, <1>5
  <2> QED
    BY <1>7, <1>9, <1>11, <2>2, <2>3, <2>4, <2>5, <2>6 DEF ClaimSound
<1>18. \A c \in Activations : CodeSound(c)'
  BY <1>1, <1>5 DEF CredentialInv, CodeSound
<1>19. OneCodeAtATime'
  BY <1>1, <1>7, <1>9 DEF CredentialInv, OneCodeAtATime
<1> QED
  BY <1>5, <1>12, <1>14, <1>16, <1>17, <1>18, <1>19 DEF CredentialInv

\* A login from an approved device.
LEMMA ExchangeKeeps ==
    ASSUME CredentialInv, NEW d \in Devices, NEW s \in Sessions, NEW at \in Recent,
           Exchange(d, s, at)
    PROVE  CredentialInv'
<1>1. /\ device[d].state = "approved" /\ device[d].student \in enrolled
      /\ IssueSession(s, device[d].student, d, at)
      /\ device' = [e \in Devices |->
                    IF e = d THEN [device[d] EXCEPT !.state = "consumed", !.updated = at]
                    ELSE IF e \in ForgottenDevices(device[d].student, at)
                    THEN [device[e] EXCEPT !.state = "pruned"] ELSE device[e]]
      /\ UNCHANGED <<now, rosterVars, password, activation, claim, accepted, checks>>
  BY DEF Exchange, MayConsume
<1>2. UNCHANGED <<now, enrolled, open, password, activation, claim, accepted, checks>>
  BY <1>1 DEF rosterVars
<1>3. /\ device \in [Devices -> DeviceRow] /\ enrolled \subseteq Students /\ FamilyInv
  BY DEF CredentialInv, CredentialTypes
<1>4. PICK st \in Students : st = device[d].student
  BY <1>1, <1>3
<1>5. /\ at \in Times /\ at \in Int /\ now \in Int /\ at <= now /\ now - at <= Retention
  BY RecentTime
<1>6. IssueSession(s, st, d, at)
  BY <1>1, <1>4
<1>7. /\ FamilyInv' /\ \A u \in Sessions : Onward(u)
      /\ session[s].status = "absent" /\ session'[s] = NewSession(st, d, at)
      /\ \A u \in Sessions \ {s} : session[u].status = "absent" => session'[u] = session[u]
  BY <1>3, <1>5, <1>6, IssueSound
<1>8. Counted(now)'
  <2>1. PICK t : t = now
    OBVIOUS
  <2>2. Counted(t) /\ t \in Int /\ at <= t /\ t - at <= Retention
    BY <1>5, <2>1 DEF CredentialInv
  <2>3. Counted(t)'
    BY <1>3, <1>5, <1>6, <2>2, IssueCounted
  <2> QED
    BY <1>2, <2>1, <2>3 DEF Counted
<1>9. session'[s].status = "open" /\ session'[s].student = st /\ session'[s].device = d
  BY <1>7 DEF NewSession
<1>10. ASSUME NEW u \in Sessions, u # s PROVE LoginFades(u)
  <2> SUFFICES ASSUME session'[u].status \in {"open", "revoked"}
               PROVE  /\ session[u].status \in {"open", "revoked"}
                      /\ session'[u].student = session[u].student
                      /\ session'[u].device = session[u].device
                      /\ session'[u].status = "open" => session[u].status = "open"
    BY DEF LoginFades
  <2>1. session[u].status \in SessionStatus
    BY <1>3 DEF FamilyInv, FamilyTypeOK, SessionRow
  <2>2. session[u].status # "absent"
    BY <1>7, <1>10
  <2>3. Onward(u)
    BY <1>7
  <2> QED
    BY <2>1, <2>2, <2>3 DEF Onward, SessionStatus
<1>11. \A u \in Sessions : ~OpenedBy(u, d)
  BY <1>1 DEF CredentialInv, LoginSound, OpenedBy
<1>12. /\ device'[d] \in DeviceRow /\ device'[d].state = "consumed" /\ device'[d].student = st
  <2>1. device'[d] = Marked(device[d], "consumed", at)
    BY <1>1 DEF Marked
  <2>2. "consumed" \in DeviceStates
    BY DEF DeviceStates
  <2>3. PICK row \in DeviceRow : row = device[d]
    BY <1>3
  <2> QED
    BY <1>4, <1>5, <2>1, <2>2, <2>3, DeviceChange
<1>13. ASSUME NEW e \in Devices, e # d
       PROVE  /\ device'[e] \in DeviceRow
              /\ device'[e].student = device[e].student
              /\ \/ device'[e] = device[e]
                 \/ device'[e].state = "pruned" /\ e \in ForgottenDevices(st, at)
  <2>1. PICK row \in DeviceRow : row = device[e]
    BY <1>3
  <2>2. CASE e \in ForgottenDevices(st, at)
    <3>1. device'[e] = [row EXCEPT !.state = "pruned"]
      BY <1>1, <1>4, <1>13, <2>1, <2>2
    <3> QED
      BY <2>1, <2>2, <3>1, DevicePruned
  <2>3. CASE e \notin ForgottenDevices(st, at)
    BY <1>1, <1>4, <1>13, <2>1, <2>3
  <2> QED
    BY <2>2, <2>3
<1>14. device' \in [Devices -> DeviceRow]
  BY <1>1, <1>12, <1>13
<1>15. CredentialTypes' /\ ChecksSound'
  BY <1>2, <1>14 DEF CredentialInv, CredentialTypes, ChecksSound
<1>16. \A x \in Students : StudentSound(x)'
  BY <1>2 DEF CredentialInv, StudentSound
<1>17. \A c \in Activations : CodeSound(c)'
  BY <1>2 DEF CredentialInv, CodeSound
<1>18. OneCodeAtATime'
  BY <1>2 DEF CredentialInv, OneCodeAtATime
<1>19. ASSUME NEW e \in Devices PROVE DeviceSound(e)'
  <2>1. CASE e = d
    BY <1>12, <2>1 DEF DeviceSound
  <2>2. CASE e # d
    <3>1. DeviceSound(e)
      BY DEF CredentialInv
    <3>2. CASE device'[e] = device[e]
      BY <1>2, <3>1, <3>2 DEF DeviceSound
    <3>3. CASE device'[e].state = "pruned"
      BY <3>3 DEF DeviceSound
    <3> QED
      BY <1>13, <2>2, <3>2, <3>3
  <2> QED
    BY <2>1, <2>2
<1>20. ASSUME NEW u \in Sessions, session'[u].status \in {"open", "revoked"}, u # s
       PROVE  /\ session[u].device \in Devices /\ session[u].device # d
              /\ device'[session[u].device] = device[session[u].device]
  <2>1. LoginFades(u) /\ LoginSound(u) /\ Row(u)
    BY <1>3, <1>10, <1>20 DEF CredentialInv, FamilyInv
  <2>2. session[u].status \in {"open", "revoked"}
    BY <1>20, <2>1 DEF LoginFades
  <2>3. PICK e \in Devices : e = session[u].device
    BY <2>1, <2>2 DEF Row, RowOK
  <2>4. e # d
    BY <1>11, <2>2, <2>3 DEF OpenedBy
  <2>5. \A v \in Sessions : OpenedBy(v, e) => v = u
    BY <2>1, <2>2, <2>3 DEF LoginSound
  <2>6. e \notin ForgottenDevices(st, at)
    <3> SUFFICES ASSUME NEW v \in Sessions, session[v].device = e,
                        session[v].status # "pruned", session'[v].status = "pruned"
                 PROVE  FALSE
      BY DEF ForgottenDevices
    <3>1. session[v].status # "absent"
      <4>1. Row(v)
        BY <1>3 DEF FamilyInv
      <4> QED
        BY <4>1, FamilyAssumption DEF Row, RowOK
    <3>2. session[v].status \in SessionStatus
      BY <1>3 DEF FamilyInv, FamilyTypeOK, SessionRow
    <3>3. OpenedBy(v, e)
      BY <3>1, <3>2 DEF OpenedBy, SessionStatus
    <3> QED
      BY <1>20, <2>5, <3>3
  <2> QED
    BY <1>13, <2>3, <2>4, <2>6
<1>21. ASSUME NEW u \in Sessions PROVE LoginSound(u)'
  <2>1. CASE u = s
    <3>1. ASSUME NEW v \in Sessions, OpenedBy(v, d)', v # s PROVE FALSE
      BY <1>10, <1>11, <3>1 DEF LoginFades, OpenedBy
    <3>2. \A v \in Sessions : OpenedBy(v, session[u].device)' => v = u
      BY <1>9, <2>1, <3>1 DEF OpenedBy
    <3> QED
      BY <1>1, <1>2, <1>4, <1>9, <1>12, <2>1, <3>2 DEF LoginSound
  <2>2. CASE u # s
    <3> SUFFICES ASSUME session'[u].status \in {"open", "revoked"}
                 PROVE  /\ device'[session'[u].device].state = "consumed"
                        /\ device'[session'[u].device].student = session'[u].student
                        /\ session'[u].status = "open" => session'[u].student \in enrolled'
                        /\ \A v \in Sessions : OpenedBy(v, session[u].device)' => v = u
      BY DEF LoginSound
    <3>1. LoginFades(u) /\ LoginSound(u)
      BY <1>10, <2>2 DEF CredentialInv
    <3>2. /\ session[u].status \in {"open", "revoked"}
          /\ session'[u].student = session[u].student /\ session'[u].device = session[u].device
          /\ session'[u].status = "open" => session[u].status = "open"
      BY <3>1 DEF LoginFades
    <3>3. /\ device[session[u].device].state = "consumed"
          /\ device[session[u].device].student = session[u].student
          /\ session[u].status = "open" => session[u].student \in enrolled
          /\ \A v \in Sessions : OpenedBy(v, session[u].device) => v = u
      BY <3>1, <3>2 DEF LoginSound
    <3>4. session[u].device # d /\ device'[session[u].device] = device[session[u].device]
      BY <1>20, <2>2
    <3>5. ASSUME NEW v \in Sessions, OpenedBy(v, session[u].device)' PROVE v = u
      <4>1. session'[v].device = session[u].device /\ session'[v].status \in {"open", "revoked"}
        BY <3>2, <3>5 DEF OpenedBy
      <4>2. v # s
        BY <1>9, <3>4, <4>1
      <4>3. LoginFades(v)
        BY <1>10, <4>2
      <4> QED
        BY <3>3, <4>1, <4>3 DEF LoginFades, OpenedBy
    <3> QED
      BY <1>2, <3>2, <3>3, <3>4, <3>5
  <2> QED
    BY <2>1, <2>2
<1>22. ASSUME NEW g \in Claims PROVE ClaimSound(g)'
  <2>1. ClaimSound(g)
    BY DEF CredentialInv
  <2>2. Current(g)' <=> Current(g)
    BY <1>2 DEF Current
  <2>3. ASSUME claim[g].device # Nobody
        PROVE  /\ device'[claim[g].device].student = claim[g].student
               /\ device'[claim[g].device].state = "approved" => Current(g)
               /\ \A u \in Sessions : session'[u].status = "open" /\ session'[u].device = claim[g].device
                                      => Current(g)
    <3>1. PICK e \in Devices : e = claim[g].device
      BY <2>3 DEF CredentialInv, CredentialTypes, ClaimRow
    <3>2. /\ device[e].student = claim[g].student
          /\ device[e].state = "approved" => Current(g)
          /\ \A u \in Sessions : session[u].status = "open" /\ session[u].device = e => Current(g)
      BY <2>1, <2>3, <3>1 DEF ClaimSound
    <3>3. device'[e].student = claim[g].student
      BY <1>4, <1>12, <1>13, <3>2
    <3>4. device'[e].state = "approved" => Current(g)
      BY <1>12, <1>13, <3>2
    <3>5. ASSUME NEW u \in Sessions, session'[u].status = "open", session'[u].device = e
          PROVE  Current(g)
      <4>1. CASE u = s
        BY <1>1, <1>9, <3>2, <3>5, <4>1
      <4>2. CASE u # s
        <5>1. LoginFades(u)
          BY <1>10, <4>2
        <5> QED
          BY <3>2, <3>5, <5>1 DEF LoginFades
      <4> QED
        BY <4>1, <4>2
    <3> QED
      BY <3>1, <3>3, <3>4, <3>5
  <2> QED
    BY <1>2, <2>1, <2>2, <2>3 DEF ClaimSound
<1> QED
  BY <1>7, <1>8, <1>15, <1>16, <1>17, <1>18, <1>19, <1>21, <1>22 DEF CredentialInv

-----------------------------------------------------------------------------
(* Credentials: the theorems.                                              *)

LEMMA CredentialStart ==
    ASSUME CredentialInit
    PROVE  CredentialInv
<1>1. /\ FamilyInit /\ now = 0 /\ enrolled = Students /\ open = Assignments
      /\ password \in [Students -> {Fresh(h) : h \in Passwords \cup {NoPassword}}]
      /\ device = [d \in Devices |-> NoDevice]
      /\ activation = [c \in Activations |-> NoActivation]
      /\ claim = [g \in Claims |-> NoClaim]
      /\ accepted = [d \in Devices |-> Nobody]
      /\ checks = {}
  BY DEF CredentialInit
<1>2. FamilyInv /\ Counted(now)
  <2>1. PICK t : t = now
    OBVIOUS
  <2> QED
    BY <1>1, <2>1, FamilyStart
<1>3. 0 \in Times /\ 0 \in CodeExpiries /\ 0 \in 0..MaxAttempts
  BY FamilyAssumption, CredentialAssumption DEF Times, CodeExpiries
<1>4. /\ NoDevice \in DeviceRow /\ NoActivation \in ActivationRow /\ NoClaim \in ClaimRow
  BY <1>3 DEF NoDevice, NoActivation, NoClaim, DeviceRow, ActivationRow, ClaimRow,
              DeviceStates, CodeStates
<1>5. password \in [Students -> PasswordRow]
  BY <1>1, FreshRow
<1>6. CredentialTypes
  BY <1>1, <1>3, <1>4, <1>5 DEF CredentialTypes
<1>7. ChecksSound /\ \A st \in Students : StudentSound(st)
  BY <1>1 DEF ChecksSound, StudentSound
<1>8. /\ \A d \in Devices : device[d].state = "absent" /\ d # Nobody
      /\ \A c \in Activations : activation[c].state = "absent" /\ activation[c].device = Nobody
      /\ \A g \in Claims : claim[g].state = "absent" /\ claim[g].device = Nobody
  BY <1>1, FamilyAssumption DEF NoDevice, NoActivation, NoClaim
<1>9. \A s \in Sessions : session[s].status = "absent"
  BY <1>1 DEF FamilyInit, NoSession
<1>10. /\ \A d \in Devices : DeviceSound(d)
       /\ \A s \in Sessions : LoginSound(s)
       /\ \A c \in Activations : CodeSound(c)
       /\ \A g \in Claims : ClaimSound(g)
  BY <1>8, <1>9 DEF DeviceSound, LoginSound, CodeSound, ClaimSound
<1>11. OneCodeAtATime
  BY <1>8 DEF OneCodeAtATime
<1> QED
  BY <1>2, <1>6, <1>7, <1>10, <1>11 DEF CredentialInv

LEMMA CredentialKeeps ==
    ASSUME CredentialInv, CredentialNext
    PROVE  CredentialInv'
<1>1. CASE PasswordNext
  BY <1>1, ReadPasswordKeeps, RejectCheckKeeps, CountFailureKeeps, IssueClaimKeeps DEF PasswordNext
<1>2. CASE PairingNext
  BY <1>2, RevokeActivationKeeps, IssueActivationKeeps, CreateDeviceKeeps, ExpireDeviceKeeps,
     MistypeKeeps, ApproveDeviceKeeps, RedeemActivationKeeps, RedeemClaimKeeps, SpoilClaimKeeps,
     ExchangeKeeps DEF PairingNext
<1>3. CASE SessionNext
  BY <1>3, UseSessionKeeps, EndSessionKeeps, RefreshSessionKeeps, EndSessionsKeeps DEF SessionNext
<1> QED
  BY <1>1, <1>2, <1>3, RosterKeeps, TickKeeps DEF CredentialNext

LEMMA CredentialStays ==
    ASSUME CredentialInv, UNCHANGED credentialVars
    PROVE  CredentialInv'
<1>1. UNCHANGED <<familyVars, now, enrolled, open, password, device, activation, claim, accepted, checks>>
  BY DEF credentialVars
<1> QED
  BY <1>1, PasswordsMove DEF CredentialInv, CredentialTypes, ChecksSound

\* For any roster, any codes and any sequence of what operators, students and
\* the clock do, the invariant holds.
THEOREM CredentialsAreSound == CredentialSpec => []CredentialInv
<1>1. CredentialInit => CredentialInv
  BY CredentialStart
<1>2. CredentialInv /\ [CredentialNext]_credentialVars => CredentialInv'
  BY CredentialKeeps, CredentialStays
<1> QED
  BY <1>1, <1>2, PTL DEF CredentialSpec

LEMMA FamiliesFollow ==
    ASSUME FamilyInv, NEW t, Counted(t)
    PROVE  FamiliesSound
<1>1. TablesAgree
  BY DEF FamilyInv, Row, RowOK, TablesAgree
<1>2. OneLiveSession
  BY DEF FamilyInv, OneOpen, OneLiveSession, Live
<1>3. DeadlineIsAbsolute
  BY DEF FamilyInv, Row, RowOK, DeadlineIsAbsolute
<1>4. DailyLoginsBounded
  BY DEF Counted, Logins, DailyLoginsBounded
<1> QED
  BY <1>1, <1>2, <1>3, <1>4 DEF FamilyInv, FamiliesSound

LEMMA AccessFollows ==
    ASSUME CredentialInv
    PROVE  AccessIsSound
<1>1. FamiliesSound /\ FamilyTypeOK
  <2>1. PICK t : t = now
    OBVIOUS
  <2> QED
    BY <2>1, FamiliesFollow DEF CredentialInv, FamilyInv
<1>2. CredentialTypeOK
  BY <1>1 DEF CredentialInv, CredentialTypes, CredentialTypeOK
<1>3. ChainOfTrust
  BY DEF CredentialInv, LoginSound, OpenedBy, ClaimSound, ChainOfTrust
<1> QED
  BY <1>1, <1>2, <1>3 DEF AccessIsSound, CredentialInv

LEMMA RevocationFollows ==
    ASSUME CredentialInv
    PROVE  RevocationIsComplete
<1>1. NothingToRevive
  BY DEF CredentialInv, StudentSound, CodeSound, ClaimSound, DeviceSound, LoginSound, NothingToRevive
<1>2. NoTrustInOldPassword
  BY DEF CredentialInv, ClaimSound, Current, NoTrustInOldPassword
<1> QED
  BY <1>1, <1>2 DEF RevocationIsComplete

\* Codes are spent once, a login has one device, and the sessions that codes
\* open stay sound and counted (consume_device_authorization and its tables).
THEOREM AccessStaysSound == CredentialSpec => []AccessIsSound
BY CredentialsAreSound, AccessFollows, PTL

\* Ending an enrollment or changing a password leaves nothing to use.
THEOREM RevocationStaysComplete == CredentialSpec => []RevocationIsComplete
BY CredentialsAreSound, RevocationFollows, PTL

-----------------------------------------------------------------------------
(* The lock.  A row remembers every guess that was answered, because the     *)
(* transaction that counts it reads the row it changes.                      *)

GuessInv == \A st \in Students : Remembered(password[st])

\* What a step does to the rows, when it is not a failure of a check that ends:
\* a row keeps its lock or is fresh.
Refreshed ==
    \A st \in Students :
        password'[st] = password[st] \/ \E h \in Passwords \cup {NoPassword} : password'[st] = Fresh(h)

LEMMA FreshIsRemembered ==
    ASSUME NEW h \in Passwords \cup {NoPassword}
    PROVE  Remembered(Fresh(h))
<1>1. MaxFailures \in Nat \ {0}
  BY CredentialAssumption
<1> QED
  BY <1>1, FreshRow DEF Remembered

LEMMA RefreshedRemember ==
    ASSUME GuessInv, Refreshed
    PROVE  GuessInv'
BY FreshIsRemembered DEF GuessInv, Refreshed

LEMMA RosterRefreshes ==
    ASSUME CredentialInv, RosterNext
    PROVE  Refreshed /\ checks' = checks
<1>1. password \in [Students -> PasswordRow]
  BY DEF CredentialInv, CredentialTypes
<1>2. ASSUME NEW st \in Students, NEW h \in Passwords \cup {NoPassword},
             password' = [password EXCEPT ![st] = Fresh(h)]
      PROVE  Refreshed
  BY <1>1, <1>2 DEF Refreshed
<1>3. ASSUME NEW st \in Students, NEW at \in Recent, Deactivate(st, at)
      PROVE  Refreshed /\ checks' = checks
  BY <1>2, <1>3 DEF Deactivate
<1>4. ASSUME NEW st \in Students, NEW hash \in Passwords, NEW at \in Recent, SetPassword(st, hash, at)
      PROVE  Refreshed /\ checks' = checks
  BY <1>2, <1>4 DEF SetPassword
<1>5. CASE \E st \in Students : Reactivate(st)
  BY <1>5 DEF Reactivate, Refreshed
<1>6. CASE \E a \in Assignments : ToggleAssignment(a)
  BY <1>6 DEF ToggleAssignment, Refreshed
<1> QED
  BY <1>3, <1>4, <1>5, <1>6 DEF RosterNext

LEMMA PairingIsApart ==
    ASSUME PairingNext \/ SessionNext \/ Tick
    PROVE  UNCHANGED <<password, checks>>
<1>1. CASE PairingNext
  <2>1. \A c \in Activations : RevokeActivation(c) => UNCHANGED <<password, checks>>
    BY DEF RevokeActivation
  <2>2. \A c \in Activations, st \in Students, at \in Recent :
           IssueActivation(c, st, at) => UNCHANGED <<password, checks>>
    BY DEF IssueActivation
  <2>3. \A d \in Devices, at \in Recent :
           CreateDevice(d, at) \/ ExpireDevice(d, at) => UNCHANGED <<password, checks>>
    BY DEF CreateDevice, ExpireDevice
  <2>4. \A d \in Devices, at \in Recent : MistypeActivation(d, at) => UNCHANGED <<password, checks>>
    BY DEF MistypeActivation
  <2>5. \A d \in Devices, at \in Recent, st \in Students :
           ApproveDevice(d, st, at) => UNCHANGED <<password, checks>>
    BY DEF ApproveDevice
  <2>6. \A d \in Devices, at \in Recent, c \in Activations :
           RedeemActivation(d, c, at) => UNCHANGED <<password, checks>>
    BY DEF RedeemActivation
  <2>7. \A d \in Devices, at \in Recent, g \in Claims :
           RedeemClaim(d, g, at) \/ SpoilClaim(d, g, at) => UNCHANGED <<password, checks>>
    BY DEF RedeemClaim, SpoilClaim
  <2>8. \A d \in Devices, at \in Recent, s \in Sessions :
           Exchange(d, s, at) => UNCHANGED <<password, checks>>
    BY DEF Exchange
  <2> QED
    BY <1>1, <2>1, <2>2, <2>3, <2>4, <2>5, <2>6, <2>7, <2>8 DEF PairingNext
<1>2. CASE SessionNext
  BY <1>2 DEF SessionNext, UseSession, EndSession, RefreshSession, EndSessions
<1>3. CASE Tick
  BY <1>3 DEF Tick
<1> QED
  BY <1>1, <1>2, <1>3

\* A failure is counted in the row as it is now, and not while it is locked.
LEMMA FailureIsCounted ==
    ASSUME CredentialInv, NEW chk \in checks, NEW at \in Recent, CountFailure(chk, at)
    PROVE  /\ GuessInv => GuessInv'
           /\ password[chk.student].lockedUntil > now => password' = password
           /\ claim' = claim
<1>1. PICK st \in Students : st = chk.student
  BY DEF CredentialInv, CredentialTypes, Check
<1>2. password \in [Students -> PasswordRow]
  BY DEF CredentialInv, CredentialTypes
<1>3. at \in Times /\ at \in Int /\ now \in Int /\ at <= now
  BY RecentTime
<1>4. claim' = claim
  BY DEF CountFailure, pairVars
<1>5. CASE password' = password
  BY <1>4, <1>5 DEF GuessInv
<1>6. CASE /\ password[st].lockedUntil <= at
           /\ password' = [password EXCEPT ![st] = Failed(chk, at)]
  <2>1. password[st].lockedUntil \in Int
    BY <1>2 DEF PasswordRow
  <2>2. ~(password[st].lockedUntil > now)
    BY <1>3, <1>6, <2>1
  <2>3. Remembered(password[st]) => Remembered(Failed(chk, at))
    BY <1>1, <1>2, <1>3, FailedRow
  <2>4. /\ password'[st] = Failed(chk, at)
        /\ \A x \in Students : x # st => password'[x] = password[x]
    BY <1>2, <1>6
  <2> QED
    BY <1>1, <1>4, <2>2, <2>3, <2>4 DEF GuessInv
<1> QED
  BY <1>1, <1>5, <1>6 DEF CountFailure

\* A claim is issued only for a row that is not locked.
LEMMA ClaimNeedsNoLock ==
    ASSUME CredentialInv, NEW chk \in checks, NEW g \in Claims, NEW a \in Assignments,
           NEW at \in Recent, IssueClaim(chk, g, a, at)
    PROVE  Refreshed /\ ~(password[chk.student].lockedUntil > now) /\ checks' = checks \ {chk}
<1>1. PICK st \in Students : st = chk.student
  BY DEF CredentialInv, CredentialTypes, Check
<1>2. password \in [Students -> PasswordRow]
  BY DEF CredentialInv, CredentialTypes
<1>3. /\ password[st].lockedUntil <= at /\ checks' = checks \ {chk}
      /\ password' = [password EXCEPT ![st] = Fresh(@.hash)]
  BY <1>1 DEF IssueClaim, StillVerified
<1>4. at \in Int /\ now \in Int /\ at <= now
  BY RecentTime
<1>5. password[st].lockedUntil \in Int /\ password[st].hash \in Passwords \cup {NoPassword}
  BY <1>2 DEF PasswordRow
<1>6. ~(password[st].lockedUntil > now)
  BY <1>3, <1>4, <1>5
<1>7. Refreshed
  BY <1>2, <1>3, <1>5 DEF Refreshed
<1> QED
  BY <1>1, <1>3, <1>6, <1>7

LEMMA GuessesStart ==
    ASSUME CredentialInit
    PROVE  GuessInv
<1>1. password \in [Students -> {Fresh(h) : h \in Passwords \cup {NoPassword}}]
  BY DEF CredentialInit
<1> QED
  BY <1>1, FreshIsRemembered DEF GuessInv

LEMMA GuessesStep ==
    ASSUME CredentialInv, GuessInv, [CredentialNext]_credentialVars
    PROVE  GuessInv'
<1>1. CASE RosterNext
  BY <1>1, RosterRefreshes, RefreshedRemember
<1>2. CASE PasswordNext
  <2>1. CASE \E f \in Forms, st \in Students, matches \in BOOLEAN : ReadPassword(f, st, matches)
    BY <2>1 DEF ReadPassword, GuessInv
  <2>2. CASE \E chk \in checks : RejectCheck(chk)
    BY <2>2 DEF RejectCheck, GuessInv
  <2>3. ASSUME NEW chk \in checks, NEW at \in Recent, CountFailure(chk, at)
        PROVE  GuessInv'
    BY <2>3, FailureIsCounted
  <2>4. ASSUME NEW chk \in checks, NEW g \in Claims, NEW a \in Assignments, NEW at \in Recent,
               IssueClaim(chk, g, a, at)
        PROVE  GuessInv'
    BY <2>4, ClaimNeedsNoLock, RefreshedRemember
  <2> QED
    BY <1>2, <2>1, <2>2, <2>3, <2>4 DEF PasswordNext
<1>3. CASE PairingNext \/ SessionNext \/ Tick
  BY <1>3, PairingIsApart DEF GuessInv
<1>4. CASE UNCHANGED credentialVars
  BY <1>4 DEF credentialVars, GuessInv
<1> QED
  BY <1>1, <1>2, <1>3, <1>4 DEF CredentialNext

\* Fewer than MaxFailures wrong guesses are answered before the account is locked,
\* however many are verified at once (record_student_password_failure).
THEOREM GuessingIsStopped == CredentialSpec => []GuessesAreCounted
<1>1. CredentialInit => GuessInv
  BY GuessesStart
<1>2. CredentialInv /\ GuessInv /\ [CredentialNext]_credentialVars => GuessInv'
  BY GuessesStep
<1>3. GuessInv => GuessesAreCounted
  BY DEF GuessInv, Remembered, GuessesAreCounted
<1> QED
  BY <1>1, <1>2, <1>3, CredentialsAreSound, PTL DEF CredentialSpec

LockKept ==
    \A st \in Students, chk \in checks :
        /\ password[st].lockedUntil > now /\ chk.student = st /\ chk \notin checks'
        => /\ password'[st].lockedUntil = password[st].lockedUntil
           /\ claim' = claim

LEMMA LockStep ==
    ASSUME CredentialInv, CredentialNext
    PROVE  LockKept
<1>1. CASE checks \subseteq checks'
  BY <1>1 DEF LockKept
<1>2. CASE RosterNext
  BY <1>1, <1>2, RosterRefreshes
<1>3. CASE PairingNext \/ SessionNext \/ Tick
  BY <1>1, <1>3, PairingIsApart
<1>4. CASE PasswordNext
  <2>1. CASE \E f \in Forms, st \in Students, matches \in BOOLEAN : ReadPassword(f, st, matches)
    BY <1>1, <2>1 DEF ReadPassword
  <2>2. CASE \E chk \in checks : RejectCheck(chk)
    BY <2>2 DEF RejectCheck, LockKept, pairVars
  <2>3. ASSUME NEW chk \in checks, NEW at \in Recent, CountFailure(chk, at)
        PROVE  LockKept
    <3>1. checks' = checks \ {chk}
      BY <2>3 DEF CountFailure
    <3> QED
      BY <2>3, <3>1, FailureIsCounted DEF LockKept
  <2>4. ASSUME NEW chk \in checks, NEW g \in Claims, NEW a \in Assignments, NEW at \in Recent,
               IssueClaim(chk, g, a, at)
        PROVE  LockKept
    BY <2>4, ClaimNeedsNoLock DEF LockKept
  <2> QED
    BY <1>4, <2>1, <2>2, <2>3, <2>4 DEF PasswordNext
<1> QED
  BY <1>2, <1>3, <1>4 DEF CredentialNext

\* No check that read the row early lifts a lock that is running, or earns a claim
\* under it (issue_assignment_grant).
THEOREM LocksStand == CredentialSpec => LockStands
<1>1. CredentialInv /\ [CredentialNext]_credentialVars => [LockKept]_credentialVars
  BY LockStep
<1>2. CredentialSpec => [][LockKept]_credentialVars
  BY <1>1, CredentialsAreSound, PTL DEF CredentialSpec
<1> QED
  BY <1>2 DEF LockKept, LockStands

-----------------------------------------------------------------------------
(***************************************************************************)
(* The Git collector.  Two locks carry the argument.  A repository has at  *)
(* most one call inside its flock, so what one call reads of a label no    *)
(* other call changes; and nothing is added to the store while a process   *)
(* that measured it holds the quota's flock.                               *)
(***************************************************************************)

Operations == {"fetch", "preflight", "snapshot", "exact"}
TaskRecs ==
    [op : Operations \cup {"none"},
     at : {"idle", "entered", "pulling", "choosing", "built", "measured", "published"},
     label : Labels \cup {None}, commit : Refs, created : BOOLEAN, used : Nat, tips : SUBSET Refs]
AnswerRecs == [op : Operations, label : Labels, old : Refs, new : Commits, tip : BOOLEAN]

CacheTypes ==
    /\ remote \in [Repositories -> Refs] /\ tracking \in [Repositories -> Refs]
    /\ holdOld \in [Labels -> Refs] /\ holdNew \in [Labels -> Refs]
    /\ snapshot \in [Labels -> Refs] /\ baseline \in [Labels -> Refs]
    /\ archives \subseteq Labels \X Commits
    /\ lock \in [Repositories -> Processes \cup {None}]
    /\ quotaLock \in Processes \cup {None}
    /\ task \in [Processes -> TaskRecs]
    /\ answers \subseteq AnswerRecs

Preserves(op) == op \in {"snapshot", "exact"}

\* A call inside the flock of its repository.
Preserving(x) ==
    /\ x.at \in {"choosing", "built", "measured", "published"} =>
          Preserves(x.op) /\ (x.op = "exact" => x.commit \in x.tips)
    /\ x.at = "measured" => Bytes <= x.used
    /\ x.at = "published" =>
          /\ <<x.label, x.commit>> \in archives
          /\ x.created => ~\E a \in answers : Preserves(a.op) /\ a.label = x.label /\ a.new = x.commit

TaskSound(p) ==
    task[p].at # "idle" =>
        /\ task[p].label \in Labels /\ task[p].op \in Operations
        /\ lock[Repo(p)] = p /\ remote[Repo(p)] \in task[p].tips
        /\ Preserves(task[p].op) => task[p].commit \in Commits
        /\ task[p].at = "pulling" /\ task[p].op = "fetch" => holdNew[task[p].label] = None
        /\ task[p].at = "measured" => quotaLock = p
        /\ Preserving(task[p])

\* What a call answered is still so.
CacheAnswerSound(a) ==
    /\ a.op = "fetch" => holdNew[a.label] = a.new /\ holdOld[a.label] = a.old
    /\ Preserves(a.op) => snapshot[a.label] = a.new /\ <<a.label, a.new>> \in archives
    /\ a.op = "exact" => a.tip

CacheInv ==
    /\ CacheTypes
    /\ \A p \in Processes : TaskSound(p)
    /\ \A a \in answers : CacheAnswerSound(a)
    /\ baseline = holdOld
    /\ Bytes <= MaxBytes

----------------------------------------------------------------------------
(* The size of the store. *)

LEMMA StoredIsFinite ==
    ASSUME NEW kept \in SUBSET (Labels \X Commits)
    PROVE  IsFiniteSet(StoredBytes(kept)) /\ Cardinality(StoredBytes(kept)) \in Nat
<1>1. IsFiniteSet(kept)
  BY CacheAssumption, FS_Product, FS_Subset
<1> DEFINE part == [a \in kept |-> {a} \X (1 .. Size[a[2]])]
           parts == {{a} \X (1 .. Size[a[2]]) : a \in kept}
<1>2. IsFiniteSet(parts)
  <2>1. part \in Surjection(kept, parts)
    BY DEF Surjection
  <2> QED
    BY <1>1, <2>1, FS_Surjection
<1>3. \A s \in parts : IsFiniteSet(s)
  <2> SUFFICES ASSUME NEW a \in kept PROVE IsFiniteSet({a} \X (1 .. Size[a[2]]))
    OBVIOUS
  <2>1. Size[a[2]] \in Int
    BY CacheAssumption
  <2>2. IsFiniteSet(1 .. Size[a[2]])
    BY <2>1, FS_Interval
  <2> QED
    BY <2>2, FS_Singleton, FS_Product
<1>4. IsFiniteSet(UNION parts)
  BY <1>2, <1>3, FS_UNION
<1> QED
  BY <1>4, FS_CardinalityType DEF StoredBytes

\* An archive adds its size at most, and a removal adds nothing.
LEMMA StoredGrows ==
    ASSUME NEW kept \in SUBSET (Labels \X Commits), NEW l \in Labels, NEW c \in Commits
    PROVE  Cardinality(StoredBytes(kept \cup {<<l, c>>})) <= Cardinality(StoredBytes(kept)) + Size[c]
<1> DEFINE old == StoredBytes(kept)
           more == {<<l, c>>} \X (1 .. Size[c])
           new == StoredBytes(kept \cup {<<l, c>>})
<1>1. new = old \cup more
  BY DEF StoredBytes
<1>2. Size[c] \in Nat
  BY CacheAssumption
<1>3. IsFiniteSet(1 .. Size[c]) /\ Cardinality(1 .. Size[c]) = Size[c]
  <2>1. /\ IsFiniteSet(1 .. Size[c])
        /\ Cardinality(1 .. Size[c]) = IF 1 > Size[c] THEN 0 ELSE Size[c] - 1 + 1
    <3>1. 1 \in Int /\ Size[c] \in Int
      BY <1>2
    <3> QED
      BY <3>1, FS_Interval
  <2> QED
    BY <1>2, <2>1
<1>4. IsFiniteSet(more) /\ Cardinality(more) = Size[c]
  <2>1. IsFiniteSet({<<l, c>>}) /\ Cardinality({<<l, c>>}) = 1
    BY FS_Singleton
  <2>2. IsFiniteSet(more) /\ Cardinality(more) = 1 * Size[c]
    BY <1>3, <2>1, FS_Product
  <2> QED
    BY <1>2, <2>2
<1>5. IsFiniteSet(old) /\ Cardinality(old) \in Nat
  BY StoredIsFinite
<1> HIDE DEF old, more, new
<1>6. Cardinality(old \cup more) = Cardinality(old) + Cardinality(more) - Cardinality(old \cap more)
  BY <1>4, <1>5, FS_Union
<1>7. Cardinality(old \cap more) \in Nat
  BY <1>5, FS_Intersection, FS_CardinalityType
<1>8. Cardinality(new) <= Cardinality(old) + Size[c]
  BY <1>1, <1>2, <1>4, <1>5, <1>6, <1>7
<1> QED
  BY <1>8 DEF old, new

LEMMA StoredShrinks ==
    ASSUME NEW kept \in SUBSET (Labels \X Commits), NEW less \in SUBSET kept
    PROVE  Cardinality(StoredBytes(less)) <= Cardinality(StoredBytes(kept))
<1>1. StoredBytes(less) \in SUBSET StoredBytes(kept)
  BY DEF StoredBytes
<1> QED
  BY <1>1, StoredIsFinite, FS_Subset

----------------------------------------------------------------------------
(* One call at a time inside a repository. *)

LEMMA Alone ==
    ASSUME CacheInv, NEW p \in Processes, NEW q \in Processes, task[p].at # "idle", task[q].at # "idle",
           Repo(p) = Repo(q)
    PROVE  p = q
BY DEF CacheInv, TaskSound

LEMMA RepositoryTypes == \A l \in Labels : RepositoryOf[l] \in Repositories
BY DEF Repositories

\* A step of process p in repository r disturbs no other call, as long as it
\* stays inside r and adds to the store only what it measured itself.
LEMMA StepOfOne ==
    ASSUME CacheInv, NEW p \in Processes, NEW r,
           CacheTypes', TaskSound(p)', \A a \in answers' : CacheAnswerSound(a)',
           baseline' = holdOld', Bytes' <= MaxBytes, remote' = remote,
           \A q \in Processes \ {p} : task'[q] = task[q] /\ (task[q].at # "idle" => Repo(q) # r),
           \A s \in Repositories : s # r => lock'[s] = lock[s],
           \A l \in Labels : RepositoryOf[l] # r =>
              /\ holdNew'[l] = holdNew[l]
              /\ \A c \in Commits : <<l, c>> \in archives => <<l, c>> \in archives',
           quotaLock \notin {p, None} => quotaLock' = quotaLock /\ Bytes' <= Bytes,
           \A a \in answers' : a \in answers \/ RepositoryOf[a.label] = r
    PROVE  CacheInv'
<1>1. ASSUME NEW q \in Processes, q # p PROVE TaskSound(q)'
  <2> SUFFICES ASSUME task[q].at # "idle" PROVE TaskSound(q)'
    BY <1>1 DEF TaskSound
  <2>1. /\ task'[q] = task[q] /\ Repo(q)' = Repo(q) /\ Repo(q) # r /\ TaskSound(q)
        /\ task[q] \in TaskRecs
    BY <1>1 DEF CacheInv, CacheTypes, Repo
  <2>2. /\ task[q].label \in Labels /\ Repo(q) \in Repositories /\ Repo(q) = RepositoryOf[task[q].label]
    BY <2>1, RepositoryTypes DEF TaskSound, Repo
  <2>3. lock'[Repo(q)] = q /\ holdNew'[task[q].label] = holdNew[task[q].label]
    BY <2>1, <2>2 DEF TaskSound
  <2>4. task[q].at = "measured" => quotaLock' = q /\ Bytes' <= task[q].used
    <3> SUFFICES ASSUME task[q].at = "measured" PROVE quotaLock' = q /\ Bytes' <= task[q].used
      OBVIOUS
    <3>1. quotaLock = q /\ Bytes <= task[q].used /\ task[q].used \in Nat
      BY <2>1 DEF TaskSound, Preserving, TaskRecs
    <3>2. quotaLock \notin {p, None}
      BY <1>1, <3>1, CacheAssumption
    <3>3. Bytes \in Nat /\ Bytes' \in Nat
      BY StoredIsFinite DEF Bytes, CacheInv, CacheTypes
    <3> QED
      BY <3>1, <3>2, <3>3
  <2>5. task[q].at = "published" =>
           /\ <<task[q].label, task[q].commit>> \in archives'
           /\ task[q].created => ~\E a \in answers' : /\ Preserves(a.op) /\ a.label = task[q].label
                                                      /\ a.new = task[q].commit
    <3> SUFFICES ASSUME task[q].at = "published"
                 PROVE  /\ <<task[q].label, task[q].commit>> \in archives'
                        /\ task[q].created => ~\E a \in answers' : /\ Preserves(a.op) /\ a.label = task[q].label
                                                                   /\ a.new = task[q].commit
      OBVIOUS
    <3>1. task[q].commit \in Commits
      BY <2>1 DEF TaskSound, Preserving
    <3> QED
      BY <2>1, <2>2, <3>1 DEF TaskSound, Preserving
  <2>6. Preserving(task[q])'
    BY <2>1, <2>4, <2>5 DEF TaskSound, Preserving
  <2> QED
    BY <2>1, <2>3, <2>4, <2>6 DEF TaskSound
<1> QED
  BY <1>1 DEF CacheInv

\* A call that ends, whatever it answers.
LEMMA LeaveStep ==
    ASSUME CacheInv, NEW p \in Processes, task[p].at # "idle", NEW answer, Leave(p, answer),
           remote' = remote, tracking' \in [Repositories -> Refs], holdOld' \in [Labels -> Refs],
           holdNew' \in [Labels -> Refs], snapshot' \in [Labels -> Refs], baseline' \in [Labels -> Refs],
           archives' \subseteq archives, answer \subseteq AnswerRecs,
           \A a \in answers \cup answer : CacheAnswerSound(a)',
           \A a \in answer : a.label = task[p].label,
           baseline' = holdOld',
           \A l \in Labels : RepositoryOf[l] # Repo(p) =>
              /\ holdNew'[l] = holdNew[l]
              /\ \A c \in Commits : <<l, c>> \in archives => <<l, c>> \in archives'
    PROVE  CacheInv'
<1>a. PICK r : r = Repo(p)
  OBVIOUS
<1>1. /\ answers' = answers \cup answer /\ task' = [task EXCEPT ![p] = Idle]
      /\ lock' = [lock EXCEPT ![r] = None] /\ quotaLock' = IF quotaLock = p THEN None ELSE quotaLock
  BY <1>a DEF Leave, Released, QuotaReleased
<1>2. CacheTypes
  BY DEF CacheInv
<1>3. Idle \in TaskRecs /\ Idle.at = "idle"
  <2>1. 0 \in Nat /\ None \in Refs /\ {} \in SUBSET Refs
    BY DEF Refs
  <2> QED
    BY <2>1 DEF Idle, TaskRecs
<1>4. CacheTypes'
  BY <1>1, <1>2, <1>3 DEF CacheTypes
<1>5. TaskSound(p)'
  BY <1>1, <1>2, <1>3 DEF TaskSound, CacheTypes
<1>6. Bytes' <= Bytes /\ Bytes' <= MaxBytes
  <2>1. archives \in SUBSET (Labels \X Commits) /\ archives' \in SUBSET archives
    BY <1>2 DEF CacheTypes
  <2>2. Bytes' <= Bytes
    BY <2>1, StoredShrinks DEF Bytes
  <2>3. Bytes \in Nat /\ Bytes' \in Nat /\ MaxBytes \in Nat /\ Bytes <= MaxBytes
    BY <2>1, StoredIsFinite, CacheAssumption DEF Bytes, CacheInv
  <2> QED
    BY <2>2, <2>3
<1>7. \A q \in Processes \ {p} : task'[q] = task[q] /\ (task[q].at # "idle" => Repo(q) # r)
  BY <1>1, <1>2, <1>a, Alone DEF CacheTypes
<1>8. \A s \in Repositories : s # r => lock'[s] = lock[s]
  BY <1>1, <1>2 DEF CacheTypes
<1>9. \A a \in answers' : CacheAnswerSound(a)' /\ (a \in answers \/ RepositoryOf[a.label] = r)
  BY <1>1, <1>a DEF Repo
<1>10. \A l \in Labels : RepositoryOf[l] # r =>
              /\ holdNew'[l] = holdNew[l]
              /\ \A c \in Commits : <<l, c>> \in archives => <<l, c>> \in archives'
  BY <1>a
<1>11. quotaLock \notin {p, None} => quotaLock' = quotaLock
  BY <1>1
<1> QED
  BY <1>4, <1>5, <1>6, <1>7, <1>8, <1>9, <1>10, <1>11, StepOfOne

\* A call that goes on, and answers nothing yet.
LEMMA GoesOnStep ==
    ASSUME CacheInv, NEW p \in Processes, task[p].at # "idle", NEW new \in TaskRecs,
           task' = [task EXCEPT ![p] = new], new.label = task[p].label, TaskSound(p)',
           \A a \in answers : CacheAnswerSound(a)', baseline' = holdOld',
           tracking' \in [Repositories -> Refs], holdOld' \in [Labels -> Refs],
           holdNew' \in [Labels -> Refs], baseline' \in [Labels -> Refs],
           \A l \in Labels : RepositoryOf[l] # Repo(p) => holdNew'[l] = holdNew[l],
           archives' \subseteq Labels \X Commits, archives \subseteq archives',
           quotaLock' \in Processes \cup {None}, Bytes' <= MaxBytes,
           quotaLock \notin {p, None} => quotaLock' = quotaLock /\ Bytes' <= Bytes,
           UNCHANGED <<remote, snapshot, answers, lock>>
    PROVE  CacheInv'
<1>a. PICK r : r = Repo(p)
  OBVIOUS
<1>1. CacheTypes
  BY DEF CacheInv
<1>2. CacheTypes'
  BY <1>1 DEF CacheTypes
<1>3. \A q \in Processes \ {p} : task'[q] = task[q] /\ (task[q].at # "idle" => Repo(q) # r)
  BY <1>1, <1>a, Alone DEF CacheTypes
<1>4. \A l \in Labels : RepositoryOf[l] # r =>
              /\ holdNew'[l] = holdNew[l]
              /\ \A c \in Commits : <<l, c>> \in archives => <<l, c>> \in archives'
  BY <1>a
<1>5. \A a \in answers' : CacheAnswerSound(a)' /\ (a \in answers \/ RepositoryOf[a.label] = r)
  OBVIOUS
<1> QED
  BY <1>2, <1>3, <1>4, <1>5, StepOfOne

----------------------------------------------------------------------------
(* The steps. *)

LEMMA AnswersStand ==
    ASSUME CacheInv, UNCHANGED <<holdOld, holdNew, snapshot, archives>>
    PROVE  \A a \in answers : CacheAnswerSound(a)'
BY DEF CacheInv, CacheAnswerSound

LEMMA SameStore ==
    ASSUME CacheInv, archives' = archives
    PROVE  Bytes' <= Bytes /\ Bytes' <= MaxBytes
<1>1. Bytes' = Bytes
  BY DEF Bytes
<1>2. Bytes \in Nat /\ Bytes <= MaxBytes
  BY StoredIsFinite DEF Bytes, CacheInv, CacheTypes
<1> QED
  BY <1>1, <1>2

\* The calls that end and leave the store as it is.
LEMMA EndsQuietly ==
    ASSUME CacheInv, NEW p \in Processes, task[p].at # "idle", Leave(p, {}),
           UNCHANGED <<remote, refVars, archives, baseline>>
    PROVE  CacheInv'
<1>1. \A a \in answers : CacheAnswerSound(a)'
  BY AnswersStand DEF refVars
<1>2. CacheTypes /\ baseline = holdOld
  BY DEF CacheInv
<1> QED
  BY <1>1, <1>2, LeaveStep DEF refVars, CacheTypes

\* The old commit is pinned before a transfer.
LEMMA PinOldStep ==
    ASSUME CacheInv, NEW p \in Processes, PinOld(p)
    PROVE  CacheInv'
<1>1. PICK l : l = task[p].label
  OBVIOUS
<1>2. /\ task[p].at = "entered" /\ (task[p].op = "fetch" => holdNew[l] = None)
      /\ holdOld' = IF task[p].op = "fetch" THEN OldPinned(l) ELSE holdOld
      /\ baseline' = IF task[p].op = "fetch" /\ baseline[l] = None
                     THEN [baseline EXCEPT ![l] = tracking[Repo(p)]] ELSE baseline
      /\ task' = [task EXCEPT ![p].at = "pulling"]
      /\ UNCHANGED <<remote, tracking, holdNew, snapshot, archives, lock, quotaLock, answers, countVars>>
  BY <1>1 DEF PinOld, Goes
<1>3. CacheTypes /\ baseline = holdOld /\ TaskSound(p) /\ task[p] \in TaskRecs
  BY DEF CacheInv, CacheTypes
<1>4. PICK new : new = [task[p] EXCEPT !.at = "pulling"]
  OBVIOUS
<1>5. /\ new \in TaskRecs /\ new.at = "pulling" /\ new.label = l /\ new.op = task[p].op
      /\ new.tips = task[p].tips /\ new.commit = task[p].commit
      /\ task' = [task EXCEPT ![p] = new] /\ task'[p] = new
  BY <1>1, <1>2, <1>3, <1>4 DEF TaskRecs, CacheTypes
<1>6. l \in Labels /\ Repo(p) = RepositoryOf[l] /\ Repo(p) \in Repositories
  BY <1>1, <1>2, <1>3, RepositoryTypes DEF TaskSound, Repo
<1>7. /\ holdOld' \in [Labels -> Refs] /\ baseline' \in [Labels -> Refs] /\ baseline' = holdOld'
      /\ \A m \in Labels : holdOld'[m] # holdOld[m] => m = l /\ task[p].op = "fetch"
  <2>1. tracking[Repo(p)] \in Refs
    BY <1>3, <1>6 DEF CacheTypes
  <2> QED
    BY <1>2, <1>3, <1>6, <2>1 DEF CacheTypes, OldPinned
<1>8. \A a \in answers : CacheAnswerSound(a)'
  <2> SUFFICES ASSUME NEW a \in answers PROVE CacheAnswerSound(a)'
    OBVIOUS
  <2>1. CacheAnswerSound(a) /\ a.label \in Labels /\ a.new \in Commits
    BY <1>3 DEF CacheInv, CacheTypes, AnswerRecs
  <2>2. a.op = "fetch" => holdOld'[a.label] = holdOld[a.label]
    BY <1>2, <1>7, <2>1, CacheAssumption DEF CacheAnswerSound
  <2> QED
    BY <1>2, <2>1, <2>2 DEF CacheAnswerSound
<1>9. TaskSound(p)'
  <2>1. Repo(p)' = Repo(p)
    BY <1>1, <1>5 DEF Repo
  <2> QED
    BY <1>1, <1>2, <1>3, <1>5, <2>1 DEF TaskSound, Preserving
<1>10. Bytes' <= Bytes /\ Bytes' <= MaxBytes
  BY <1>2, SameStore
<1>11. /\ tracking' \in [Repositories -> Refs] /\ holdNew' \in [Labels -> Refs]
       /\ archives' \subseteq Labels \X Commits /\ archives \subseteq archives'
       /\ quotaLock' \in Processes \cup {None} /\ quotaLock' = quotaLock
       /\ \A m \in Labels : holdNew'[m] = holdNew[m]
  BY <1>2, <1>3 DEF CacheTypes
<1> QED
  BY <1>1, <1>2, <1>5, <1>7, <1>8, <1>9, <1>10, <1>11, GoesOnStep

\* A transfer moves the tracking ref, and the hold of a fetch that has none.
LEMMA TransferKeeps ==
    ASSUME CacheInv, NEW p \in Processes, Transferred(p), UNCHANGED <<remote, holdOld, snapshot, archives>>
    PROVE  /\ task[p].label \in Labels /\ remote[Repo(p)] \in Commits /\ task[p].at = "pulling"
           /\ tracking' \in [Repositories -> Refs] /\ holdNew' \in [Labels -> Refs]
           /\ \A l \in Labels : RepositoryOf[l] # Repo(p) => holdNew'[l] = holdNew[l]
           /\ \A a \in answers : CacheAnswerSound(a)'
           /\ task[p].op = "fetch" => /\ holdNew[task[p].label] = None
                                      /\ holdNew' = [holdNew EXCEPT ![task[p].label] = remote[Repo(p)]]
           /\ task[p].op # "fetch" => holdNew' = holdNew
<1>a. PICK l : l = task[p].label
  OBVIOUS
<1>b. PICK r : r = Repo(p)
  OBVIOUS
<1>1. /\ task[p].at = "pulling" /\ remote[r] # None
      /\ tracking' = [tracking EXCEPT ![r] = remote[r]]
      /\ holdNew' = IF task[p].op = "fetch" THEN [holdNew EXCEPT ![l] = remote[r]] ELSE holdNew
  BY <1>a, <1>b DEF Transferred
<1>2. CacheTypes /\ TaskSound(p)
  BY DEF CacheInv
<1>3. l \in Labels /\ r = RepositoryOf[l] /\ r \in Repositories
  BY <1>1, <1>2, <1>a, <1>b, RepositoryTypes DEF TaskSound, Repo
<1>4. remote[r] \in Commits
  BY <1>1, <1>2, <1>3 DEF CacheTypes, Refs
<1>5. task[p].op = "fetch" => holdNew[l] = None
  BY <1>1, <1>2, <1>a DEF TaskSound
<1>6. \A m \in Labels : holdNew'[m] # holdNew[m] => m = l /\ holdNew[m] = None
  BY <1>1, <1>2, <1>5 DEF CacheTypes
<1>7. ASSUME NEW a \in answers PROVE CacheAnswerSound(a)'
  <2>1. CacheAnswerSound(a) /\ a.label \in Labels /\ a.new \in Commits
    BY <1>2 DEF CacheInv, CacheTypes, AnswerRecs
  <2>2. a.op = "fetch" => holdNew'[a.label] = holdNew[a.label]
    BY <1>6, <2>1, CacheAssumption DEF CacheAnswerSound
  <2> QED
    BY <2>1, <2>2 DEF CacheAnswerSound
<1>8. tracking' \in [Repositories -> Refs] /\ holdNew' \in [Labels -> Refs]
  BY <1>1, <1>2, <1>3, <1>4 DEF CacheTypes, Refs
<1> QED
  BY <1>1, <1>3, <1>4, <1>5, <1>6, <1>7, <1>8, <1>a, <1>b

LEMMA PullStep ==
    ASSUME CacheInv, NEW p \in Processes, Pull(p) \/ PullTimesOut(p)
    PROVE  CacheInv'
<1>a. PICK c : c = remote[Repo(p)]
  OBVIOUS
<1>b. PICK answer : answer = Answer(p, holdOld[task[p].label], c)
  OBVIOUS
<1>1. /\ Transferred(p) /\ UNCHANGED <<remote, holdOld, snapshot, archives, baseline, countVars>>
      /\ \/ Leave(p, {})
         \/ task[p].op \in {"fetch", "preflight"} /\ Leave(p, {answer})
         \/ /\ task[p].op \notin {"fetch", "preflight"} /\ ~(task[p].op = "exact" /\ Fetched(p) # task[p].commit)
            /\ Goes(p, "choosing") /\ UNCHANGED <<lock, quotaLock, answers>>
  BY <1>a, <1>b DEF Pull, PullTimesOut
<1>2. CacheTypes /\ baseline = holdOld /\ TaskSound(p) /\ task[p] \in TaskRecs
  BY DEF CacheInv, CacheTypes
<1>3. /\ task[p].label \in Labels /\ c \in Commits /\ task[p].at = "pulling"
      /\ tracking' \in [Repositories -> Refs] /\ holdNew' \in [Labels -> Refs]
      /\ \A l \in Labels : RepositoryOf[l] # Repo(p) => holdNew'[l] = holdNew[l]
      /\ \A a \in answers : CacheAnswerSound(a)'
      /\ task[p].op = "fetch" => holdNew' = [holdNew EXCEPT ![task[p].label] = c]
      /\ task[p].op # "fetch" => holdNew' = holdNew
  BY <1>1, <1>a, TransferKeeps
<1>4. CASE Leave(p, {})
  BY <1>1, <1>2, <1>3, <1>4, LeaveStep DEF CacheTypes
<1>5. CASE task[p].op \in {"fetch", "preflight"} /\ Leave(p, {answer})
  <2>1. /\ answer.op = task[p].op /\ answer.label = task[p].label /\ answer.new = c
        /\ answer.old = holdOld[task[p].label]
    BY <1>b DEF Answer
  <2>2. answer \in AnswerRecs
    <3>1. holdOld[task[p].label] \in Refs /\ (c \in task[p].tips) \in BOOLEAN
      BY <1>2, <1>3 DEF CacheTypes
    <3> QED
      BY <1>3, <1>5, <1>b, <3>1 DEF Answer, AnswerRecs, Operations
  <2>3. CacheAnswerSound(answer)'
    BY <1>1, <1>2, <1>3, <1>5, <2>1 DEF CacheAnswerSound, Preserves, CacheTypes
  <2> QED
    BY <1>1, <1>2, <1>3, <1>5, <2>1, <2>2, <2>3, LeaveStep DEF CacheTypes
<1>6. CASE /\ task[p].op \notin {"fetch", "preflight"} /\ ~(task[p].op = "exact" /\ Fetched(p) # task[p].commit)
           /\ Goes(p, "choosing") /\ UNCHANGED <<lock, quotaLock, answers>>
  <2>1. PICK new : new = [task[p] EXCEPT !.at = "choosing"]
    OBVIOUS
  <2>2. /\ new \in TaskRecs /\ new.at = "choosing" /\ new.label = task[p].label /\ new.op = task[p].op
        /\ new.tips = task[p].tips /\ new.commit = task[p].commit
        /\ task' = [task EXCEPT ![p] = new] /\ task'[p] = new
    BY <1>2, <1>6, <2>1 DEF TaskRecs, CacheTypes, Goes
  <2>3. task[p].op = "exact" => task[p].commit \in task[p].tips
    BY <1>2, <1>3, <1>6, <1>a DEF Fetched, TaskSound
  <2>4. TaskSound(p)'
    <3>1. Repo(p)' = Repo(p)
      BY <2>2 DEF Repo
    <3>2. Preserving(new)'
      BY <1>2, <1>3, <1>6, <2>2, <2>3 DEF TaskSound, Preserving, Preserves, Operations
    <3> QED
      BY <1>1, <1>2, <1>3, <1>6, <2>2, <3>1, <3>2 DEF TaskSound, Preserves
  <2>5. Bytes' <= Bytes /\ Bytes' <= MaxBytes
    BY <1>1, SameStore
  <2>6. /\ holdOld' \in [Labels -> Refs] /\ baseline' \in [Labels -> Refs] /\ baseline' = holdOld'
        /\ archives' \subseteq Labels \X Commits /\ archives \subseteq archives'
        /\ quotaLock' \in Processes \cup {None} /\ quotaLock' = quotaLock
    BY <1>1, <1>2, <1>6 DEF CacheTypes
  <2> QED
    BY <1>1, <1>3, <1>6, <2>2, <2>4, <2>5, <2>6, GoesOnStep
<1> QED
  BY <1>1, <1>4, <1>5, <1>6

\* A call goes on to preserve its commit, and the store stays as it is.
LEMMA PreservingStep ==
    ASSUME CacheInv, NEW p \in Processes, task[p].at # "idle", NEW new \in TaskRecs,
           task' = [task EXCEPT ![p] = new],
           new.label = task[p].label, new.op = task[p].op, new.commit = task[p].commit,
           new.tips = task[p].tips, new.at \in {"built", "measured"},
           task[p].at \in {"choosing", "built"},
           new.at = "measured" => new.used = Bytes /\ quotaLock = None,
           quotaLock' = IF new.at = "measured" THEN p ELSE quotaLock,
           UNCHANGED <<remote, refVars, archives, lock, answers, baseline>>
    PROVE  CacheInv'
<1>1. CacheTypes /\ baseline = holdOld /\ TaskSound(p)
  BY DEF CacheInv
<1>2. \A a \in answers : CacheAnswerSound(a)'
  BY AnswersStand DEF refVars
<1>3. task'[p] = new /\ Repo(p)' = Repo(p)
  BY <1>1 DEF CacheTypes, Repo
<1>4. Bytes' <= Bytes /\ Bytes' <= MaxBytes
  BY SameStore
<1>5. Preserving(new)'
  BY <1>1, <1>4 DEF TaskSound, Preserving
<1>6. TaskSound(p)'
  BY <1>1, <1>3, <1>5 DEF TaskSound, Preserving
<1>7. /\ tracking' \in [Repositories -> Refs] /\ holdNew' \in [Labels -> Refs]
      /\ holdOld' \in [Labels -> Refs] /\ baseline' \in [Labels -> Refs] /\ baseline' = holdOld'
      /\ archives' \subseteq Labels \X Commits /\ archives \subseteq archives'
      /\ quotaLock' \in Processes \cup {None} /\ (quotaLock \notin {p, None} => quotaLock' = quotaLock)
      /\ \A m \in Labels : holdNew'[m] = holdNew[m]
  BY <1>1 DEF CacheTypes, refVars
<1> QED
  BY <1>2, <1>4, <1>6, <1>7, GoesOnStep DEF refVars

LEMMA ChooseStep ==
    ASSUME CacheInv, NEW p \in Processes, Choose(p) \/ Measure(p)
    PROVE  CacheInv'
<1>1. CacheTypes /\ task[p] \in TaskRecs /\ Bytes \in Nat
  BY StoredIsFinite DEF CacheInv, CacheTypes, Bytes
<1>2. CASE Choose(p)
  <2>1. PICK new : new = [task[p] EXCEPT !.at = "built"]
    OBVIOUS
  <2>2. /\ new \in TaskRecs /\ new.at = "built" /\ new.label = task[p].label /\ new.op = task[p].op
        /\ new.tips = task[p].tips /\ new.commit = task[p].commit /\ task' = [task EXCEPT ![p] = new]
    BY <1>1, <1>2, <2>1 DEF TaskRecs, CacheTypes, Choose, Goes
  <2> QED
    BY <1>2, <2>2, PreservingStep DEF Choose
<1>3. CASE Measure(p)
  <2>a. PICK used \in Nat : used = Bytes
    BY <1>1
  <2>1. PICK new : new = [task[p] EXCEPT !.at = "measured", !.used = used]
    OBVIOUS
  <2>2. /\ new \in TaskRecs /\ new.at = "measured" /\ new.label = task[p].label /\ new.op = task[p].op
        /\ new.tips = task[p].tips /\ new.commit = task[p].commit /\ new.used = used
    BY <1>1, <2>1 DEF TaskRecs
  <2>3. task' = [task EXCEPT ![p] = new]
    BY <1>1, <1>3, <2>1, <2>a DEF Measure, CacheTypes
  <2> QED
    BY <1>3, <2>2, <2>3, <2>a, PreservingStep DEF Measure, QuotaFree
<1> QED
  BY <1>2, <1>3

\* The archive is linked under the quota's flock.
LEMMA PublishStep ==
    ASSUME CacheInv, NEW p \in Processes, Publish(p)
    PROVE  CacheInv'
<1>a. PICK l : l = task[p].label
  OBVIOUS
<1>b. PICK c : c = task[p].commit
  OBVIOUS
<1>c. PICK created : created = ~HasArchive(p)
  OBVIOUS
<1>1. /\ task[p].at = "measured" /\ (HasArchive(p) \/ Fits(p))
      /\ archives' = archives \cup {<<l, c>>} /\ quotaLock' = IF quotaLock = p THEN None ELSE quotaLock
      /\ UNCHANGED <<remote, refVars, lock, answers, baseline, countVars>>
      /\ task' = [task EXCEPT ![p].at = "published", ![p].created = created]
  BY <1>a, <1>b, <1>c DEF Publish, QuotaReleased
<1>2. CacheTypes /\ baseline = holdOld /\ TaskSound(p) /\ task[p] \in TaskRecs
  BY DEF CacheInv, CacheTypes
<1>3. /\ l \in Labels /\ c \in Commits /\ quotaLock = p /\ Bytes <= task[p].used
      /\ created = (<<l, c>> \notin archives)
  BY <1>1, <1>2, <1>a, <1>b, <1>c DEF TaskSound, Preserving, HasArchive
<1>4. PICK new : new = [task[p] EXCEPT !.at = "published", !.created = created]
  OBVIOUS
<1>5. /\ new \in TaskRecs /\ new.at = "published" /\ new.label = l /\ new.op = task[p].op
      /\ new.tips = task[p].tips /\ new.commit = c /\ new.created = created
      /\ task' = [task EXCEPT ![p] = new]
  <2>1. created \in BOOLEAN
    BY <1>3
  <2> QED
    BY <1>1, <1>2, <1>4, <1>a, <1>b, <2>1 DEF TaskRecs, CacheTypes
<1>6. Bytes' <= MaxBytes
  <2>1. archives \in SUBSET (Labels \X Commits)
    BY <1>2 DEF CacheTypes
  <2>2. CASE HasArchive(p)
    <3>1. archives' = archives
      BY <1>1, <1>3, <1>c, <2>2
    <3> QED
      BY <3>1, SameStore
  <2>3. CASE Fits(p)
    <3>1. Bytes' <= Bytes + Size[c]
      BY <1>1, <1>3, <2>1, StoredGrows DEF Bytes
    <3>2. Bytes \in Nat /\ Bytes' \in Nat
      <4>1. archives' \in SUBSET (Labels \X Commits)
        BY <1>1, <1>3, <2>1
      <4> QED
        BY <2>1, <4>1, StoredIsFinite DEF Bytes
    <3>3. /\ Size[c] \in Nat /\ MaxBytes \in Nat /\ task[p].used \in Nat
          /\ task[p].used + Size[c] <= MaxBytes
      BY <1>2, <1>3, <1>b, <2>3, CacheAssumption DEF TaskRecs, Fits
    <3> QED
      BY <1>3, <3>1, <3>2, <3>3
  <2> QED
    BY <1>1, <2>2, <2>3
<1>7. \A a \in answers : CacheAnswerSound(a)'
  <2>1. \A a \in answers : CacheAnswerSound(a)
    BY DEF CacheInv
  <2> QED
    BY <1>1, <2>1 DEF CacheAnswerSound, refVars
<1>8. TaskSound(p)'
  <2>1. task'[p] = new /\ Repo(p)' = Repo(p)
    BY <1>2, <1>5, <1>a DEF CacheTypes, Repo
  <2>2. created => ~\E a \in answers : Preserves(a.op) /\ a.label = l /\ a.new = c
    BY <1>3 DEF CacheInv, CacheAnswerSound
  <2>3. Preserving(new)'
    BY <1>1, <1>2, <1>5, <1>a, <1>b, <2>2 DEF TaskSound, Preserving
  <2> QED
    BY <1>1, <1>2, <1>5, <1>a, <1>b, <2>1, <2>3 DEF TaskSound
<1>9. /\ tracking' \in [Repositories -> Refs] /\ holdNew' \in [Labels -> Refs]
      /\ holdOld' \in [Labels -> Refs] /\ baseline' \in [Labels -> Refs] /\ baseline' = holdOld'
      /\ archives' \subseteq Labels \X Commits /\ archives \subseteq archives'
      /\ quotaLock' \in Processes \cup {None} /\ quotaLock \in {p, None}
      /\ \A m \in Labels : holdNew'[m] = holdNew[m]
  BY <1>1, <1>2, <1>3 DEF CacheTypes, refVars
<1> QED
  BY <1>1, <1>5, <1>6, <1>7, <1>8, <1>9, <1>a, GoesOnStep DEF refVars

\* The ref is created, and the commit is answered.
LEMMA PinRefStep ==
    ASSUME CacheInv, NEW p \in Processes, PinRef(p)
    PROVE  CacheInv'
<1>a. PICK l : l = task[p].label
  OBVIOUS
<1>b. PICK c : c = task[p].commit
  OBVIOUS
<1>c. PICK answer : answer = Answer(p, None, c)
  OBVIOUS
<1>1. /\ task[p].at = "published" /\ snapshot[l] \in {None, c}
      /\ snapshot' = [snapshot EXCEPT ![l] = c] /\ Leave(p, {answer})
      /\ UNCHANGED <<remote, tracking, holdOld, holdNew, archives, baseline, countVars>>
  BY <1>a, <1>b, <1>c DEF PinRef, Pinnable
<1>2. CacheTypes /\ baseline = holdOld /\ TaskSound(p) /\ \A a \in answers : CacheAnswerSound(a)
  BY DEF CacheInv
<1>3. /\ l \in Labels /\ c \in Commits /\ Preserves(task[p].op) /\ <<l, c>> \in archives
      /\ task[p].op = "exact" => c \in task[p].tips
  BY <1>1, <1>2, <1>a, <1>b DEF TaskSound, Preserving
<1>4. snapshot' \in [Labels -> Refs] /\ snapshot'[l] = c /\ \A m \in Labels \ {l} : snapshot'[m] = snapshot[m]
  BY <1>1, <1>2, <1>3 DEF CacheTypes, Refs
<1>5. /\ answer.op = task[p].op /\ answer.label = l /\ answer.new = c
      /\ answer.old = None /\ answer.tip = (c \in task[p].tips)
  BY <1>a, <1>c DEF Answer
<1>6. answer \in AnswerRecs
  BY <1>3, <1>a, <1>c DEF Answer, AnswerRecs, Operations, Preserves, Refs
<1>7. ASSUME NEW a \in answers PROVE CacheAnswerSound(a)'
  <2>1. CacheAnswerSound(a) /\ a.label \in Labels /\ a.new \in Commits
    BY <1>2 DEF CacheTypes, AnswerRecs
  <2>2. Preserves(a.op) => snapshot'[a.label] = a.new
    BY <1>1, <1>4, <2>1, CacheAssumption DEF CacheAnswerSound
  <2> QED
    BY <1>1, <2>1, <2>2 DEF CacheAnswerSound
<1>8. CacheAnswerSound(answer)'
  BY <1>1, <1>3, <1>4, <1>5 DEF CacheAnswerSound, Preserves
<1> QED
  BY <1>1, <1>2, <1>4, <1>5, <1>6, <1>7, <1>8, <1>a, LeaveStep DEF CacheTypes

\* The ref fails: what the call added is removed, unless it was there before.
LEMMA PinFailsStep ==
    ASSUME CacheInv, NEW p \in Processes, PinFails(p)
    PROVE  CacheInv'
<1>a. PICK l : l = task[p].label
  OBVIOUS
<1>b. PICK c : c = task[p].commit
  OBVIOUS
<1>1. /\ task[p].at = "published"
      /\ snapshot' \in {snapshot, [snapshot EXCEPT ![l] = c]} /\ Pinnable(l, snapshot'[l])
      /\ archives' = Undone(p) /\ Leave(p, {})
      /\ UNCHANGED <<remote, tracking, holdOld, holdNew, baseline, countVars>>
  BY <1>a, <1>b DEF PinFails
<1>2. CacheTypes /\ baseline = holdOld /\ TaskSound(p) /\ \A a \in answers : CacheAnswerSound(a)
  BY DEF CacheInv
<1>3. /\ l \in Labels /\ c \in Commits /\ Repo(p) = RepositoryOf[l]
      /\ task[p].created => ~\E a \in answers : Preserves(a.op) /\ a.label = l /\ a.new = c
  BY <1>1, <1>2, <1>a, <1>b DEF TaskSound, Preserving, Repo
<1>4. /\ snapshot' \in [Labels -> Refs] /\ snapshot[l] \in {None, snapshot'[l]}
      /\ \A m \in Labels \ {l} : snapshot'[m] = snapshot[m]
  BY <1>1, <1>2, <1>3 DEF CacheTypes, Refs, Pinnable
<1>5. /\ archives' \subseteq archives
      /\ \A x \in archives : x \in archives' \/ (task[p].created /\ x = <<l, c>>)
  BY <1>1, <1>a, <1>b DEF Undone
<1>6. ASSUME NEW a \in answers PROVE CacheAnswerSound(a)'
  <2>1. CacheAnswerSound(a) /\ a.label \in Labels /\ a.new \in Commits
    BY <1>2 DEF CacheTypes, AnswerRecs
  <2>2. Preserves(a.op) => snapshot'[a.label] = a.new
    BY <1>4, <2>1, CacheAssumption DEF CacheAnswerSound
  <2>3. Preserves(a.op) => <<a.label, a.new>> \in archives'
    BY <1>3, <1>5, <2>1 DEF CacheAnswerSound
  <2> QED
    BY <1>1, <2>1, <2>2, <2>3 DEF CacheAnswerSound
<1>7. \A m \in Labels : RepositoryOf[m] # Repo(p) =>
         /\ holdNew'[m] = holdNew[m]
         /\ \A d \in Commits : <<m, d>> \in archives => <<m, d>> \in archives'
  BY <1>1, <1>3, <1>5
<1> QED
  BY <1>1, <1>2, <1>4, <1>5, <1>6, <1>7, LeaveStep DEF CacheTypes

LEMMA AlreadyHeldStep ==
    ASSUME CacheInv, NEW p \in Processes, AlreadyHeld(p)
    PROVE  CacheInv'
<1>a. PICK l : l = task[p].label
  OBVIOUS
<1>b. PICK answer : answer = Answer(p, holdOld[l], holdNew[l])
  OBVIOUS
<1>1. /\ task[p].at = "entered" /\ task[p].op = "fetch" /\ holdNew[l] # None /\ Leave(p, {answer})
      /\ UNCHANGED <<remote, refVars, archives, baseline, countVars>>
  BY <1>a, <1>b DEF AlreadyHeld
<1>2. CacheTypes /\ baseline = holdOld /\ l \in Labels
  BY <1>1, <1>a DEF CacheInv, TaskSound
<1>3. /\ answer.op = "fetch" /\ answer.label = l /\ answer.new = holdNew[l] /\ answer.old = holdOld[l]
  BY <1>1, <1>a, <1>b DEF Answer
<1>4. answer \in AnswerRecs
  <2>1. holdNew[l] \in Commits /\ holdOld[l] \in Refs
    BY <1>1, <1>2 DEF CacheTypes, Refs
  <2>2. (holdNew[l] \in task[p].tips) \in BOOLEAN
    OBVIOUS
  <2> QED
    BY <1>1, <1>2, <1>a, <1>b, <2>1, <2>2 DEF Answer, AnswerRecs, Operations
<1>5. \A a \in answers : CacheAnswerSound(a)'
  BY <1>1, AnswersStand DEF refVars
<1>6. CacheAnswerSound(answer)'
  BY <1>1, <1>3 DEF CacheAnswerSound, Preserves, refVars
<1> QED
  BY <1>1, <1>2, <1>3, <1>4, <1>5, <1>6, <1>a, LeaveStep DEF refVars, CacheTypes

\* A process enters the flock of a repository that nobody is in.
LEMMA EnterStep ==
    ASSUME CacheInv, NEW p \in Processes, NEW op \in Operations, NEW l \in Labels,
           NEW c \in Commits \cup {None}, Enter(p, op, l, c)
    PROVE  CacheInv'
<1>a. PICK r : r = RepositoryOf[l]
  OBVIOUS
<1>b. PICK at : at = IF op = "snapshot" THEN "choosing" ELSE "entered"
  OBVIOUS
<1>c. PICK new : new = [Idle EXCEPT !.op = op, !.label = l, !.commit = c, !.tips = {remote[r]}, !.at = at]
  OBVIOUS
<1>1. /\ task[p].at = "idle" /\ (op \in {"fetch", "preflight"} <=> c = None)
      /\ lock[r] = None /\ lock' = [lock EXCEPT ![r] = p] /\ task' = [task EXCEPT ![p] = new]
      /\ UNCHANGED <<remote, refVars, archives, quotaLock, answers, baseline, pushes, crashes>>
  BY <1>a, <1>b, <1>c DEF Enter, LockFree
<1>2. CacheTypes /\ baseline = holdOld
  BY DEF CacheInv
<1>3. r \in Repositories /\ remote[r] \in Refs
  BY <1>2, <1>a, RepositoryTypes DEF CacheTypes
<1>4. /\ new \in TaskRecs /\ new.op = op /\ new.label = l /\ new.commit = c /\ new.tips = {remote[r]}
      /\ new.at = at
  <2>1. Idle \in TaskRecs
    <3>1. 0 \in Nat /\ None \in Refs /\ {} \in SUBSET Refs
      BY DEF Refs
    <3> QED
      BY <3>1 DEF Idle, TaskRecs
  <2>2. op \in Operations \cup {"none"} /\ c \in Refs /\ {remote[r]} \in SUBSET Refs
    BY <1>3 DEF Refs
  <2>3. at \in {"choosing", "entered"}
    BY <1>b
  <2> QED
    BY <1>c, <2>1, <2>2, <2>3 DEF TaskRecs
<1>5. CacheTypes'
  BY <1>1, <1>2, <1>3, <1>4 DEF CacheTypes, refVars
<1>6. Bytes' <= Bytes /\ Bytes' <= MaxBytes
  BY <1>1, SameStore
<1>7. \A a \in answers' : CacheAnswerSound(a)'
  BY <1>1, AnswersStand DEF refVars
<1>8. \A q \in Processes \ {p} : task'[q] = task[q] /\ (task[q].at # "idle" => Repo(q) # r)
  <2> SUFFICES ASSUME NEW q \in Processes, q # p
               PROVE  task'[q] = task[q] /\ (task[q].at # "idle" => Repo(q) # r)
    OBVIOUS
  <2>1. task'[q] = task[q]
    BY <1>1, <1>2 DEF CacheTypes
  <2>2. task[q].at # "idle" => lock[Repo(q)] = q
    BY DEF CacheInv, TaskSound
  <2> QED
    BY <1>1, <2>1, <2>2, CacheAssumption
<1>9. TaskSound(p)'
  <2>1. task'[p] = new /\ Repo(p)' = r
    BY <1>1, <1>2, <1>4, <1>a DEF CacheTypes, Repo
  <2>2. Preserving(new)'
    BY <1>4, <1>b DEF Preserving, Preserves
  <2>3. Preserves(op) => c \in Commits
    BY <1>1 DEF Preserves
  <2> QED
    BY <1>1, <1>2, <1>3, <1>4, <1>b, <2>1, <2>2, <2>3 DEF TaskSound, CacheTypes
<1>10. /\ baseline' = holdOld' /\ remote' = remote /\ quotaLock' = quotaLock
       /\ \A s \in Repositories : s # r => lock'[s] = lock[s]
       /\ \A m \in Labels : RepositoryOf[m] # r =>
             /\ holdNew'[m] = holdNew[m]
             /\ \A d \in Commits : <<m, d>> \in archives => <<m, d>> \in archives'
       /\ \A a \in answers' : a \in answers \/ RepositoryOf[a.label] = r
  BY <1>1, <1>2 DEF refVars, CacheTypes
<1> QED
  BY <1>5, <1>6, <1>7, <1>8, <1>9, <1>10, StepOfOne

\* A push moves the branch, and every call about it sees the new tip.
LEMMA PushStep ==
    ASSUME CacheInv, NEW r \in Repositories, NEW c \in Commits \cup {None}, Push(r, c)
    PROVE  CacheInv'
<1>1. /\ remote' = [remote EXCEPT ![r] = c]
      /\ task' = [p \in Processes |->
                    IF task[p].at # "idle" /\ Repo(p) = r
                    THEN [task[p] EXCEPT !.tips = task[p].tips \cup {c}] ELSE task[p]]
      /\ UNCHANGED <<refVars, archives, lock, quotaLock, answers, baseline, crashes, calls>>
  BY DEF Push
<1>2. CacheTypes /\ baseline = holdOld
  BY DEF CacheInv
<1>3. remote' \in [Repositories -> Refs]
  BY <1>1, <1>2 DEF CacheTypes, Refs
<1>4. ASSUME NEW p \in Processes
      PROVE  /\ task'[p] \in TaskRecs /\ task'[p].at = task[p].at /\ task'[p].op = task[p].op
             /\ task'[p].label = task[p].label /\ task'[p].commit = task[p].commit
             /\ task'[p].used = task[p].used /\ task'[p].created = task[p].created
             /\ task[p].tips \subseteq task'[p].tips
             /\ task[p].at # "idle" /\ Repo(p) = r => c \in task'[p].tips
  <2>1. task[p] \in TaskRecs
    BY <1>2 DEF CacheTypes
  <2>2. CASE task[p].at # "idle" /\ Repo(p) = r
    <3>1. PICK tips : tips = task[p].tips \cup {c}
      OBVIOUS
    <3>2. tips \in SUBSET Refs
      BY <2>1, <3>1 DEF TaskRecs, Refs
    <3>3. task'[p] = [task[p] EXCEPT !.tips = tips]
      BY <1>1, <2>2, <3>1
    <3> QED
      BY <2>1, <3>1, <3>2, <3>3 DEF TaskRecs
  <2>3. CASE ~(task[p].at # "idle" /\ Repo(p) = r)
    BY <1>1, <2>1, <2>3
  <2> QED
    BY <2>2, <2>3
<1>5. CacheTypes'
  BY <1>1, <1>2, <1>3, <1>4 DEF CacheTypes, refVars
<1>6. Bytes' = Bytes
  BY <1>1 DEF Bytes
<1>7. ASSUME NEW p \in Processes PROVE TaskSound(p)'
  <2> SUFFICES ASSUME task[p].at # "idle" PROVE TaskSound(p)'
    BY <1>4 DEF TaskSound
  <2>1. TaskSound(p) /\ Repo(p)' = Repo(p)
    BY <1>4 DEF CacheInv, Repo
  <2>2. remote'[Repo(p)] \in task'[p].tips
    <3>1. Repo(p) \in Repositories
      BY <2>1, RepositoryTypes DEF TaskSound, Repo
    <3> QED
      BY <1>1, <1>2, <1>4, <2>1, <3>1 DEF TaskSound, CacheTypes
  <2>3. Preserving(task[p])
    BY <2>1 DEF TaskSound
  <2>4. /\ task'[p].at \in {"choosing", "built", "measured", "published"} =>
              Preserves(task'[p].op) /\ (task'[p].op = "exact" => task'[p].commit \in task'[p].tips)
        /\ task'[p].at = "measured" => Bytes' <= task'[p].used
    BY <1>4, <1>6, <2>3 DEF Preserving
  <2>5. task'[p].at = "published" =>
          /\ <<task'[p].label, task'[p].commit>> \in archives'
          /\ task'[p].created => ~\E a \in answers' : /\ Preserves(a.op) /\ a.label = task'[p].label
                                                      /\ a.new = task'[p].commit
    BY <1>1, <1>4, <2>3 DEF Preserving
  <2>6. Preserving(task[p])'
    BY <2>4, <2>5 DEF Preserving
  <2>7. lock' = lock /\ holdNew' = holdNew /\ quotaLock' = quotaLock
    BY <1>1 DEF refVars
  <2> QED
    BY <1>4, <2>1, <2>2, <2>6, <2>7 DEF TaskSound
<1>8. \A a \in answers' : CacheAnswerSound(a)'
  BY <1>1, AnswersStand DEF refVars
<1> QED
  BY <1>1, <1>2, <1>5, <1>6, <1>7, <1>8 DEF CacheInv, refVars

----------------------------------------------------------------------------
(* The theorems. *)

LEMMA CacheInvInit == CacheInit => CacheInv
<1> SUFFICES ASSUME CacheInit PROVE CacheInv
  OBVIOUS
<1>1. CacheTypes
  <2>1. Idle \in TaskRecs
    <3>1. 0 \in Nat /\ None \in Refs /\ {} \in SUBSET Refs
      BY DEF Refs
    <3> QED
      BY <3>1 DEF Idle, TaskRecs
  <2> QED
    BY <2>1 DEF CacheInit, CacheTypes, Refs
<1>2. \A p \in Processes : TaskSound(p)
  BY DEF CacheInit, TaskSound, Idle
<1>3. Bytes <= MaxBytes
  <2>1. StoredBytes(archives) = {}
    BY DEF CacheInit, StoredBytes
  <2>2. Bytes = 0
    BY <2>1, FS_EmptySet DEF Bytes
  <2> QED
    BY <2>2, CacheAssumption
<1> QED
  BY <1>1, <1>2, <1>3 DEF CacheInit, CacheInv

LEMMA CacheInvStep == CacheInv /\ [CacheNext]_cacheVars => CacheInv'
<1> SUFFICES ASSUME CacheInv, [CacheNext]_cacheVars PROVE CacheInv'
  OBVIOUS
<1>1. ASSUME NEW r \in Repositories, NEW c \in Commits \cup {None}, Push(r, c) PROVE CacheInv'
  BY <1>1, PushStep
<1>2. ASSUME NEW p \in Processes, NEW l \in Labels, NEW op \in Operations, NEW c \in Commits \cup {None},
             Enter(p, op, l, c)
      PROVE  CacheInv'
  BY <1>2, EnterStep
<1>3. ASSUME NEW p \in Processes, CallStep(p) PROVE CacheInv'
  <2>1. CASE PullFails(p) \/ Refuse(p) \/ QuotaExceeded(p)
    BY <2>1, EndsQuietly DEF PullFails, Refuse, QuotaExceeded
  <2> QED
    BY <1>3, <2>1, AlreadyHeldStep, PinOldStep, PullStep, ChooseStep, PublishStep, PinRefStep, PinFailsStep
       DEF CallStep
<1>4. ASSUME NEW p \in Processes, Die(p) PROVE CacheInv'
  BY <1>4, EndsQuietly DEF Die
<1>5. CASE UNCHANGED cacheVars
  <2>1. /\ UNCHANGED <<remote, tracking, holdOld, holdNew, snapshot, archives, lock, quotaLock, task,
                       answers, baseline>>
        /\ Bytes' = Bytes
    BY <1>5 DEF cacheVars, Bytes
  <2>2. \A p \in Processes : TaskSound(p)'
    <3> SUFFICES ASSUME NEW p \in Processes PROVE TaskSound(p)'
      OBVIOUS
    <3>1. TaskSound(p)
      BY DEF CacheInv
    <3> QED
      BY <2>1, <3>1 DEF TaskSound, Preserving, Repo
  <2>3. \A a \in answers' : CacheAnswerSound(a)'
    BY <2>1, AnswersStand
  <2> QED
    BY <2>1, <2>2, <2>3 DEF CacheInv, CacheTypes
<1> QED
  BY <1>1, <1>2, <1>3, <1>4, <1>5 DEF CacheNext, Operations

THEOREM CacheIsSound == CacheSpec => []CacheInv
BY CacheInvInit, CacheInvStep, PTL DEF CacheSpec

\* The store keeps what was answered, stays within its quota, and answers the
\* same for a label for ever (StoreIsKept), whatever is pushed and whoever dies.
THEOREM StoreStaysKept == CacheSpec => []StoreIsKept
<1>1. CacheInv => StoreIsKept
  <2> SUFFICES ASSUME CacheInv PROVE StoreIsKept
    OBVIOUS
  <2>1. /\ CacheTypes /\ baseline = holdOld
        /\ \A a \in answers : CacheAnswerSound(a) /\ a \in AnswerRecs
    BY DEF CacheInv, CacheTypes
  <2>2. CacheTypeOK
    <3>1. \A p \in Processes : TaskSound(p) /\ task[p] \in TaskRecs
      BY DEF CacheInv, CacheTypes
    <3> QED
      BY <2>1, <3>1 DEF CacheTypeOK, CacheTypes, TaskSound, TaskRecs
  <2>3. AnsweredIsKept /\ ExactWasTip
    BY <2>1 DEF AnsweredIsKept, ExactWasTip, CacheAnswerSound, Preserves
  <2>4. QuotaKept
    BY DEF QuotaKept, CacheInv
  <2>5. LabelsStable
    BY <2>1 DEF LabelsStable, CacheAnswerSound, Preserves, AnswerRecs, Operations
  <2>6. BaselineKept
    BY <2>1 DEF BaselineKept, CacheAnswerSound
  <2> QED
    BY <2>2, <2>3, <2>4, <2>5, <2>6 DEF StoreIsKept
<1> QED
  BY <1>1, CacheIsSound, PTL

\* Every step of the collector is a step of the labels, or none.
LEMMA LabelStep ==
    ASSUME CacheInv, [CacheNext]_cacheVars
    PROVE  [LabelStore!LabelNext]_(LabelStore!labelVars)
<1>1. CacheTypes /\ LabelStore!Repositories = Repositories
  BY DEF CacheInv, LabelStore!Repositories, Repositories
<1>2. ASSUME UNCHANGED <<remote, holdNew, snapshot>> PROVE UNCHANGED LabelStore!labelVars
  BY <1>2 DEF LabelStore!labelVars
<1>3. ASSUME NEW r \in Repositories, NEW c \in Commits \cup {None}, Push(r, c)
      PROVE  LabelStore!LabelNext
  <2>1. LabelStore!Push(r, c)
    BY <1>3 DEF Push, LabelStore!Push, refVars
  <2> QED
    BY <1>1, <2>1 DEF LabelStore!LabelNext
<1>4. ASSUME NEW p \in Processes, Transferred(p), UNCHANGED <<remote, holdOld, snapshot, archives>>
      PROVE  [LabelStore!LabelNext]_(LabelStore!labelVars)
  <2>1. /\ task[p].label \in Labels /\ remote[Repo(p)] \in Commits
        /\ task[p].op = "fetch" => /\ holdNew[task[p].label] = None
                                   /\ holdNew' = [holdNew EXCEPT ![task[p].label] = remote[Repo(p)]]
        /\ task[p].op # "fetch" => holdNew' = holdNew
    BY <1>4, TransferKeeps
  <2>2. CASE task[p].op = "fetch"
    <3>1. LabelStore!Hold(task[p].label)
      BY <1>4, <2>1, <2>2, CacheAssumption DEF LabelStore!Hold, Repo
    <3> QED
      BY <2>1, <3>1 DEF LabelStore!LabelNext
  <2>3. CASE task[p].op # "fetch"
    BY <1>2, <1>4, <2>1, <2>3
  <2> QED
    BY <2>2, <2>3
<1>5. ASSUME NEW l \in Labels, NEW c \in Commits, snapshot[l] \in {None, c},
             snapshot' = [snapshot EXCEPT ![l] = c], UNCHANGED <<remote, holdNew>>
      PROVE  [LabelStore!LabelNext]_(LabelStore!labelVars)
  <2>1. CASE snapshot[l] = None
    <3>1. LabelStore!Pin(l, c)
      BY <1>5, <2>1 DEF LabelStore!Pin
    <3> QED
      BY <3>1 DEF LabelStore!LabelNext
  <2>2. CASE snapshot[l] = c
    <3>1. snapshot' = snapshot
      BY <1>1, <1>5, <2>2 DEF CacheTypes
    <3> QED
      BY <1>2, <1>5, <3>1
  <2> QED
    BY <1>5, <2>1, <2>2
<1>6. ASSUME NEW p \in Processes, task[p].at = "published"
      PROVE  task[p].label \in Labels /\ task[p].commit \in Commits
  BY <1>6 DEF CacheInv, TaskSound, Preserving
<1>7. ASSUME NEW p \in Processes, PinRef(p) PROVE [LabelStore!LabelNext]_(LabelStore!labelVars)
  <2>1. task[p].label \in Labels /\ task[p].commit \in Commits
    BY <1>6, <1>7 DEF PinRef
  <2> QED
    BY <1>5, <1>7, <2>1 DEF PinRef, Pinnable
<1>8. ASSUME NEW p \in Processes, PinFails(p) PROVE [LabelStore!LabelNext]_(LabelStore!labelVars)
  <2>1. task[p].label \in Labels /\ task[p].commit \in Commits
    BY <1>6, <1>8 DEF PinFails
  <2>2. CASE snapshot' = snapshot
    BY <1>2, <1>8, <2>2 DEF PinFails
  <2>3. CASE snapshot' = [snapshot EXCEPT ![task[p].label] = task[p].commit]
    <3>1. snapshot'[task[p].label] = task[p].commit
      BY <1>1, <2>1, <2>3 DEF CacheTypes
    <3> QED
      BY <1>5, <1>8, <2>1, <2>3, <3>1 DEF PinFails, Pinnable
  <2> QED
    BY <1>8, <2>2, <2>3 DEF PinFails
<1>9. ASSUME NEW p \in Processes,
             \/ AlreadyHeld(p) \/ PinOld(p) \/ PullFails(p) \/ Choose(p) \/ Refuse(p) \/ Measure(p)
             \/ Publish(p) \/ QuotaExceeded(p) \/ Die(p)
      PROVE  UNCHANGED <<remote, holdNew, snapshot>>
  BY <1>9 DEF AlreadyHeld, PinOld, PullFails, Choose, Refuse, Measure, Publish, QuotaExceeded, Die, refVars
<1>10. ASSUME NEW p \in Processes, NEW op, NEW l, NEW c, Enter(p, op, l, c)
       PROVE  UNCHANGED <<remote, holdNew, snapshot>>
  BY <1>10 DEF Enter, refVars
<1>11. ASSUME NEW p \in Processes, Pull(p) \/ PullTimesOut(p)
       PROVE  [LabelStore!LabelNext]_(LabelStore!labelVars)
  BY <1>4, <1>11 DEF Pull, PullTimesOut
<1>12. CASE UNCHANGED cacheVars
  BY <1>2, <1>12 DEF cacheVars
<1> QED
  BY <1>2, <1>3, <1>7, <1>8, <1>9, <1>10, <1>11, <1>12 DEF CacheNext, CallStep

\* The collector implements the labels its users rely on: each is held and
\* pinned at most once, at a commit that was the tip, and never moves.
THEOREM CollectorImplementsLabels == CacheSpec => ImplementsLabels
<1>1. CacheInit => LabelStore!LabelInit
  BY DEF CacheInit, LabelStore!LabelInit, LabelStore!Repositories, Repositories
<1> QED
  BY <1>1, LabelStep, CacheIsSound, PTL DEF CacheSpec, ImplementsLabels, LabelStore!LabelSpec
=============================================================================
