--------------------------- MODULE MCCredentials ---------------------------
(* A small instance of Credentials.  The three ways to a device do not share *)
(* rows, so the search follows them one at a time: logins and rotations of   *)
(* devices approved directly, activation codes, and passwords with claims.   *)
EXTENDS Credentials, TLC

Used(rows) == {x \in DOMAIN rows : rows[x].state # "absent"}
Logins == {s \in Sessions : session[s].status # "absent"}

NoPasswords ==
    checks = {} /\ Used(claim) = {} /\ \A st \in Students : password[st] = Fresh(NoPassword)

FewRows(n) == Cardinality(Used(activation)) + Cardinality(Used(claim)) + Cardinality(checks)
           + Cardinality(Used(device)) + Cardinality(Logins) <= n

Unrotated == \A s \in Sessions : family[s].rotations = 0

Focus ==
    \/ NoPasswords /\ Used(activation) = {}
    \/ NoPasswords /\ FewRows(4) /\ Unrotated /\ now <= 1
    \/ /\ Used(activation) = {} /\ FewRows(3) /\ Unrotated /\ now <= 1
       /\ Cardinality(checks) <= 1 \/ Used(device) \cup Used(claim) = {}

\* Which form a check belongs to makes no difference, but how many are alike does.
Alike(chk) == {other \in checks : [other EXCEPT !.form = chk.form] = chk}
MCView ==
    <<familyVars, now, enrolled, open, password, device, activation, claim, accepted,
      {<<chk.student, chk.read, chk.matches, Cardinality(Alike(chk))>> : chk \in checks}>>

MCSymmetry == Permutations(Sessions) \cup Permutations(Devices)
              \cup Permutations(Activations) \cup Permutations(Passwords)

Spec == CredentialInit /\ [][CredentialNext]_credentialVars
=============================================================================
