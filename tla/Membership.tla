----------------------------- MODULE Membership -----------------------------
(***************************************************************************)
(* Who belongs to a group and who owes to its purses: invites, joins, the  *)
(* creation of a purse (under an idempotency key or without one), members  *)
(* added to a purse or removed from their group, edits of the group's      *)
(* cohort.                                                                 *)
(*                                                                         *)
(* A member is put on a purse by whichever comes second: the join looks    *)
(* for purses that enrol latecomers, the creation of a purse looks for     *)
(* members. Both commit what they make before they look for the other, and *)
(* insert what they found in one batch that a duplicate aborts as a whole. *)
(*                                                                         *)
(* Transactions are READ COMMITTED and short: each commit is a step, and   *)
(* so is each read whose result is used after somebody else's commit.      *)
(* Groups and their admins are given: no handler deactivates an admin, and *)
(* onboarding makes a group of its own. Removal is soft.                   *)
(***************************************************************************)
EXTENDS Integers, FiniteSets

CONSTANTS
    Groups,       \* groups
    Users,        \* persons
    Registered,   \* those with an account before they join a group here
    Admins,       \* group_admins: pairs of an active admin and the group
    Cohorts,      \* cohorts
    Purses,       \* purses that can be created (bound)
    AutoPurses,   \* those created with enroll_mode auto_enroll
    Invites,      \* invite links that can be created (bound)
    MaxUses,      \* the number of joins each invite is good for (0: any)
    PurseInvites, \* the invites that are scoped to a purse
    Keys,         \* idempotency keys
    Requests,     \* requests that can be open at the same time
    MaxEdits,     \* bound on the edits of a cohort
    Handlers,     \* which of the optional operations are used (bound)
    None          \* no cohort, no purse, no key

ASSUME NamesAssumption ==
    /\ Admins \subseteq Registered \X Groups
    /\ Registered \subseteq Users
    /\ AutoPurses \subseteq Purses
    /\ PurseInvites \subseteq Invites
    /\ None \notin Users \cup Groups \cup Cohorts \cup Purses \cup Invites \cup Keys
    /\ Purses \cap {"free", "pending"} = {}

ASSUME BoundsAssumption ==
    /\ MaxUses \in [Invites -> Nat]
    /\ MaxEdits \in Nat
    /\ Handlers \subseteq {"add", "remove", "close", "revoke", "restart"}

VARIABLES
    registered, \* users
    cohort,     \* groups.cohort
    member,     \* members: active, removed or no row, and the cohort
    invite,     \* invite_links
    purse,      \* purses
    row,        \* contributions: the pairs of a purse and a member
    adminRow,   \* contributions: the pairs of a purse and a group admin
    key,        \* idempotency:<key>: free, pending, or the purse of the answer
    req,        \* the open requests
    edits,      \* counts the edits of a cohort
    admitted,   \* history: members who joined through each invite
    raced,      \* history: invites with overlapping joins, or one cut short
    drifted,    \* history: members who joined while the cohort was edited, or
                \* were moved by an edit that did not write its group
    dropped,    \* history: users and purses whose enrolment was cut short
    made,       \* history: purses created under each key
    freed       \* history: keys given up while or after they were used

dbVars      == <<registered, cohort, member, invite, purse, row, adminRow>>
historyVars == <<admitted, raced, drifted, dropped, made, freed>>
vars == <<dbVars, key, req, edits, historyVars>>

-----------------------------------------------------------------------------
(* Types                                                                   *)

MemberRow == [state: {"none", "active", "removed"}, cohort: Cohorts \cup {None}]

InviteRow == [state: {"absent", "live", "expired"}, revoked: BOOLEAN, used: Nat,
              group: Groups \cup {None}, purse: Purses \cup {None}]

PurseRow == [status: {"absent", "open", "closed"}, group: Groups \cup {None},
             cohort: Cohorts \cup {None}]

Request ==
    [pc: {"idle", "register", "admit", "redeem", "look", "skip", "enrol", "invited", "ensure",
          "answer", "create", "commit", "sweep", "insert", "complete", "release",
          "add", "load", "edit"},
     user: Users \cup {None}, group: Groups \cup {None}, invite: Invites \cup {None},
     purse: Purses \cup {None}, key: Keys \cup {None}, cohort: Cohorts \cup {None},
     read: Cohorts \cup {None}, seen: Nat, purses: SUBSET Purses, people: SUBSET Users]

Closed == [pc |-> "idle", user |-> None, group |-> None, invite |-> None,
           purse |-> None, key |-> None, cohort |-> None, read |-> None, seen |-> 0,
           purses |-> {}, people |-> {}]

TypeOK ==
    /\ registered \in SUBSET Users
    /\ cohort \in [Groups -> Cohorts \cup {None}]
    /\ member \in [Users -> [Groups -> MemberRow]]
    /\ invite \in [Invites -> InviteRow]
    /\ purse \in [Purses -> PurseRow]
    /\ row \in SUBSET (Purses \X Users)
    /\ adminRow \in SUBSET (Purses \X Users)
    /\ key \in [Keys -> {"free", "pending"} \cup Purses]
    /\ req \in [Requests -> Request]
    /\ edits \in Nat
    /\ admitted \in [Invites -> Nat]
    /\ raced \in SUBSET Invites
    /\ drifted \in SUBSET (Users \X Groups)
    /\ dropped \in SUBSET (Users \cup Purses)
    /\ made \in [Keys -> Nat]
    /\ freed \in SUBSET Keys

-----------------------------------------------------------------------------
(* Helpers                                                                 *)

Open(r, q) ==
    /\ req[r].pc = "idle"
    /\ req' = [req EXCEPT ![r] = q]

Finish(r) == req' = [req EXCEPT ![r] = Closed]

Belongs(u, g) == member[u][g].state # "none"

ExhaustedLate(i) == \* mutant: one use too many
    \/ invite[i].state = "expired"
    \/ invite[i].revoked
    \/ MaxUses[i] # 0 /\ invite[i].used > MaxUses[i]

\* Expired, revoked, or used up: what _is_exhausted finds in a fresh row.
Exhausted(i) ==
    \/ invite[i].state = "expired"
    \/ invite[i].revoked
    \/ MaxUses[i] # 0 /\ invite[i].used >= MaxUses[i]

\* A purse without a cohort takes everybody, a member without one fits all.
Fits(purseCohort, memberCohort) ==
    \/ purseCohort = None
    \/ purseCohort = memberCohort
    \/ memberCohort = None

\* The joins through an invite that have not counted themselves yet.
JoinsBy(i) == {r \in Requests : req[r].pc \in {"register", "admit", "redeem"} /\ req[r].invite = i}

Joining(u, g) ==
    \E r \in Requests :
        /\ req[r].pc \in {"redeem", "look", "skip", "enrol"}
        /\ req[r].user = u
        /\ req[r].group = g

Enrolling(p) ==
    \E r \in Requests : req[r].pc \in {"sweep", "insert"} /\ req[r].purse = p

-----------------------------------------------------------------------------
Init ==
    /\ registered = Registered
    /\ cohort = [g \in Groups |-> None]
    /\ member = [u \in Users |-> [g \in Groups |-> [state |-> "none", cohort |-> None]]]
    /\ invite = [i \in Invites |-> [state |-> "absent", revoked |-> FALSE, used |-> 0,
                                    group |-> None, purse |-> None]]
    /\ purse = [p \in Purses |-> [status |-> "absent", group |-> None, cohort |-> None]]
    /\ row = {}
    /\ adminRow = {}
    /\ key = [k \in Keys |-> "free"]
    /\ req = [r \in Requests |-> Closed]
    /\ edits = 0
    /\ admitted = [i \in Invites |-> 0]
    /\ raced = {}
    /\ drifted = {}
    /\ dropped = {}
    /\ made = [k \in Keys |-> 0]
    /\ freed = {}

-----------------------------------------------------------------------------
(* Invite links                                                            *)

CreateInvite(i, g, p) ==
    /\ invite[i].state = "absent"
    /\ IF i \in PurseInvites
          THEN p \in Purses /\ purse[p].status = "open" /\ purse[p].group = g
          ELSE p = None
    /\ invite' = [invite EXCEPT ![i] = [@ EXCEPT !.state = "live", !.group = g, !.purse = p]]
    /\ UNCHANGED <<registered, cohort, member, purse, row, adminRow, key, req, edits, historyVars>>

RevokeInvite(i) ==
    /\ "revoke" \in Handlers
    /\ invite[i].state # "absent"
    /\ ~invite[i].revoked
    /\ invite' = [invite EXCEPT ![i].revoked = TRUE]
    /\ UNCHANGED <<registered, cohort, member, purse, row, adminRow, key, req, edits, historyVars>>

InviteExpires(i) ==
    /\ invite[i].state = "live"
    /\ invite' = [invite EXCEPT ![i].state = "expired"]
    /\ UNCHANGED <<registered, cohort, member, purse, row, adminRow, key, req, edits, historyVars>>

-----------------------------------------------------------------------------
(* Joining                                                                 *)

\* The invite and the group stay in the session as they are read here; a
\* person without an account will register one.
Resolve(r, u, i) ==
    LET g == invite[i].group IN
    /\ invite[i].state # "absent"
    /\ ~Exhausted(i)
    /\ Open(r, [Closed EXCEPT !.pc = IF u \in registered THEN "admit" ELSE "register",
                              !.user = u, !.group = g, !.invite = i,
                              !.cohort = cohort[g], !.seen = invite[i].used])
    /\ raced' = IF JoinsBy(i) = {} THEN raced ELSE raced \cup {i}
    /\ UNCHANGED <<dbVars, key, edits, admitted, drifted, dropped, made, freed>>

\* An address nobody has registered.
Join(r, u, i) ==
    /\ u \notin registered
    /\ Resolve(r, u, i)

\* An account that has no row in the group (not even a removed one), and does
\* not administer it.
JoinAdditionalGroup(r, u, i) ==
    /\ u \in registered
    /\ invite[i].state # "absent"
    /\ ~Belongs(u, invite[i].group)
    /\ <<u, invite[i].group>> \notin Admins
    /\ Resolve(r, u, i)

\* The address of a user and the member's row of a group are unique.
Taken(q) ==
    \/ q.pc = "register" /\ q.user \in registered
    \/ Belongs(q.user, q.group)

\* The user's and the member's rows, in one commit.
JoinCommit(r) ==
    LET q == req[r]
        g == q.group
    IN
    /\ q.pc \in {"register", "admit"}
    /\ IF Taken(q)
          THEN /\ Finish(r)
               /\ UNCHANGED <<registered, member, admitted, drifted>>
          ELSE /\ registered' = registered \cup {q.user}
               /\ member' = [member EXCEPT ![q.user][g] = [state |-> "active", cohort |-> q.cohort]]
               /\ admitted' = [admitted EXCEPT ![q.invite] = @ + 1]
               /\ drifted' = IF q.cohort = cohort[g] /\ \A s \in Requests : ~(req[s].pc = "edit" /\ req[s].group = g)
                                THEN drifted ELSE drifted \cup {<<q.user, g>>}
               /\ req' = [req EXCEPT ![r].pc = "redeem"]
    /\ UNCHANGED <<cohort, invite, purse, row, adminRow, key, edits, raced, dropped, made, freed>>

RedeemUncounted(r) == \* mutant: a counter that starts at -1
    LET q == req[r] IN
    /\ q.pc = "redeem"
    /\ invite' = [invite EXCEPT ![q.invite].used = q.seen - 1]
    /\ req' = [req EXCEPT ![r].pc = "look"]
    /\ UNCHANGED <<registered, cohort, member, purse, row, adminRow, key, edits, historyVars>>

\* The session still holds the row that was read first: only the clock can
\* make it exhausted now, and the count written is the one seen plus one.
Redeem(r) ==
    LET q == req[r] IN
    /\ q.pc = "redeem"
    /\ IF invite[q.invite].state = "expired"
          THEN /\ Finish(r)
               /\ raced' = raced \cup {q.invite}
               /\ dropped' = dropped \cup {q.user}
               /\ UNCHANGED invite
          ELSE /\ invite' = [invite EXCEPT ![q.invite].used = q.seen + 1]
               /\ req' = [req EXCEPT ![r].pc = "look", ![r].seen = 0,
                                     ![r].cohort = member[q.user][q.group].cohort,
                                     ![r].purse = invite[q.invite].purse, ![r].invite = None]
               /\ UNCHANGED <<raced, dropped>>
    /\ UNCHANGED <<registered, cohort, member, purse, row, adminRow, key, edits,
                   admitted, drifted, made, freed>>

\* generate_for_new_member: the purses, the rows there are, the batch.
LookForPursesStrict(r) == \* mutant: a member without a cohort fits no purse that has one
    LET q == req[r] IN
    /\ q.pc = "look"
    /\ req' = [req EXCEPT ![r].pc = "skip",
                          ![r].purses = {p \in AutoPurses : /\ purse[p].status = "open"
                                                            /\ purse[p].group = q.group
                                                            /\ purse[p].cohort \in {None, q.cohort}}]
    /\ UNCHANGED <<dbVars, key, edits, historyVars>>

LookForPurses(r) ==
    LET q == req[r] IN
    /\ q.pc = "look"
    /\ req' = [req EXCEPT ![r].pc = "skip",
                          ![r].purses = {p \in AutoPurses : /\ purse[p].status = "open"
                                                            /\ purse[p].group = q.group
                                                            /\ Fits(purse[p].cohort, q.cohort)}]
    /\ UNCHANGED <<dbVars, key, edits, historyVars>>

SkipEnrolled(r) ==
    LET q == req[r] IN
    /\ q.pc = "skip"
    /\ req' = [req EXCEPT ![r].pc = "enrol", ![r].cohort = None,
                          ![r].purses = {p \in @ : <<p, q.user>> \notin row}]
    /\ UNCHANGED <<dbVars, key, edits, historyVars>>

EnrolNewMember(r) ==
    LET q == req[r]
        batch == q.purses \X {q.user}
    IN
    /\ q.pc = "enrol"
    /\ IF batch \cap row # {}
          THEN Finish(r) /\ dropped' = dropped \cup {q.user} /\ UNCHANGED row
          ELSE /\ row' = row \cup batch
               /\ IF q.purse = None THEN Finish(r) ELSE req' = [req EXCEPT ![r].pc = "invited", ![r].purses = {}]
               /\ UNCHANGED dropped
    /\ UNCHANGED <<registered, cohort, member, invite, purse, adminRow, key, edits,
                   admitted, raced, drifted, made, freed>>

\* ensure_for_invited_purse: the purse of the invite, whatever its mode.
LookForInvited(r) ==
    LET q == req[r] IN
    /\ q.pc = "invited"
    /\ IF purse[q.purse].status = "open" /\ <<q.purse, q.user>> \notin row
          THEN req' = [req EXCEPT ![r].pc = "ensure"]
          ELSE Finish(r)
    /\ UNCHANGED <<dbVars, key, edits, historyVars>>

\* A duplicate row is refused by its unique constraint: the request fails.
EnrolOne(r) ==
    LET q == req[r] IN
    /\ q.pc \in {"ensure", "add"}
    /\ row' = row \cup {<<q.purse, q.user>>}
    /\ Finish(r)
    /\ UNCHANGED <<registered, cohort, member, invite, purse, adminRow, key, edits, historyVars>>

-----------------------------------------------------------------------------
(* Creating a purse                                                        *)

CreatePurse(r, g, k) ==
    /\ \E u \in Users : <<u, g>> \in Admins
    /\ Open(r, [Closed EXCEPT !.pc = IF k = None THEN "create" ELSE "answer", !.group = g, !.key = k])
    /\ UNCHANGED <<dbVars, key, edits, historyVars>>

\* SET NX and, when the key is taken, GET: a pending key is a conflict, and a
\* completed one is answered again.
BeginAnyway(r) == \* mutant: a pending key does not stop the request
    LET q == req[r] IN
    /\ q.pc = "answer"
    /\ IF key[q.key] \in {"free", "pending"}
          THEN /\ key' = [key EXCEPT ![q.key] = "pending"]
               /\ req' = [req EXCEPT ![r].pc = "create"]
          ELSE /\ Finish(r)
               /\ UNCHANGED key
    /\ UNCHANGED <<dbVars, edits, historyVars>>

Begin(r) ==
    LET q == req[r] IN
    /\ q.pc = "answer"
    /\ IF key[q.key] = "free"
          THEN /\ key' = [key EXCEPT ![q.key] = "pending"]
               /\ req' = [req EXCEPT ![r].pc = "create"]
          ELSE /\ Finish(r)
               /\ UNCHANGED key
    /\ UNCHANGED <<dbVars, edits, historyVars>>

\* The key expired between SET NX and GET: the request goes on without one.
BeginUnreserved(r) ==
    /\ req[r].pc = "answer"
    /\ key[req[r].key] = "free"
    /\ req[r].key \in freed
    /\ req' = [req EXCEPT ![r].pc = "create"]
    /\ UNCHANGED <<dbVars, key, edits, historyVars>>

\* Without a settlement account for the group the request is refused.
ReadGroup(r) ==
    /\ req[r].pc = "create"
    /\ req' = [req EXCEPT ![r].pc = "commit", ![r].cohort = cohort[req[r].group]]
    /\ UNCHANGED <<dbVars, key, edits, historyVars>>

CommitPurse(r, p) ==
    LET q == req[r] IN
    /\ q.pc = "commit"
    /\ purse[p].status = "absent"
    /\ purse' = [purse EXCEPT ![p] = [status |-> "open", group |-> q.group, cohort |-> q.cohort]]
    /\ made' = [k \in Keys |-> IF k = q.key THEN made[k] + 1 ELSE made[k]]
    /\ req' = [req EXCEPT ![r].pc = "sweep", ![r].purse = p]
    /\ UNCHANGED <<registered, cohort, member, invite, row, adminRow, key, edits,
                   admitted, raced, drifted, dropped, freed>>

\* Every member of the group, the removed ones too.
FindMembers(r) ==
    LET q == req[r] IN
    /\ q.pc = "sweep"
    /\ req' = [req EXCEPT ![r].pc = "insert",
                          ![r].people = {u \in Users : /\ Belongs(u, q.group)
                                                       /\ Fits(q.cohort, member[u][q.group].cohort)}]
    /\ UNCHANGED <<dbVars, key, edits, historyVars>>

\* Members and admins in one batch; a duplicate fails all of it, and the
\* request, but not the purse.
EnrolMembers(r) ==
    LET q == req[r]
        batch == {q.purse} \X q.people
    IN
    /\ q.pc = "insert"
    /\ IF batch \cap row # {}
          THEN /\ dropped' = dropped \cup {q.purse}
               /\ req' = [req EXCEPT ![r] = IF q.key = None THEN Closed
                                            ELSE [Closed EXCEPT !.pc = "release", !.key = q.key]]
               /\ UNCHANGED <<row, adminRow>>
          ELSE /\ row' = row \cup batch
               /\ adminRow' = adminRow \cup {<<q.purse, u>> : u \in {v \in Users : <<v, q.group>> \in Admins}}
               /\ req' = [req EXCEPT ![r] = IF q.key = None THEN Closed
                                            ELSE [Closed EXCEPT !.pc = "complete", !.key = q.key, !.purse = q.purse]]
               /\ UNCHANGED dropped
    /\ UNCHANGED <<registered, cohort, member, invite, purse, key, edits,
                   admitted, raced, drifted, made, freed>>

Complete(r) ==
    /\ req[r].pc = "complete"
    /\ key' = [key EXCEPT ![req[r].key] = req[r].purse]
    /\ Finish(r)
    /\ UNCHANGED <<dbVars, edits, historyVars>>

Release(r) ==
    /\ req[r].pc = "release"
    /\ key' = [key EXCEPT ![req[r].key] = "free"]
    /\ freed' = freed \cup {req[r].key}
    /\ Finish(r)
    /\ UNCHANGED <<dbVars, edits, admitted, raced, drifted, dropped, made>>

KeyExpires(k) ==
    /\ key[k] # "free"
    /\ key' = [key EXCEPT ![k] = "free"]
    /\ freed' = freed \cup {k}
    /\ UNCHANGED <<dbVars, req, edits, admitted, raced, drifted, dropped, made>>

-----------------------------------------------------------------------------
(* Purses and members afterwards                                           *)

\* A member who joined while it was closed is not on it when it reopens.
ClosePurse(p) ==
    /\ "close" \in Handlers
    /\ purse[p].status = "open"
    /\ purse' = [purse EXCEPT ![p].status = "closed"]
    /\ dropped' = dropped \cup {p}
    /\ UNCHANGED <<registered, cohort, member, invite, row, adminRow, key, req, edits,
                   admitted, raced, drifted, made, freed>>

ReopenPurse(p) ==
    /\ purse[p].status = "closed"
    /\ purse' = [purse EXCEPT ![p].status = "open"]
    /\ UNCHANGED <<registered, cohort, member, invite, row, adminRow, key, req, edits, historyVars>>

\* The one way onto a purse by hand: here a member without a cohort does not
\* fit a purse that has one.
AddMember(r, p, u) ==
    LET g == purse[p].group IN
    /\ "add" \in Handlers
    /\ purse[p].status = "open"
    /\ Belongs(u, g)
    /\ purse[p].cohort \in {None, member[u][g].cohort}
    /\ <<p, u>> \notin row
    /\ Open(r, [Closed EXCEPT !.pc = "add", !.purse = p, !.user = u])
    /\ UNCHANGED <<dbVars, key, edits, historyVars>>

RemoveMember(u, g) ==
    /\ "remove" \in Handlers
    /\ member[u][g].state = "active"
    /\ member' = [member EXCEPT ![u][g].state = "removed"]
    /\ UNCHANGED <<registered, cohort, invite, purse, row, adminRow, key, req, edits, historyVars>>

\* The edit reads the group ...
EditCohort(r, g, c) ==
    /\ edits < MaxEdits
    /\ Open(r, [Closed EXCEPT !.pc = "load", !.group = g, !.cohort = c, !.read = cohort[g]])
    /\ edits' = edits + 1
    /\ UNCHANGED <<dbVars, key, historyVars>>

SelectSome(r) == \* mutant: only members of a cohort are moved
    LET q == req[r] IN
    /\ q.pc = "load"
    /\ req' = [req EXCEPT ![r].pc = "edit",
                          ![r].people = {u \in Users : /\ member[u][q.group].state = "active"
                                                       /\ member[u][q.group].cohort # None}]
    /\ UNCHANGED <<dbVars, key, edits, historyVars>>

\* ... its UPDATE of the members takes those there are when it starts, and may
\* wait for row locks of another edit or of a removal ...
SelectMembers(r) ==
    LET q == req[r] IN
    /\ q.pc = "load"
    /\ req' = [req EXCEPT ![r].pc = "edit",
                          ![r].people = {u \in Users : member[u][q.group].state = "active"}]
    /\ UNCHANGED <<dbVars, key, edits, historyVars>>

\* SQLAlchemy writes a column only if it was changed from what was read.
Resubmits(q) == q.cohort = q.read

\* ... moves those still active, and commits. Its row locks last until then: no
\* other edit of these members and no removal comes between. An edit that
\* submits the cohort it read leaves in the group what another edit has written
\* since. Members moved into the cohort of an older purse are not put on it.
EditCohortCommit(r) ==
    LET q == req[r]
        stale == Resubmits(q) /\ cohort[q.group] # q.cohort
    IN
    /\ q.pc = "edit"
    /\ cohort' = IF Resubmits(q) THEN cohort ELSE [cohort EXCEPT ![q.group] = q.cohort]
    /\ member' = [u \in Users |-> [g \in Groups |->
                    IF g = q.group /\ u \in q.people /\ member[u][g].state = "active"
                    THEN [member[u][g] EXCEPT !.cohort = q.cohort] ELSE member[u][g]]]
    /\ drifted' = IF stale THEN drifted \cup (q.people \X {q.group}) ELSE drifted
    /\ dropped' = dropped \cup {p \in Purses : purse[p].group = q.group /\ purse[p].cohort = q.cohort}
    /\ Finish(r)
    /\ UNCHANGED <<registered, invite, purse, row, adminRow, key, edits,
                   admitted, raced, made, freed>>

-----------------------------------------------------------------------------
\* A restart of the server: open transactions roll back, Redis keeps its keys.
Crash ==
    /\ "restart" \in Handlers
    /\ \E r \in Requests : req[r].pc # "idle"
    /\ raced' = raced \cup {i \in Invites : JoinsBy(i) # {}}
    /\ dropped' = dropped \cup {u \in Users : \E g \in Groups : Joining(u, g)}
                          \cup {p \in Purses : Enrolling(p)}
    /\ req' = [r \in Requests |-> Closed]
    /\ UNCHANGED <<dbVars, key, edits, admitted, drifted, made, freed>>

Step(r) ==
    \/ JoinCommit(r)
    \/ Redeem(r)
    \/ LookForPurses(r)
    \/ SkipEnrolled(r)
    \/ EnrolNewMember(r)
    \/ LookForInvited(r)
    \/ EnrolOne(r)
    \/ Begin(r)
    \/ BeginUnreserved(r)
    \/ ReadGroup(r)
    \/ \E p \in Purses : CommitPurse(r, p)
    \/ FindMembers(r)
    \/ EnrolMembers(r)
    \/ Complete(r)
    \/ Release(r)
    \/ SelectMembers(r)
    \/ EditCohortCommit(r)

Arrive(r) ==
    \/ \E u \in Users, i \in Invites : Join(r, u, i) \/ JoinAdditionalGroup(r, u, i)
    \/ \E g \in Groups, k \in Keys \cup {None} : CreatePurse(r, g, k)
    \/ \E p \in Purses, u \in Users : AddMember(r, p, u)
    \/ \E g \in Groups, c \in Cohorts : EditCohort(r, g, c)

Outside ==
    \/ \E i \in Invites, g \in Groups, p \in Purses \cup {None} : CreateInvite(i, g, p)
    \/ \E i \in Invites : RevokeInvite(i) \/ InviteExpires(i)
    \/ \E k \in Keys : KeyExpires(k)
    \/ \E p \in Purses : ClosePurse(p) \/ ReopenPurse(p)
    \/ \E u \in Users, g \in Groups : RemoveMember(u, g)
    \/ Crash

Next == (\E r \in Requests : Step(r) \/ Arrive(r)) \/ Outside

Spec == Init /\ [][Next]_vars

-----------------------------------------------------------------------------
(* Properties                                                              *)

\* An invite admits no more members than it is good for, as long as no two
\* joins through it overlap and none is cut short before it counts itself.
UseLimit ==
    \A i \in Invites \ raced : MaxUses[i] # 0 => admitted[i] <= MaxUses[i]

\* Whoever comes second enrols: a member of a group is on every purse of it
\* that enrols latecomers and fits the member, or a join or a creation that
\* will see to it is under way. Excused are members whose join and purses
\* whose creation was cut short (a restart, a duplicate in the batch, an
\* invite that expired under the join), purses that were ever closed, and
\* purses of a cohort that the group came back to.
NobodyIsForgotten ==
    \A p \in AutoPurses \ dropped, u \in Users \ dropped :
        LET g == purse[p].group IN
        (purse[p].status # "absent" /\ Belongs(u, g) /\ Fits(purse[p].cohort, member[u][g].cohort)) =>
            <<p, u>> \in row \/ Joining(u, g) \/ Enrolling(p)

\* update_group's docstring: a group's cohort and its members' "never drift
\* apart". They do in two cases: for a member whose join read the cohort before
\* an edit and committed after the edit had selected the members it moves; and
\* when an edit submits again the cohort it read while another edit changed it,
\* for then the members are moved back and the group is not. Every other
\* overlap of edits, joins and removals leaves them together.
CohortsAgree ==
    \A u \in Users, g \in Groups :
        (member[u][g].state = "active" /\ <<u, g>> \notin drifted) => member[u][g].cohort = cohort[g]

\* Retries of a request under one key create one purse, as long as the key is
\* neither released by a request that failed after it had committed its purse
\* nor expired.
OnePursePerKey == \A k \in Keys \ freed : made[k] <= 1
=============================================================================
