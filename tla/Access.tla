------------------------------- MODULE Access -------------------------------
(***************************************************************************)
(* What the endpoints show to whom, computed from the state of Membership. *)
(* Every endpoint decides by queries of its own, some on the live rows of  *)
(* members and group_admins, some on the role an account was registered    *)
(* with; removal is soft, and the queries disagree about whether a removed *)
(* member still counts. Each definition is the answer of one endpoint or   *)
(* guard in one state; contributions are named by their purse and owner.   *)
(***************************************************************************)
EXTENDS Membership

CONSTANT AdminRole \* users registered with the role group_admin (the JWT's role)

ASSUME RoleAssumption == AdminRole \subseteq Users /\ IsFiniteSet(Users)

-----------------------------------------------------------------------------
(* Identities and guards                                                   *)

\* "At least one, somewhere."
HasAdminIdentity(u) == \E g \in Groups : <<u, g>> \in Admins

HasMemberIdentity(u) == \E g \in Groups : member[u][g].state = "active"

\* The authorization of every group-scoped endpoint of an admin.
Administers(u, g) == <<u, g>> \in Admins

MemberOfActive(u, g) == member[u][g].state = "active" \* mutant: a removed member is a stranger

\* The membership query of the purse endpoints: removed rows are found too.
MemberOf(u, g) == Belongs(u, g)

\* The contribution is the user's own, as a member or as an admin.
Owns(u, p) == <<p, u>> \in row \cup adminRow

-----------------------------------------------------------------------------
(* What a person is shown of a purse                                       *)

\* GET /purses/{id}
MayOpen(u, p) ==
    LET g == purse[p].group IN
    \/ Administers(u, g)
    \/ MemberOf(u, g) /\ <<p, u>> \in row

\* GET /contributions/{id}: the role decides which ownership is looked at.
MayRead(u, p, owner) ==
    IF u \in AdminRole THEN Administers(u, purse[p].group)
                       ELSE u = owner /\ <<p, owner>> \in row

\* GET /contributions/{id}/history
MayReadHistory(u, p, owner) == MayRead(u, p, owner)

\* mark-manual and resolve-flag: both the role and the group's admin.
MaySettle(u, p) == u \in AdminRole /\ Administers(u, purse[p].group)

\* GET /purses/{id}/member-contributions: the whole purse, to any member.
MayWatch(u, p) == HasMemberIdentity(u) /\ MemberOf(u, purse[p].group)

\* GET /purses/{id}/contributions
MayList(u, p) == HasAdminIdentity(u) /\ Administers(u, purse[p].group)

-----------------------------------------------------------------------------
(* Lists                                                                   *)

Created == {p \in Purses : purse[p].status # "absent"}

\* GET /members/me/purses, for all groups or narrowed to one.
OwnPurses(u) == {p \in Purses : <<p, u>> \in row}

MyPurses(u, g) ==
    {p \in OwnPurses(u) : HasMemberIdentity(u) /\ g \in {None, purse[p].group}}

\* GET /purses: an admin gets the group's purses; a member those of the
\* membership joined last (latest), whichever group was asked for.
PursesListed(u, g, latest) ==
    IF Administers(u, g) THEN {p \in Created : purse[p].group = g}
    ELSE {p \in OwnPurses(u) : MemberOf(u, g) /\ purse[p].group = latest}

\* The group admin's member list and counts take the removed members in ...
MembersListed(g) == {u \in Users : Belongs(u, g)}

\* ... the platform admin's do not, nor do the analytics.
MembersCounted(g) == {u \in Users : member[u][g].state = "active"}

\* GET /members/me/groups and the unified switcher of GET /auth/me/groups.
MemberGroups(u) == {g \in Groups : Belongs(u, g)}

SwitcherGroups(u) == {g \in Groups : Administers(u, g) \/ member[u][g].state = "active"}

\* The purses of a group, as its admin's and the platform's overviews count.
PursesCounted(g) == {p \in Created : purse[p].group = g}

\* GET /group-admins/me
DashboardCounts(g) ==
    [members |-> Cardinality(MembersListed(g)), purses |-> Cardinality(PursesCounted(g))]

\* The platform admin's detail of a group: its member count and the admin shown
\* (None when nobody administers it, any one when several do).
GroupDetail(g) ==
    [members |-> Cardinality(MembersCounted(g)),
     purses  |-> Cardinality(PursesCounted(g)),
     admins  |-> IF \E u \in Users : Administers(u, g) THEN {u \in Users : Administers(u, g)} ELSE {None}]

-----------------------------------------------------------------------------
(* Properties                                                              *)

\* Whoever owes to a purse can open it, read the contribution and its history
\* (with the role of a member), is among the members its admin is shown, and
\* finds it listed while the membership is active; also after the member was
\* removed, the purse closed, the cohort edited ("payment/contribution history
\* is completely untouched", remove_member). Conversely only an owner or an
\* admin can open a purse, and no overview counts fewer members than the
\* group's purses have owners, but for the removed ones on the platform's side.
\* To be shown a contribution is not to be given its invoice: that takes a
\* verified address, an open purse, a deadline ahead and an unresolved row too.
WhoeverOwesMayFollow ==
    /\ \A p \in Purses, u \in Users : <<p, u>> \in row =>
          /\ MayOpen(u, p)
          /\ u \notin AdminRole => MayRead(u, p, u) /\ MayReadHistory(u, p, u)
          /\ u \in MembersListed(purse[p].group)
          /\ u \in MembersCounted(purse[p].group) =>
                /\ p \in MyPurses(u, purse[p].group)
                /\ MayWatch(u, p)
                /\ purse[p].group \in SwitcherGroups(u) \cap MemberGroups(u)
          /\ p \in PursesListed(u, purse[p].group, purse[p].group)
    /\ \A p \in Purses, u \in Users : <<p, u>> \in adminRow =>
          MayOpen(u, p) /\ MayList(u, p) /\ p \in PursesCounted(purse[p].group)
    /\ \A p \in Created, u \in Users : MayOpen(u, p) => Owns(u, p) \/ Administers(u, purse[p].group)
    /\ \A p \in Created, u \in Users : MaySettle(u, p) => MayList(u, p)
    /\ \A p \in Created :
          LET g == purse[p].group
              owners == {u \in Users : <<p, u>> \in row}
          IN  /\ Cardinality(owners) <= DashboardCounts(g).members
              /\ Cardinality({u \in owners : member[u][g].state = "active"}) <= GroupDetail(g).members
              /\ DashboardCounts(g).purses = GroupDetail(g).purses
              /\ {u \in Users : <<p, u>> \in adminRow} \subseteq GroupDetail(g).admins
=============================================================================
