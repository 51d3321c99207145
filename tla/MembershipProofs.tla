--------------------------- MODULE MembershipProofs ---------------------------
(***************************************************************************)
(* Proofs about Membership and Access, for any number of users, purses,    *)
(* invites, keys and requests and any interleaving of their steps.         *)
(***************************************************************************)
EXTENDS Access, FiniteSetTheorems, TLAPS

-----------------------------------------------------------------------------
(* What a request holds at each of its steps                               *)

Holds(q) ==
    /\ q.pc \in {"register", "admit", "redeem", "look", "skip", "enrol", "invited", "ensure"} =>
          q.user \in Users /\ q.group \in Groups
    /\ q.pc \in {"register", "admit", "redeem"} => q.invite \in Invites
    /\ q.pc \in {"invited", "ensure"} => q.purse \in Purses
    /\ q.pc = "add" => q.user \in Users /\ q.purse \in Purses
    /\ q.pc \in {"answer", "create", "commit", "sweep", "insert", "load", "edit"} => q.group \in Groups
    /\ q.pc \in {"answer", "complete", "release"} => q.key \in Keys
    /\ q.pc \in {"sweep", "insert", "complete"} => q.purse \in Purses
    /\ q.pc \in {"load", "edit"} => q.cohort \in Cohorts

TInv ==
    /\ TypeOK
    /\ \A r \in Requests : Holds(req[r])
    /\ \A i \in Invites : invite[i].state # "absent" => invite[i].group \in Groups
    /\ \A p \in Purses : purse[p].status # "absent" => purse[p].group \in Groups

-----------------------------------------------------------------------------
(* Invites                                                                 *)

\* Of an invite whose joins do not overlap: the one join that is under way saw
\* the count that is still there, and only a join that has committed its
\* member and not yet counted it makes the two counts differ.
UseOf(i) ==
    /\ \A r, s \in JoinsBy(i) : r = s
    /\ \A r \in JoinsBy(i) : /\ req[r].seen = invite[i].used
                             /\ MaxUses[i] # 0 => req[r].seen < MaxUses[i]
    /\ (\A r \in JoinsBy(i) : req[r].pc # "redeem") => admitted[i] = invite[i].used
    /\ \A r \in JoinsBy(i) : req[r].pc = "redeem" => admitted[i] = invite[i].used + 1
    /\ MaxUses[i] # 0 => invite[i].used <= MaxUses[i]

UseInv == \A i \in Invites \ raced : UseOf(i)

-----------------------------------------------------------------------------
(* Keys                                                                    *)

\* The requests that have reserved the key and not yet answered under it.
Holders(k) == {r \in Requests :
                  /\ req[r].pc \in {"create", "commit", "sweep", "insert", "complete", "release"}
                  /\ req[r].key = k}

\* A key that was never given up has one holder at most, is free only while
\* nothing was made under it, and its holder makes a purse only once.
KeyInv ==
    \A k \in Keys \ freed :
        /\ \A r, s \in Holders(k) : r = s
        /\ \A r \in Holders(k) : key[k] # "free"
        /\ \A r \in Holders(k) : req[r].pc \in {"create", "commit"} => made[k] = 0
        /\ key[k] = "free" => made[k] = 0
        /\ made[k] <= 1

-----------------------------------------------------------------------------
(* Cohorts                                                                 *)

\* An edit under way moves every active member of the group but those who
\* joined since it selected them.
CohortInv ==
    /\ CohortsAgree
    /\ \A r \in Requests : req[r].pc = "edit" =>
          \A u \in Users :
              member[u][req[r].group].state = "active" /\ <<u, req[r].group>> \notin drifted =>
                  u \in req[r].people

-----------------------------------------------------------------------------
(* Enrolment                                                               *)

\* A join that will put the user on the purse, whatever it reads meanwhile ...
WillJoin(q, p, u) ==
    /\ q.user = u
    /\ q.group = purse[p].group
    /\ \/ q.pc = "redeem"
       \/ q.pc = "look" /\ Fits(purse[p].cohort, q.cohort)
       \/ q.pc \in {"skip", "enrol"} /\ p \in q.purses

\* ... and a creation that will.
WillSweep(q, p, u) ==
    /\ q.purse = p
    /\ \/ q.pc = "sweep"
       \/ q.pc = "insert" /\ u \in q.people

Will(q, p, u) == WillJoin(q, p, u) \/ WillSweep(q, p, u)

Owed(p, u) ==
    /\ purse[p].status # "absent"
    /\ Belongs(u, purse[p].group)
    /\ Fits(purse[p].cohort, member[u][purse[p].group].cohort)

\* What a creation found holds of its purse until the batch is in.
SweepsOwn(q) ==
    q.pc \in {"sweep", "insert"} => /\ purse[q.purse].status # "absent"
                                   /\ purse[q.purse].group = q.group
                                   /\ purse[q.purse].cohort = q.cohort

EnrolOf(p, u) ==
    Owed(p, u) => <<p, u>> \in row \/ \E r \in Requests : Will(req[r], p, u)

EnrolInv ==
    /\ \A p \in Purses : purse[p].status = "closed" => p \in dropped
    /\ \A r \in Requests : SweepsOwn(req[r])
    /\ \A p \in AutoPurses \ dropped, u \in Users \ dropped : EnrolOf(p, u)

-----------------------------------------------------------------------------
(* Rows                                                                    *)

\* The purse is there and is the group's.
Of(p, g) == purse[p].status # "absent" /\ purse[p].group = g

\* The user has a row in the group of the purse, removed or not.
May(p, u) == purse[p].status # "absent" /\ Belongs(u, purse[p].group)

\* What a request has read and will write is of its group.
OfGroup(q) ==
    /\ q.pc \in {"register", "admit", "redeem"} => /\ invite[q.invite].state # "absent"
                                                  /\ invite[q.invite].group = q.group
    /\ q.pc \in {"redeem", "look", "skip", "enrol", "invited", "ensure"} => Belongs(q.user, q.group)
    /\ q.pc \in {"skip", "enrol"} => \A p \in q.purses : Of(p, q.group)
    /\ q.pc \in {"look", "skip", "enrol", "invited", "ensure"} /\ q.purse # None => Of(q.purse, q.group)
    /\ q.pc = "add" => May(q.purse, q.user)
    /\ q.pc \in {"sweep", "insert"} => Of(q.purse, q.group)
    /\ q.pc = "insert" => \A u \in q.people : Belongs(u, q.group)

\* Rows, and the batches that will become rows, are of members of the group.
RowInv ==
    /\ \A p \in Purses, u \in Users : <<p, u>> \in row => May(p, u)
    /\ \A p \in Purses, u \in Users : <<p, u>> \in adminRow =>
          purse[p].status # "absent" /\ <<u, purse[p].group>> \in Admins
    /\ \A i \in Invites : invite[i].purse \in Purses => Of(invite[i].purse, invite[i].group)
    /\ \A r \in Requests : OfGroup(req[r])

-----------------------------------------------------------------------------
(* How a step changes its request                                          *)

Keeps(r) == \A s \in Requests \ {r} : req'[s] = req[s]

LEMMA ClosedIsTyped == Closed \in Request /\ Holds(Closed) /\ Closed.pc = "idle"
BY DEF Closed, Request, Holds

LEMMA ReqChanges ==
    ASSUME TInv, NEW r \in Requests, NEW q, req' = [req EXCEPT ![r] = q]
    PROVE  /\ req'[r] = q
           /\ Keeps(r)
           /\ q \in Request => req' \in [Requests -> Request]
BY DEF TInv, TypeOK, Keeps

LEMMA Finishes ==
    ASSUME TInv, NEW r \in Requests, Finish(r)
    PROVE  /\ req' \in [Requests -> Request]
           /\ req'[r] = Closed /\ req'[r].pc = "idle"
           /\ Keeps(r)
BY ClosedIsTyped, ReqChanges DEF Finish

LEMMA Opens ==
    ASSUME TInv, NEW r \in Requests, NEW q, Open(r, q)
    PROVE  /\ req[r].pc = "idle"
           /\ req'[r] = q
           /\ Keeps(r)
           /\ q \in Request => req' \in [Requests -> Request]
BY ReqChanges DEF Open

\* The fields of a request are of their types.
LEMMA Typed ==
    ASSUME TInv, NEW r \in Requests
    PROVE  req[r] \in Request /\ Holds(req[r])
BY DEF TInv, TypeOK

\* What LookForPurses and FindMembers find.
Latecomers(q) == {p \in AutoPurses : /\ purse[p].status = "open"
                                     /\ purse[p].group = q.group
                                     /\ Fits(purse[p].cohort, q.cohort)}

Found(q) == {u \in Users : Belongs(u, q.group) /\ Fits(q.cohort, member[u][q.group].cohort)}

\* What each step does to its request, field by field, and to the rest.
LEMMA Commits ==
    ASSUME TInv, NEW r \in Requests, JoinCommit(r), ~Taken(req[r])
    PROVE  /\ req[r].pc \in {"register", "admit"} /\ ~Belongs(req[r].user, req[r].group)
           /\ req' \in [Requests -> Request] /\ Keeps(r)
           /\ req'[r].pc = "redeem"
           /\ req'[r].user = req[r].user /\ req'[r].group = req[r].group /\ req'[r].key = req[r].key
           /\ req'[r].invite = req[r].invite /\ req'[r].purse = req[r].purse /\ req'[r].cohort = req[r].cohort
           /\ req'[r].seen = req[r].seen /\ req'[r].purses = req[r].purses /\ req'[r].people = req[r].people
           /\ registered' = registered \cup {req[r].user}
           /\ member' = [member EXCEPT ![req[r].user][req[r].group] = [state |-> "active", cohort |-> req[r].cohort]]
           /\ admitted' = [admitted EXCEPT ![req[r].invite] = @ + 1]
           /\ drifted' = IF req[r].cohort = cohort[req[r].group] /\ \A s \in Requests : ~(req[s].pc = "edit" /\ req[s].group = req[r].group)
                           THEN drifted ELSE drifted \cup {<<req[r].user, req[r].group>>}
           /\ UNCHANGED <<cohort, invite, purse, row, adminRow, key, edits, raced,
              dropped, made, freed>>
<1> DEFINE n == [req[r] EXCEPT !.pc = "redeem"]
<1>1. req' = [req EXCEPT ![r] = n]
  BY DEF JoinCommit, TInv, TypeOK
<1>2. /\ req[r].pc \in {"register", "admit"} /\ ~Belongs(req[r].user, req[r].group)
      /\ registered' = registered \cup {req[r].user}
      /\ member' = [member EXCEPT ![req[r].user][req[r].group] = [state |-> "active", cohort |-> req[r].cohort]]
      /\ admitted' = [admitted EXCEPT ![req[r].invite] = @ + 1]
      /\ drifted' = IF req[r].cohort = cohort[req[r].group] /\ \A s \in Requests : ~(req[s].pc = "edit" /\ req[s].group = req[r].group)
                           THEN drifted ELSE drifted \cup {<<req[r].user, req[r].group>>}
      /\ UNCHANGED <<cohort, invite, purse, row, adminRow, key, edits, raced, dropped,
         made, freed>>
  BY DEF JoinCommit, Taken
<1>4. /\ n \in Request
      /\ n.pc = "redeem"
      /\ n.user = req[r].user /\ n.group = req[r].group /\ n.key = req[r].key
      /\ n.invite = req[r].invite /\ n.purse = req[r].purse /\ n.cohort = req[r].cohort
      /\ n.seen = req[r].seen /\ n.purses = req[r].purses /\ n.people = req[r].people
  BY Typed DEF Request
<1>. HIDE DEF n
<1>5. QED
  BY <1>1, <1>2, <1>4, ReqChanges

LEMMA CommitsNot ==
    ASSUME TInv, NEW r \in Requests, JoinCommit(r), Taken(req[r])
    PROVE  /\ req[r].pc \in {"register", "admit"}
           /\ req' \in [Requests -> Request] /\ Keeps(r)
           /\ req'[r] = Closed
           /\ UNCHANGED <<dbVars, key, edits, historyVars>>
<1>1. /\ Finish(r)
      /\ req[r].pc \in {"register", "admit"}
      /\ UNCHANGED <<dbVars, key, edits, historyVars>>
  BY DEF JoinCommit, dbVars, historyVars
<1>2. QED
  BY <1>1, Finishes

LEMMA Redeems ==
    ASSUME TInv, NEW r \in Requests, Redeem(r),
           invite[req[r].invite].state # "expired"
    PROVE  /\ req[r].pc = "redeem"
           /\ req' \in [Requests -> Request] /\ Keeps(r)
           /\ req'[r].pc = "look"
           /\ req'[r].seen = 0
           /\ req'[r].cohort = member[req[r].user][req[r].group].cohort
           /\ req'[r].purse = invite[req[r].invite].purse
           /\ req'[r].invite = None
           /\ req'[r].user = req[r].user /\ req'[r].group = req[r].group /\ req'[r].key = req[r].key
           /\ req'[r].purses = req[r].purses /\ req'[r].people = req[r].people
           /\ invite' = [invite EXCEPT ![req[r].invite].used = req[r].seen + 1]
           /\ UNCHANGED <<registered, cohort, member, purse, row, adminRow, key,
              edits, historyVars>>
<1> DEFINE n == [req[r] EXCEPT !.pc = "look",
                              !.seen = 0,
                              !.cohort = member[req[r].user][req[r].group].cohort,
                              !.purse = invite[req[r].invite].purse,
                              !.invite = None]
<1>1. req' = [req EXCEPT ![r] = n]
  BY DEF Redeem, TInv, TypeOK
<1>2. /\ req[r].pc = "redeem"
      /\ invite' = [invite EXCEPT ![req[r].invite].used = req[r].seen + 1]
      /\ UNCHANGED <<registered, cohort, member, purse, row, adminRow, key, edits,
         historyVars>>
  BY DEF Redeem, historyVars
<1>3. /\ member[req[r].user][req[r].group].cohort \in Cohorts \cup {None}
      /\ invite[req[r].invite].purse \in Purses \cup {None}
  BY <1>2, Typed DEF TInv, TypeOK, Holds, Request, MemberRow, InviteRow
<1>4. /\ n \in Request
      /\ n.pc = "look"
      /\ n.seen = 0
      /\ n.cohort = member[req[r].user][req[r].group].cohort
      /\ n.purse = invite[req[r].invite].purse
      /\ n.invite = None
      /\ n.user = req[r].user /\ n.group = req[r].group /\ n.key = req[r].key
      /\ n.purses = req[r].purses /\ n.people = req[r].people
  BY Typed, <1>3 DEF Request
<1>. HIDE DEF n
<1>5. QED
  BY <1>1, <1>2, <1>4, ReqChanges

LEMMA RedeemsNot ==
    ASSUME TInv, NEW r \in Requests, Redeem(r),
           invite[req[r].invite].state = "expired"
    PROVE  /\ req[r].pc = "redeem"
           /\ req' \in [Requests -> Request] /\ Keeps(r)
           /\ req'[r] = Closed
           /\ raced' = raced \cup {req[r].invite}
           /\ dropped' = dropped \cup {req[r].user}
           /\ UNCHANGED <<dbVars, key, edits, admitted, drifted, made, freed>>
<1>1. /\ Finish(r)
      /\ req[r].pc = "redeem"
      /\ raced' = raced \cup {req[r].invite}
      /\ dropped' = dropped \cup {req[r].user}
      /\ UNCHANGED <<dbVars, key, edits, admitted, drifted, made, freed>>
  BY DEF Redeem, dbVars
<1>2. QED
  BY <1>1, Finishes

LEMMA Looks ==
    ASSUME TInv, NEW r \in Requests, LookForPurses(r)
    PROVE  /\ req[r].pc = "look"
           /\ req' \in [Requests -> Request] /\ Keeps(r)
           /\ req'[r].pc = "skip"
           /\ req'[r].purses = Latecomers(req[r])
           /\ req'[r].user = req[r].user /\ req'[r].group = req[r].group /\ req'[r].key = req[r].key
           /\ req'[r].invite = req[r].invite /\ req'[r].purse = req[r].purse /\ req'[r].cohort = req[r].cohort
           /\ req'[r].seen = req[r].seen /\ req'[r].people = req[r].people
           /\ UNCHANGED <<dbVars, key, edits, historyVars>>
<1> DEFINE n == [req[r] EXCEPT !.pc = "skip",
                              !.purses = Latecomers(req[r])]
<1>1. req' = [req EXCEPT ![r] = n]
  BY DEF LookForPurses, Latecomers, TInv, TypeOK
<1>2. /\ req[r].pc = "look"
      /\ UNCHANGED <<dbVars, key, edits, historyVars>>
  BY DEF LookForPurses, Latecomers
<1>3. Latecomers(req[r]) \in SUBSET Purses
  BY NamesAssumption DEF Latecomers
<1>4. /\ n \in Request
      /\ n.pc = "skip"
      /\ n.purses = Latecomers(req[r])
      /\ n.user = req[r].user /\ n.group = req[r].group /\ n.key = req[r].key
      /\ n.invite = req[r].invite /\ n.purse = req[r].purse /\ n.cohort = req[r].cohort
      /\ n.seen = req[r].seen /\ n.people = req[r].people
  BY Typed, <1>3 DEF Request
<1>. HIDE DEF n
<1>5. QED
  BY <1>1, <1>2, <1>4, ReqChanges

LEMMA Skips ==
    ASSUME TInv, NEW r \in Requests, SkipEnrolled(r)
    PROVE  /\ req[r].pc = "skip"
           /\ req' \in [Requests -> Request] /\ Keeps(r)
           /\ req'[r].pc = "enrol"
           /\ req'[r].cohort = None
           /\ req'[r].purses = {p \in req[r].purses : <<p, req[r].user>> \notin row}
           /\ req'[r].user = req[r].user /\ req'[r].group = req[r].group /\ req'[r].key = req[r].key
           /\ req'[r].invite = req[r].invite /\ req'[r].purse = req[r].purse /\ req'[r].seen = req[r].seen
           /\ req'[r].people = req[r].people
           /\ UNCHANGED <<dbVars, key, edits, historyVars>>
<1> DEFINE n == [req[r] EXCEPT !.pc = "enrol",
                              !.cohort = None,
                              !.purses = {p \in req[r].purses : <<p, req[r].user>> \notin row}]
<1>1. req' = [req EXCEPT ![r] = n]
  BY DEF SkipEnrolled, TInv, TypeOK
<1>2. /\ req[r].pc = "skip"
      /\ UNCHANGED <<dbVars, key, edits, historyVars>>
  BY DEF SkipEnrolled
<1>3. {p \in req[r].purses : <<p, req[r].user>> \notin row} \in SUBSET Purses
  BY Typed DEF Request
<1>4. /\ n \in Request
      /\ n.pc = "enrol"
      /\ n.cohort = None
      /\ n.purses = {p \in req[r].purses : <<p, req[r].user>> \notin row}
      /\ n.user = req[r].user /\ n.group = req[r].group /\ n.key = req[r].key
      /\ n.invite = req[r].invite /\ n.purse = req[r].purse /\ n.seen = req[r].seen
      /\ n.people = req[r].people
  BY Typed, <1>3 DEF Request
<1>. HIDE DEF n
<1>5. QED
  BY <1>1, <1>2, <1>4, ReqChanges

LEMMA EnrolsNot ==
    ASSUME TInv, NEW r \in Requests, EnrolNewMember(r),
           (req[r].purses \X {req[r].user}) \cap row # {}
    PROVE  /\ req[r].pc = "enrol"
           /\ req' \in [Requests -> Request] /\ Keeps(r)
           /\ req'[r] = Closed
           /\ dropped' = dropped \cup {req[r].user}
           /\ UNCHANGED <<registered, cohort, member, invite, purse, adminRow, key,
              edits, admitted, raced, drifted, row, made, freed>>
<1>1. /\ Finish(r)
      /\ req[r].pc = "enrol"
      /\ dropped' = dropped \cup {req[r].user}
      /\ UNCHANGED <<registered, cohort, member, invite, purse, adminRow, key, edits,
         admitted, raced, drifted, row, made, freed>>
  BY DEF EnrolNewMember
<1>2. QED
  BY <1>1, Finishes

LEMMA Enrols ==
    ASSUME TInv, NEW r \in Requests, EnrolNewMember(r),
           (req[r].purses \X {req[r].user}) \cap row = {}, req[r].purse = None
    PROVE  /\ req[r].pc = "enrol"
           /\ req' \in [Requests -> Request] /\ Keeps(r)
           /\ req'[r] = Closed
           /\ row' = row \cup (req[r].purses \X {req[r].user})
           /\ UNCHANGED <<registered, cohort, member, invite, purse, adminRow, key,
              edits, admitted, raced, drifted, dropped, made, freed>>
<1>1. /\ Finish(r)
      /\ req[r].pc = "enrol"
      /\ row' = row \cup (req[r].purses \X {req[r].user})
      /\ UNCHANGED <<registered, cohort, member, invite, purse, adminRow, key, edits,
         admitted, raced, drifted, dropped, made, freed>>
  BY DEF EnrolNewMember
<1>2. QED
  BY <1>1, Finishes

LEMMA EnrolsInvited ==
    ASSUME TInv, NEW r \in Requests, EnrolNewMember(r),
           (req[r].purses \X {req[r].user}) \cap row = {}, req[r].purse # None
    PROVE  /\ req[r].pc = "enrol"
           /\ req' \in [Requests -> Request] /\ Keeps(r)
           /\ req'[r].pc = "invited"
           /\ req'[r].purses = {}
           /\ req'[r].user = req[r].user /\ req'[r].group = req[r].group /\ req'[r].key = req[r].key
           /\ req'[r].invite = req[r].invite /\ req'[r].purse = req[r].purse /\ req'[r].cohort = req[r].cohort
           /\ req'[r].seen = req[r].seen /\ req'[r].people = req[r].people
           /\ row' = row \cup (req[r].purses \X {req[r].user})
           /\ UNCHANGED <<registered, cohort, member, invite, purse, adminRow, key,
              edits, admitted, raced, drifted, dropped, made, freed>>
<1> DEFINE n == [req[r] EXCEPT !.pc = "invited",
                              !.purses = {}]
<1>1. req' = [req EXCEPT ![r] = n]
  BY DEF EnrolNewMember, TInv, TypeOK
<1>2. /\ req[r].pc = "enrol"
      /\ row' = row \cup (req[r].purses \X {req[r].user})
      /\ UNCHANGED <<registered, cohort, member, invite, purse, adminRow, key, edits,
         admitted, raced, drifted, dropped, made, freed>>
  BY DEF EnrolNewMember
<1>4. /\ n \in Request
      /\ n.pc = "invited"
      /\ n.purses = {}
      /\ n.user = req[r].user /\ n.group = req[r].group /\ n.key = req[r].key
      /\ n.invite = req[r].invite /\ n.purse = req[r].purse /\ n.cohort = req[r].cohort
      /\ n.seen = req[r].seen /\ n.people = req[r].people
  BY Typed DEF Request
<1>. HIDE DEF n
<1>5. QED
  BY <1>1, <1>2, <1>4, ReqChanges

LEMMA Invited ==
    ASSUME TInv, NEW r \in Requests, LookForInvited(r),
           purse[req[r].purse].status = "open" /\ <<req[r].purse, req[r].user>> \notin row
    PROVE  /\ req[r].pc = "invited"
           /\ req' \in [Requests -> Request] /\ Keeps(r)
           /\ req'[r].pc = "ensure"
           /\ req'[r].user = req[r].user /\ req'[r].group = req[r].group /\ req'[r].key = req[r].key
           /\ req'[r].invite = req[r].invite /\ req'[r].purse = req[r].purse /\ req'[r].cohort = req[r].cohort
           /\ req'[r].seen = req[r].seen /\ req'[r].purses = req[r].purses /\ req'[r].people = req[r].people
           /\ UNCHANGED <<dbVars, key, edits, historyVars>>
<1> DEFINE n == [req[r] EXCEPT !.pc = "ensure"]
<1>1. req' = [req EXCEPT ![r] = n]
  BY DEF LookForInvited, TInv, TypeOK
<1>2. /\ req[r].pc = "invited"
      /\ UNCHANGED <<dbVars, key, edits, historyVars>>
  BY DEF LookForInvited
<1>4. /\ n \in Request
      /\ n.pc = "ensure"
      /\ n.user = req[r].user /\ n.group = req[r].group /\ n.key = req[r].key
      /\ n.invite = req[r].invite /\ n.purse = req[r].purse /\ n.cohort = req[r].cohort
      /\ n.seen = req[r].seen /\ n.purses = req[r].purses /\ n.people = req[r].people
  BY Typed DEF Request
<1>. HIDE DEF n
<1>5. QED
  BY <1>1, <1>2, <1>4, ReqChanges

LEMMA InvitedNot ==
    ASSUME TInv, NEW r \in Requests, LookForInvited(r),
           ~(purse[req[r].purse].status = "open" /\ <<req[r].purse, req[r].user>> \notin row)
    PROVE  /\ req[r].pc = "invited"
           /\ req' \in [Requests -> Request] /\ Keeps(r)
           /\ req'[r] = Closed
           /\ UNCHANGED <<dbVars, key, edits, historyVars>>
<1>1. /\ Finish(r)
      /\ req[r].pc = "invited"
      /\ UNCHANGED <<dbVars, key, edits, historyVars>>
  BY DEF LookForInvited
<1>2. QED
  BY <1>1, Finishes

LEMMA EnrolsOne ==
    ASSUME TInv, NEW r \in Requests, EnrolOne(r)
    PROVE  /\ req[r].pc \in {"ensure", "add"}
           /\ req' \in [Requests -> Request] /\ Keeps(r)
           /\ req'[r] = Closed
           /\ row' = row \cup {<<req[r].purse, req[r].user>>}
           /\ UNCHANGED <<registered, cohort, member, invite, purse, adminRow, key,
              edits, historyVars>>
<1>1. /\ Finish(r)
      /\ req[r].pc \in {"ensure", "add"}
      /\ row' = row \cup {<<req[r].purse, req[r].user>>}
      /\ UNCHANGED <<registered, cohort, member, invite, purse, adminRow, key, edits,
         historyVars>>
  BY DEF EnrolOne
<1>2. QED
  BY <1>1, Finishes

LEMMA Begins ==
    ASSUME TInv, NEW r \in Requests, Begin(r),
           key[req[r].key] = "free"
    PROVE  /\ req[r].pc = "answer"
           /\ req' \in [Requests -> Request] /\ Keeps(r)
           /\ req'[r].pc = "create"
           /\ req'[r].user = req[r].user /\ req'[r].group = req[r].group /\ req'[r].key = req[r].key
           /\ req'[r].invite = req[r].invite /\ req'[r].purse = req[r].purse /\ req'[r].cohort = req[r].cohort
           /\ req'[r].seen = req[r].seen /\ req'[r].purses = req[r].purses /\ req'[r].people = req[r].people
           /\ key' = [key EXCEPT ![req[r].key] = "pending"]
           /\ UNCHANGED <<dbVars, edits, historyVars>>
<1> DEFINE n == [req[r] EXCEPT !.pc = "create"]
<1>1. req' = [req EXCEPT ![r] = n]
  BY DEF Begin, TInv, TypeOK
<1>2. /\ req[r].pc = "answer"
      /\ key' = [key EXCEPT ![req[r].key] = "pending"]
      /\ UNCHANGED <<dbVars, edits, historyVars>>
  BY DEF Begin
<1>4. /\ n \in Request
      /\ n.pc = "create"
      /\ n.user = req[r].user /\ n.group = req[r].group /\ n.key = req[r].key
      /\ n.invite = req[r].invite /\ n.purse = req[r].purse /\ n.cohort = req[r].cohort
      /\ n.seen = req[r].seen /\ n.purses = req[r].purses /\ n.people = req[r].people
  BY Typed DEF Request
<1>. HIDE DEF n
<1>5. QED
  BY <1>1, <1>2, <1>4, ReqChanges

LEMMA BeginsNot ==
    ASSUME TInv, NEW r \in Requests, Begin(r),
           key[req[r].key] # "free"
    PROVE  /\ req[r].pc = "answer"
           /\ req' \in [Requests -> Request] /\ Keeps(r)
           /\ req'[r] = Closed
           /\ UNCHANGED <<dbVars, key, edits, historyVars>>
<1>1. /\ Finish(r)
      /\ req[r].pc = "answer"
      /\ UNCHANGED <<dbVars, key, edits, historyVars>>
  BY DEF Begin
<1>2. QED
  BY <1>1, Finishes

LEMMA BeginsUnreserved ==
    ASSUME TInv, NEW r \in Requests, BeginUnreserved(r)
    PROVE  /\ req[r].pc = "answer"
           /\ req' \in [Requests -> Request] /\ Keeps(r)
           /\ req'[r].pc = "create"
           /\ req'[r].user = req[r].user /\ req'[r].group = req[r].group /\ req'[r].key = req[r].key
           /\ req'[r].invite = req[r].invite /\ req'[r].purse = req[r].purse /\ req'[r].cohort = req[r].cohort
           /\ req'[r].seen = req[r].seen /\ req'[r].purses = req[r].purses /\ req'[r].people = req[r].people
           /\ req[r].key \in freed
           /\ UNCHANGED <<dbVars, key, edits, historyVars>>
<1> DEFINE n == [req[r] EXCEPT !.pc = "create"]
<1>1. req' = [req EXCEPT ![r] = n]
  BY DEF BeginUnreserved, TInv, TypeOK
<1>2. /\ req[r].pc = "answer"
      /\ req[r].key \in freed
      /\ UNCHANGED <<dbVars, key, edits, historyVars>>
  BY DEF BeginUnreserved
<1>4. /\ n \in Request
      /\ n.pc = "create"
      /\ n.user = req[r].user /\ n.group = req[r].group /\ n.key = req[r].key
      /\ n.invite = req[r].invite /\ n.purse = req[r].purse /\ n.cohort = req[r].cohort
      /\ n.seen = req[r].seen /\ n.purses = req[r].purses /\ n.people = req[r].people
  BY Typed DEF Request
<1>. HIDE DEF n
<1>5. QED
  BY <1>1, <1>2, <1>4, ReqChanges

LEMMA Reads ==
    ASSUME TInv, NEW r \in Requests, ReadGroup(r)
    PROVE  /\ req[r].pc = "create"
           /\ req' \in [Requests -> Request] /\ Keeps(r)
           /\ req'[r].pc = "commit"
           /\ req'[r].cohort = cohort[req[r].group]
           /\ req'[r].user = req[r].user /\ req'[r].group = req[r].group /\ req'[r].key = req[r].key
           /\ req'[r].invite = req[r].invite /\ req'[r].purse = req[r].purse /\ req'[r].seen = req[r].seen
           /\ req'[r].purses = req[r].purses /\ req'[r].people = req[r].people
           /\ UNCHANGED <<dbVars, key, edits, historyVars>>
<1> DEFINE n == [req[r] EXCEPT !.pc = "commit",
                              !.cohort = cohort[req[r].group]]
<1>1. req' = [req EXCEPT ![r] = n]
  BY DEF ReadGroup, TInv, TypeOK
<1>2. /\ req[r].pc = "create"
      /\ UNCHANGED <<dbVars, key, edits, historyVars>>
  BY DEF ReadGroup
<1>3. cohort[req[r].group] \in Cohorts \cup {None}
  BY <1>2, Typed DEF TInv, TypeOK, Holds
<1>4. /\ n \in Request
      /\ n.pc = "commit"
      /\ n.cohort = cohort[req[r].group]
      /\ n.user = req[r].user /\ n.group = req[r].group /\ n.key = req[r].key
      /\ n.invite = req[r].invite /\ n.purse = req[r].purse /\ n.seen = req[r].seen
      /\ n.purses = req[r].purses /\ n.people = req[r].people
  BY Typed, <1>3 DEF Request
<1>. HIDE DEF n
<1>5. QED
  BY <1>1, <1>2, <1>4, ReqChanges

LEMMA Creates ==
    ASSUME TInv, NEW r \in Requests, NEW p \in Purses, CommitPurse(r, p)
    PROVE  /\ req[r].pc = "commit"
           /\ req' \in [Requests -> Request] /\ Keeps(r)
           /\ req'[r].pc = "sweep"
           /\ req'[r].purse = p
           /\ req'[r].user = req[r].user /\ req'[r].group = req[r].group /\ req'[r].key = req[r].key
           /\ req'[r].invite = req[r].invite /\ req'[r].cohort = req[r].cohort /\ req'[r].seen = req[r].seen
           /\ req'[r].purses = req[r].purses /\ req'[r].people = req[r].people
           /\ purse[p].status = "absent"
           /\ purse' = [purse EXCEPT ![p] = [status |-> "open", group |-> req[r].group, cohort |-> req[r].cohort]]
           /\ made' = [k \in Keys |-> IF k = req[r].key THEN made[k] + 1 ELSE made[k]]
           /\ UNCHANGED <<registered, cohort, member, invite, row, adminRow, key,
              edits, admitted, raced, drifted, dropped, freed>>
<1> DEFINE n == [req[r] EXCEPT !.pc = "sweep",
                              !.purse = p]
<1>1. req' = [req EXCEPT ![r] = n]
  BY DEF CommitPurse, TInv, TypeOK
<1>2. /\ req[r].pc = "commit"
      /\ purse[p].status = "absent"
      /\ purse' = [purse EXCEPT ![p] = [status |-> "open", group |-> req[r].group, cohort |-> req[r].cohort]]
      /\ made' = [k \in Keys |-> IF k = req[r].key THEN made[k] + 1 ELSE made[k]]
      /\ UNCHANGED <<registered, cohort, member, invite, row, adminRow, key, edits,
         admitted, raced, drifted, dropped, freed>>
  BY DEF CommitPurse
<1>4. /\ n \in Request
      /\ n.pc = "sweep"
      /\ n.purse = p
      /\ n.user = req[r].user /\ n.group = req[r].group /\ n.key = req[r].key
      /\ n.invite = req[r].invite /\ n.cohort = req[r].cohort /\ n.seen = req[r].seen
      /\ n.purses = req[r].purses /\ n.people = req[r].people
  BY Typed DEF Request
<1>. HIDE DEF n
<1>5. QED
  BY <1>1, <1>2, <1>4, ReqChanges

LEMMA Finds ==
    ASSUME TInv, NEW r \in Requests, FindMembers(r)
    PROVE  /\ req[r].pc = "sweep"
           /\ req' \in [Requests -> Request] /\ Keeps(r)
           /\ req'[r].pc = "insert"
           /\ req'[r].people = Found(req[r])
           /\ req'[r].user = req[r].user /\ req'[r].group = req[r].group /\ req'[r].key = req[r].key
           /\ req'[r].invite = req[r].invite /\ req'[r].purse = req[r].purse /\ req'[r].cohort = req[r].cohort
           /\ req'[r].seen = req[r].seen /\ req'[r].purses = req[r].purses
           /\ UNCHANGED <<dbVars, key, edits, historyVars>>
<1> DEFINE n == [req[r] EXCEPT !.pc = "insert",
                              !.people = Found(req[r])]
<1>1. req' = [req EXCEPT ![r] = n]
  BY DEF FindMembers, Found, TInv, TypeOK
<1>2. /\ req[r].pc = "sweep"
      /\ UNCHANGED <<dbVars, key, edits, historyVars>>
  BY DEF FindMembers, Found
<1>3. Found(req[r]) \in SUBSET Users
  BY DEF Found
<1>4. /\ n \in Request
      /\ n.pc = "insert"
      /\ n.people = Found(req[r])
      /\ n.user = req[r].user /\ n.group = req[r].group /\ n.key = req[r].key
      /\ n.invite = req[r].invite /\ n.purse = req[r].purse /\ n.cohort = req[r].cohort
      /\ n.seen = req[r].seen /\ n.purses = req[r].purses
  BY Typed, <1>3 DEF Request
<1>. HIDE DEF n
<1>5. QED
  BY <1>1, <1>2, <1>4, ReqChanges

LEMMA SweepsNot ==
    ASSUME TInv, NEW r \in Requests, EnrolMembers(r),
           ({req[r].purse} \X req[r].people) \cap row # {}, req[r].key = None
    PROVE  /\ req[r].pc = "insert"
           /\ req' \in [Requests -> Request] /\ Keeps(r)
           /\ req'[r] = Closed
           /\ dropped' = dropped \cup {req[r].purse}
           /\ UNCHANGED <<registered, cohort, member, invite, purse, key, edits,
              admitted, raced, drifted, row, adminRow, made, freed>>
<1>1. req' = [req EXCEPT ![r] = Closed]
  BY DEF EnrolMembers, TInv, TypeOK
<1>2. /\ req[r].pc = "insert"
      /\ dropped' = dropped \cup {req[r].purse}
      /\ UNCHANGED <<registered, cohort, member, invite, purse, key, edits, admitted,
         raced, drifted, row, adminRow, made, freed>>
  BY DEF EnrolMembers
<1>3. Closed \in Request
  BY Typed, ClosedIsTyped, <1>2 DEF Request, Holds, Closed
<1>4. QED
  BY <1>1, <1>2, <1>3, ReqChanges

LEMMA SweepsNotUnderKey ==
    ASSUME TInv, NEW r \in Requests, EnrolMembers(r),
           ({req[r].purse} \X req[r].people) \cap row # {}, req[r].key # None
    PROVE  /\ req[r].pc = "insert"
           /\ req' \in [Requests -> Request] /\ Keeps(r)
           /\ req'[r] = [Closed EXCEPT !.pc = "release", !.key = req[r].key]
           /\ dropped' = dropped \cup {req[r].purse}
           /\ UNCHANGED <<registered, cohort, member, invite, purse, key, edits,
              admitted, raced, drifted, row, adminRow, made, freed>>
<1>1. req' = [req EXCEPT ![r] = [Closed EXCEPT !.pc = "release", !.key = req[r].key]]
  BY DEF EnrolMembers, TInv, TypeOK
<1>2. /\ req[r].pc = "insert"
      /\ dropped' = dropped \cup {req[r].purse}
      /\ UNCHANGED <<registered, cohort, member, invite, purse, key, edits, admitted,
         raced, drifted, row, adminRow, made, freed>>
  BY DEF EnrolMembers
<1>3. [Closed EXCEPT !.pc = "release", !.key = req[r].key] \in Request
  BY Typed, ClosedIsTyped, <1>2 DEF Request, Holds, Closed
<1>4. QED
  BY <1>1, <1>2, <1>3, ReqChanges

LEMMA Sweeps ==
    ASSUME TInv, NEW r \in Requests, EnrolMembers(r),
           ({req[r].purse} \X req[r].people) \cap row = {}, req[r].key = None
    PROVE  /\ req[r].pc = "insert"
           /\ req' \in [Requests -> Request] /\ Keeps(r)
           /\ req'[r] = Closed
           /\ row' = row \cup ({req[r].purse} \X req[r].people)
           /\ adminRow' = adminRow \cup {<<req[r].purse, u>> : u \in {v \in Users : <<v, req[r].group>> \in Admins}}
           /\ UNCHANGED <<registered, cohort, member, invite, purse, key, edits,
              admitted, raced, drifted, dropped, made, freed>>
<1>1. req' = [req EXCEPT ![r] = Closed]
  BY DEF EnrolMembers, TInv, TypeOK
<1>2. /\ req[r].pc = "insert"
      /\ row' = row \cup ({req[r].purse} \X req[r].people)
      /\ adminRow' = adminRow \cup {<<req[r].purse, u>> : u \in {v \in Users : <<v, req[r].group>> \in Admins}}
      /\ UNCHANGED <<registered, cohort, member, invite, purse, key, edits, admitted,
         raced, drifted, dropped, made, freed>>
  BY DEF EnrolMembers
<1>3. Closed \in Request
  BY Typed, ClosedIsTyped, <1>2 DEF Request, Holds, Closed
<1>4. QED
  BY <1>1, <1>2, <1>3, ReqChanges

LEMMA SweepsUnderKey ==
    ASSUME TInv, NEW r \in Requests, EnrolMembers(r),
           ({req[r].purse} \X req[r].people) \cap row = {}, req[r].key # None
    PROVE  /\ req[r].pc = "insert"
           /\ req' \in [Requests -> Request] /\ Keeps(r)
           /\ req'[r] = [Closed EXCEPT !.pc = "complete", !.key = req[r].key, !.purse = req[r].purse]
           /\ row' = row \cup ({req[r].purse} \X req[r].people)
           /\ adminRow' = adminRow \cup {<<req[r].purse, u>> : u \in {v \in Users : <<v, req[r].group>> \in Admins}}
           /\ UNCHANGED <<registered, cohort, member, invite, purse, key, edits,
              admitted, raced, drifted, dropped, made, freed>>
<1>1. req' = [req EXCEPT ![r] = [Closed EXCEPT !.pc = "complete", !.key = req[r].key, !.purse = req[r].purse]]
  BY DEF EnrolMembers, TInv, TypeOK
<1>2. /\ req[r].pc = "insert"
      /\ row' = row \cup ({req[r].purse} \X req[r].people)
      /\ adminRow' = adminRow \cup {<<req[r].purse, u>> : u \in {v \in Users : <<v, req[r].group>> \in Admins}}
      /\ UNCHANGED <<registered, cohort, member, invite, purse, key, edits, admitted,
         raced, drifted, dropped, made, freed>>
  BY DEF EnrolMembers
<1>3. [Closed EXCEPT !.pc = "complete", !.key = req[r].key, !.purse = req[r].purse] \in Request
  BY Typed, ClosedIsTyped, <1>2 DEF Request, Holds, Closed
<1>4. QED
  BY <1>1, <1>2, <1>3, ReqChanges

LEMMA Completes ==
    ASSUME TInv, NEW r \in Requests, Complete(r)
    PROVE  /\ req[r].pc = "complete"
           /\ req' \in [Requests -> Request] /\ Keeps(r)
           /\ req'[r] = Closed
           /\ key' = [key EXCEPT ![req[r].key] = req[r].purse]
           /\ UNCHANGED <<dbVars, edits, historyVars>>
<1>1. /\ Finish(r)
      /\ req[r].pc = "complete"
      /\ key' = [key EXCEPT ![req[r].key] = req[r].purse]
      /\ UNCHANGED <<dbVars, edits, historyVars>>
  BY DEF Complete
<1>2. QED
  BY <1>1, Finishes

LEMMA Releases ==
    ASSUME TInv, NEW r \in Requests, Release(r)
    PROVE  /\ req[r].pc = "release"
           /\ req' \in [Requests -> Request] /\ Keeps(r)
           /\ req'[r] = Closed
           /\ key' = [key EXCEPT ![req[r].key] = "free"]
           /\ freed' = freed \cup {req[r].key}
           /\ UNCHANGED <<dbVars, edits, admitted, raced, drifted, dropped, made>>
<1>1. /\ Finish(r)
      /\ req[r].pc = "release"
      /\ key' = [key EXCEPT ![req[r].key] = "free"]
      /\ freed' = freed \cup {req[r].key}
      /\ UNCHANGED <<dbVars, edits, admitted, raced, drifted, dropped, made>>
  BY DEF Release
<1>2. QED
  BY <1>1, Finishes

LEMMA Edits ==
    ASSUME TInv, NEW r \in Requests, EditCohortCommit(r)
    PROVE  /\ req[r].pc = "edit"
           /\ req' \in [Requests -> Request] /\ Keeps(r)
           /\ req'[r] = Closed
           /\ cohort' = IF Resubmits(req[r]) THEN cohort ELSE [cohort EXCEPT ![req[r].group] = req[r].cohort]
           /\ drifted' = IF Resubmits(req[r]) /\ cohort[req[r].group] # req[r].cohort
                         THEN drifted \cup (req[r].people \X {req[r].group}) ELSE drifted
           /\ member' = [u \in Users |-> [g \in Groups |-> IF g = req[r].group /\ u \in req[r].people /\ member[u][g].state = "active"
                                                    THEN [member[u][g] EXCEPT !.cohort = req[r].cohort]
                                                    ELSE member[u][g]]]
           /\ dropped' = dropped \cup {p \in Purses : purse[p].group = req[r].group /\ purse[p].cohort = req[r].cohort}
           /\ UNCHANGED <<registered, invite, purse, row, adminRow, key, edits,
              admitted, raced, made, freed>>
<1>1. /\ Finish(r)
      /\ req[r].pc = "edit"
      /\ cohort' = IF Resubmits(req[r]) THEN cohort ELSE [cohort EXCEPT ![req[r].group] = req[r].cohort]
      /\ drifted' = IF Resubmits(req[r]) /\ cohort[req[r].group] # req[r].cohort
                    THEN drifted \cup (req[r].people \X {req[r].group}) ELSE drifted
      /\ member' = [u \in Users |-> [g \in Groups |-> IF g = req[r].group /\ u \in req[r].people /\ member[u][g].state = "active"
                                                    THEN [member[u][g] EXCEPT !.cohort = req[r].cohort]
                                                    ELSE member[u][g]]]
      /\ dropped' = dropped \cup {p \in Purses : purse[p].group = req[r].group /\ purse[p].cohort = req[r].cohort}
      /\ UNCHANGED <<registered, invite, purse, row, adminRow, key, edits, admitted,
         raced, made, freed>>
  BY DEF EditCohortCommit
<1>2. QED
  BY <1>1, Finishes

LEMMA Resolves ==
    ASSUME TInv, NEW r \in Requests, NEW u \in Users, NEW i \in Invites, Resolve(r, u, i)
    PROVE  /\ req[r].pc = "idle"
           /\ req' \in [Requests -> Request] /\ Keeps(r)
           /\ req'[r].pc \in {"register", "admit"} /\ req'[r].user = u /\ req'[r].group = invite[i].group
           /\ req'[r].invite = i /\ req'[r].purse = None /\ req'[r].key = None
           /\ req'[r].cohort = cohort[invite[i].group] /\ req'[r].seen = invite[i].used
           /\ req'[r].purses = {} /\ req'[r].people = {}
           /\ invite[i].state # "absent" /\ ~Exhausted(i) /\ invite[i].group \in Groups
           /\ raced' = IF JoinsBy(i) = {} THEN raced ELSE raced \cup {i}
           /\ UNCHANGED <<dbVars, key, edits, admitted, drifted, dropped, made, freed>>
<1> DEFINE n == [Closed EXCEPT !.pc = IF u \in registered THEN "admit" ELSE "register", !.user = u, !.group = invite[i].group, !.invite = i,
                               !.cohort = cohort[invite[i].group], !.seen = invite[i].used]
<1>1. Open(r, n)
  BY DEF Resolve
<1>2. /\ invite[i].state # "absent" /\ ~Exhausted(i)
      /\ raced' = IF JoinsBy(i) = {} THEN raced ELSE raced \cup {i}
      /\ UNCHANGED <<dbVars, key, edits, admitted, drifted, dropped, made, freed>>
  BY DEF Resolve
<1>3. invite[i].group \in Groups /\ invite[i].used \in Nat
  <2>1. invite[i] \in InviteRow
    BY DEF TInv, TypeOK
  <2>2. invite[i].used \in Nat
    BY <2>1 DEF InviteRow
  <2>3. invite[i].group \in Groups
    BY <1>2 DEF TInv
  <2>4. QED
    BY <2>2, <2>3
<1>4. cohort[invite[i].group] \in Cohorts \cup {None}
  BY <1>3 DEF TInv, TypeOK
<1>5. /\ n \in Request
      /\ n.pc \in {"register", "admit"} /\ n.user = u /\ n.group = invite[i].group
      /\ n.invite = i /\ n.purse = None /\ n.key = None
      /\ n.cohort = cohort[invite[i].group] /\ n.seen = invite[i].used
      /\ n.purses = {} /\ n.people = {}
  BY <1>3, <1>4, ClosedIsTyped DEF Request, Closed
<1>. HIDE DEF n
<1>6. QED
  BY <1>1, <1>2, <1>3, <1>5, Opens

LEMMA Asks ==
    ASSUME TInv, NEW r \in Requests, NEW g \in Groups, NEW k \in Keys \cup {None}, CreatePurse(r, g, k)
    PROVE  /\ req[r].pc = "idle"
           /\ req' \in [Requests -> Request] /\ Keeps(r)
           /\ req'[r].pc = (IF k = None THEN "create" ELSE "answer") /\ req'[r].user = None /\ req'[r].group = g
           /\ req'[r].invite = None /\ req'[r].purse = None /\ req'[r].key = k
           /\ req'[r].cohort = None /\ req'[r].seen = 0 /\ req'[r].purses = {}
           /\ req'[r].people = {}
           /\ UNCHANGED <<dbVars, key, edits, historyVars>>
<1> DEFINE n == [Closed EXCEPT !.pc = IF k = None THEN "create" ELSE "answer", !.group = g, !.key = k]
<1>1. Open(r, n)
  BY DEF CreatePurse
<1>2. /\ UNCHANGED <<dbVars, key, edits, historyVars>>
  BY DEF CreatePurse
<1>3. /\ n \in Request
      /\ n.pc = (IF k = None THEN "create" ELSE "answer") /\ n.user = None /\ n.group = g
      /\ n.invite = None /\ n.purse = None /\ n.key = k
      /\ n.cohort = None /\ n.seen = 0 /\ n.purses = {}
      /\ n.people = {}
  BY ClosedIsTyped DEF Request, Closed
<1>. HIDE DEF n
<1>4. QED
  BY <1>1, <1>2, <1>3, Opens

LEMMA Adds ==
    ASSUME TInv, NEW r \in Requests, NEW p \in Purses, NEW u \in Users, AddMember(r, p, u)
    PROVE  /\ req[r].pc = "idle"
           /\ req' \in [Requests -> Request] /\ Keeps(r)
           /\ req'[r].pc = "add" /\ req'[r].user = u /\ req'[r].group = None
           /\ req'[r].invite = None /\ req'[r].purse = p /\ req'[r].key = None
           /\ req'[r].cohort = None /\ req'[r].seen = 0 /\ req'[r].purses = {}
           /\ req'[r].people = {}
           /\ purse[p].status = "open"
           /\ Belongs(u, purse[p].group)
           /\ UNCHANGED <<dbVars, key, edits, historyVars>>
<1> DEFINE n == [Closed EXCEPT !.pc = "add", !.purse = p, !.user = u]
<1>1. Open(r, n)
  BY DEF AddMember
<1>2. /\ purse[p].status = "open"
      /\ Belongs(u, purse[p].group)
      /\ UNCHANGED <<dbVars, key, edits, historyVars>>
  BY DEF AddMember
<1>3. /\ n \in Request
      /\ n.pc = "add" /\ n.user = u /\ n.group = None
      /\ n.invite = None /\ n.purse = p /\ n.key = None
      /\ n.cohort = None /\ n.seen = 0 /\ n.purses = {}
      /\ n.people = {}
  BY ClosedIsTyped DEF Request, Closed
<1>. HIDE DEF n
<1>4. QED
  BY <1>1, <1>2, <1>3, Opens

LEMMA OpensEdit ==
    ASSUME TInv, NEW r \in Requests, NEW g \in Groups, NEW c \in Cohorts, EditCohort(r, g, c)
    PROVE  /\ req[r].pc = "idle"
           /\ req' \in [Requests -> Request] /\ Keeps(r)
           /\ req'[r].pc = "load" /\ req'[r].user = None /\ req'[r].group = g
           /\ req'[r].invite = None /\ req'[r].purse = None /\ req'[r].key = None
           /\ req'[r].cohort = c /\ req'[r].seen = 0 /\ req'[r].purses = {}
           /\ req'[r].people = {}
           /\ edits' = edits + 1
           /\ UNCHANGED <<dbVars, key, historyVars>>
<1> DEFINE n == [Closed EXCEPT !.pc = "load", !.group = g, !.cohort = c, !.read = cohort[g]]
<1>1. Open(r, n)
  BY DEF EditCohort
<1>2. edits' = edits + 1 /\ UNCHANGED <<dbVars, key, historyVars>>
  BY DEF EditCohort
<1>3. cohort[g] \in Cohorts \cup {None}
  BY DEF TInv, TypeOK
<1>4. /\ n \in Request
      /\ n.pc = "load" /\ n.user = None /\ n.group = g
      /\ n.invite = None /\ n.purse = None /\ n.key = None
      /\ n.cohort = c /\ n.seen = 0 /\ n.purses = {}
      /\ n.people = {}
  BY <1>3, ClosedIsTyped DEF Request, Closed
<1>. HIDE DEF n
<1>5. QED
  BY <1>1, <1>2, <1>4, Opens

LEMMA Selects ==
    ASSUME TInv, NEW r \in Requests, SelectMembers(r)
    PROVE  /\ req[r].pc = "load"
           /\ req' \in [Requests -> Request] /\ Keeps(r)
           /\ req'[r].pc = "edit"
           /\ req'[r].people = {u \in Users : member[u][req[r].group].state = "active"}
           /\ req'[r].user = req[r].user /\ req'[r].group = req[r].group /\ req'[r].key = req[r].key
           /\ req'[r].invite = req[r].invite /\ req'[r].purse = req[r].purse /\ req'[r].cohort = req[r].cohort
           /\ req'[r].seen = req[r].seen /\ req'[r].purses = req[r].purses
           /\ UNCHANGED <<dbVars, key, edits, historyVars>>
<1> DEFINE chosen == {u \in Users : member[u][req[r].group].state = "active"}
           n == [req[r] EXCEPT !.pc = "edit", !.people = chosen]
<1>1. req' = [req EXCEPT ![r] = n]
  BY DEF SelectMembers, TInv, TypeOK
<1>2. /\ req[r].pc = "load"
      /\ UNCHANGED <<dbVars, key, edits, historyVars>>
  BY DEF SelectMembers
<1>3. chosen \in SUBSET Users
  OBVIOUS
<1>4. /\ n \in Request
      /\ n.pc = "edit"
      /\ n.people = chosen
      /\ n.user = req[r].user /\ n.group = req[r].group /\ n.key = req[r].key
      /\ n.invite = req[r].invite /\ n.purse = req[r].purse /\ n.cohort = req[r].cohort
      /\ n.seen = req[r].seen /\ n.purses = req[r].purses
  BY Typed, <1>3 DEF Request
<1>. HIDE DEF n
<1>5. QED
  BY <1>1, <1>2, <1>4, ReqChanges

-----------------------------------------------------------------------------
(* Types                                                                   *)

\* A step that changes nothing but its request, and no more than the types
\* allow of the rest.
LEMMA TypeKept ==
    ASSUME TInv, NEW r \in Requests,
           req' \in [Requests -> Request], Keeps(r), Holds(req'[r]),
           registered' \in SUBSET Users, member' \in [Users -> [Groups -> MemberRow]],
           cohort' \in [Groups -> Cohorts \cup {None}],
           row' \in SUBSET (Purses \X Users), adminRow' \in SUBSET (Purses \X Users),
           invite' \in [Invites -> InviteRow],
           \A i \in Invites : invite'[i].state = invite[i].state /\ invite'[i].group = invite[i].group,
           key' \in [Keys -> {"free", "pending"} \cup Purses], edits' \in Nat,
           purse' \in [Purses -> PurseRow],
           \A p \in Purses : purse'[p].status # "absent" => purse'[p].group \in Groups,
           admitted' \in [Invites -> Nat], raced' \in SUBSET Invites,
           drifted' \in SUBSET (Users \X Groups), dropped' \in SUBSET (Users \cup Purses),
           made' \in [Keys -> Nat], freed' \in SUBSET Keys
    PROVE  TInv'
<1>1. \A s \in Requests : Holds(req[s])' <=> Holds(req'[s])
  BY DEF Holds
<1>2. \A s \in Requests : Holds(req'[s])
  BY DEF Keeps, TInv
<1>3. TypeOK'
  BY DEF TypeOK
<1>4. \A i \in Invites : invite'[i].state # "absent" => invite'[i].group \in Groups
  BY DEF TInv
<1>5. QED
  BY <1>1, <1>2, <1>3, <1>4 DEF TInv

LEMMA TypeFacts ==
    ASSUME TInv
    PROVE  /\ registered \in SUBSET Users /\ member \in [Users -> [Groups -> MemberRow]]
           /\ cohort \in [Groups -> Cohorts \cup {None}]
           /\ row \in SUBSET (Purses \X Users) /\ adminRow \in SUBSET (Purses \X Users)
           /\ invite \in [Invites -> InviteRow]
           /\ \A i \in Invites : invite[i].state = invite[i].state /\ invite[i].group = invite[i].group
           /\ key \in [Keys -> {"free", "pending"} \cup Purses] /\ edits \in Nat
           /\ purse \in [Purses -> PurseRow]
           /\ \A p \in Purses : purse[p].status # "absent" => purse[p].group \in Groups
           /\ admitted \in [Invites -> Nat] /\ raced \in SUBSET Invites
           /\ drifted \in SUBSET (Users \X Groups) /\ dropped \in SUBSET (Users \cup Purses)
           /\ made \in [Keys -> Nat] /\ freed \in SUBSET Keys
           /\ \A r \in Requests : req[r] \in Request
           /\ req \in [Requests -> Request]
BY DEF TInv, TypeOK

LEMMA TypeQuiet ==
    ASSUME TInv, NEW r \in Requests,
           req' \in [Requests -> Request], Keeps(r), Holds(req'[r]),
           UNCHANGED <<dbVars, key, edits, historyVars>>
    PROVE  TInv'
BY TypeKept, TypeFacts DEF dbVars, historyVars

LEMMA TypeJoin ==
    ASSUME TInv, NEW r \in Requests, JoinCommit(r) \/ Redeem(r)
    PROVE  TInv'
<1> DEFINE q == req[r]
<1> USE DEF dbVars, historyVars
<1>0. /\ q \in Request /\ q.user \in Users /\ q.group \in Groups /\ q.invite \in Invites
      /\ q.seen \in Nat /\ q.cohort \in Cohorts \cup {None}
  <2>1. q.pc \in {"register", "admit", "redeem"}
    BY DEF JoinCommit, Redeem
  <2>2. q \in Request /\ Holds(q)
    BY Typed
  <2>3. QED
    BY <2>1, <2>2 DEF Holds, Request
<1>1. CASE JoinCommit(r) /\ Taken(q)
  BY <1>1, CommitsNot, ClosedIsTyped, TypeQuiet
<1>2. CASE JoinCommit(r) /\ ~Taken(q)
  <2>1. Holds(req'[r])
    BY <1>0, <1>2, Commits DEF Holds
  <2>2. member' \in [Users -> [Groups -> MemberRow]]
    <3>1. [state |-> "active", cohort |-> q.cohort] \in MemberRow
      BY <1>0 DEF MemberRow
    <3>2. member' = [member EXCEPT ![q.user][q.group] = [state |-> "active", cohort |-> q.cohort]]
      BY <1>2, Commits
    <3>. HIDE DEF q
    <3>3. QED
      BY <1>0, <3>1, <3>2, TypeFacts
  <2>3. /\ admitted' \in [Invites -> Nat] /\ registered' \in SUBSET Users
        /\ drifted' \in SUBSET (Users \X Groups)
    <3>1. <<q.user, q.group>> \in Users \X Groups /\ {q.user} \subseteq Users
      BY <1>0
    <3>2. /\ registered' = registered \cup {q.user}
          /\ drifted' \in {drifted, drifted \cup {<<q.user, q.group>>}}
          /\ admitted' = [admitted EXCEPT ![q.invite] = @ + 1]
      BY <1>2, Commits
    <3>. HIDE DEF q
    <3>3. QED
      BY <1>0, <3>1, <3>2, TypeFacts
  <2>4. /\ req' \in [Requests -> Request] /\ Keeps(r)
        /\ UNCHANGED <<cohort, invite, purse, row, adminRow, key, edits, raced, dropped, made, freed>>
    BY <1>2, Commits
  <2>5. QED
    BY <2>1, <2>2, <2>3, <2>4, TypeKept, TypeFacts
<1>3. CASE Redeem(r) /\ invite[q.invite].state = "expired"
  <2>1. raced' \in SUBSET Invites /\ dropped' \in SUBSET (Users \cup Purses)
    BY <1>0, <1>3, RedeemsNot, TypeFacts
  <2>2. QED
    BY <1>3, <2>1, RedeemsNot, ClosedIsTyped, TypeKept, TypeFacts
<1>4. CASE Redeem(r) /\ invite[q.invite].state # "expired"
  <2>1. Holds(req'[r])
    BY <1>0, <1>4, Redeems DEF Holds
  <2>2. /\ invite' \in [Invites -> InviteRow]
        /\ \A i \in Invites : invite'[i].state = invite[i].state /\ invite'[i].group = invite[i].group
    <3>1. invite' = [invite EXCEPT ![q.invite] = [invite[q.invite] EXCEPT !.used = q.seen + 1]]
      BY <1>4, Redeems
    <3>2. [invite[q.invite] EXCEPT !.used = q.seen + 1] \in InviteRow
      <4>1. invite[q.invite] \in InviteRow /\ q.seen + 1 \in Nat
        BY <1>0, TypeFacts
      <4>2. QED
        BY <4>1 DEF InviteRow
    <3>3. /\ [invite[q.invite] EXCEPT !.used = q.seen + 1].state = invite[q.invite].state
          /\ [invite[q.invite] EXCEPT !.used = q.seen + 1].group = invite[q.invite].group
      BY <1>0, TypeFacts DEF InviteRow
    <3>4. QED
      BY <1>0, <3>1, <3>2, <3>3, TypeFacts
  <2>3. /\ req' \in [Requests -> Request] /\ Keeps(r)
        /\ UNCHANGED <<registered, cohort, member, purse, row, adminRow, key, edits, historyVars>>
    BY <1>4, Redeems
  <2>4. QED
    BY <2>1, <2>2, <2>3, TypeKept, TypeFacts
<1>5. QED
  BY <1>1, <1>2, <1>3, <1>4

LEMMA TypeEnrol ==
    ASSUME TInv, NEW r \in Requests,
           LookForPurses(r) \/ SkipEnrolled(r) \/ EnrolNewMember(r) \/ LookForInvited(r) \/ EnrolOne(r)
    PROVE  TInv'
<1> USE DEF dbVars, historyVars
<1> DEFINE q == req[r]
           batch == q.purses \X {q.user}
<1>0. q \in Request /\ Holds(q)
  BY Typed
<1>1. CASE LookForPurses(r)
  <2>1. Holds(req'[r])
    BY <1>0, <1>1, Looks DEF Holds
  <2>2. QED
    BY <1>1, <2>1, Looks, TypeQuiet
<1>2. CASE SkipEnrolled(r)
  <2>1. Holds(req'[r])
    BY <1>0, <1>2, Skips DEF Holds
  <2>2. QED
    BY <1>2, <2>1, Skips, TypeQuiet
<1>3. CASE EnrolNewMember(r)
  <2>1. /\ q.user \in Users /\ q.group \in Groups /\ q.purses \in SUBSET Purses
        /\ q.purse \in Purses \cup {None}
    BY <1>0, <1>3 DEF EnrolNewMember, Holds, Request
  <2>2. row \cup batch \in SUBSET (Purses \X Users)
    BY <2>1, TypeFacts
  <2>3. dropped \cup {q.user} \in SUBSET (Users \cup Purses)
    BY <2>1, TypeFacts
  <2>4. CASE batch \cap row # {}
    BY <1>3, <2>3, <2>4, EnrolsNot, ClosedIsTyped, TypeKept, TypeFacts
  <2>5. CASE batch \cap row = {} /\ q.purse = None
    BY <1>3, <2>2, <2>5, Enrols, ClosedIsTyped, TypeKept, TypeFacts
  <2>6. CASE batch \cap row = {} /\ q.purse # None
    <3>1. Holds(req'[r])
      BY <1>3, <2>1, <2>6, EnrolsInvited DEF Holds
    <3>2. QED
      BY <1>3, <2>2, <2>6, <3>1, EnrolsInvited, TypeKept, TypeFacts
  <2>7. QED
    BY <2>4, <2>5, <2>6
<1>4. CASE LookForInvited(r)
  <2>1. CASE purse[q.purse].status = "open" /\ <<q.purse, q.user>> \notin row
    <3>1. Holds(req'[r])
      BY <1>0, <1>4, <2>1, Invited DEF Holds
    <3>2. QED
      BY <1>4, <2>1, <3>1, Invited, TypeQuiet
  <2>2. CASE ~(purse[q.purse].status = "open" /\ <<q.purse, q.user>> \notin row)
    BY <1>4, <2>2, InvitedNot, ClosedIsTyped, TypeQuiet
  <2>3. QED
    BY <2>1, <2>2
<1>5. CASE EnrolOne(r)
  <2>1. q.purse \in Purses /\ q.user \in Users
    BY <1>0, <1>5 DEF EnrolOne, Holds
  <2>2. row \cup {<<q.purse, q.user>>} \in SUBSET (Purses \X Users)
    BY <2>1, TypeFacts
  <2>3. QED
    BY <1>5, <2>2, EnrolsOne, ClosedIsTyped, TypeKept, TypeFacts
<1>6. QED
  BY <1>1, <1>2, <1>3, <1>4, <1>5

LEMMA TypeCreate ==
    ASSUME TInv, NEW r \in Requests,
           \/ Begin(r) \/ BeginUnreserved(r) \/ ReadGroup(r) \/ \E p \in Purses : CommitPurse(r, p)
           \/ FindMembers(r) \/ EnrolMembers(r) \/ Complete(r) \/ Release(r)
    PROVE  TInv'
<1> USE DEF dbVars, historyVars
<1> DEFINE q == req[r]
<1>0. q \in Request /\ Holds(q)
  BY Typed
<1>1. CASE Begin(r)
  <2>1. CASE key[q.key] = "free"
    <3>1. Holds(req'[r])
      BY <1>0, <1>1, <2>1, Begins DEF Holds
    <3>2. key' \in [Keys -> {"free", "pending"} \cup Purses]
      BY <1>1, <2>1, Begins, TypeFacts
    <3>3. QED
      BY <1>1, <2>1, <3>1, <3>2, Begins, TypeKept, TypeFacts
  <2>2. CASE key[q.key] # "free"
    BY <1>1, <2>2, BeginsNot, ClosedIsTyped, TypeQuiet
  <2>3. QED
    BY <2>1, <2>2
<1>2. CASE BeginUnreserved(r)
  <2>1. Holds(req'[r])
    BY <1>0, <1>2, BeginsUnreserved DEF Holds
  <2>2. QED
    BY <1>2, <2>1, BeginsUnreserved, TypeQuiet
<1>3. CASE ReadGroup(r)
  <2>1. Holds(req'[r])
    BY <1>0, <1>3, Reads DEF Holds
  <2>2. QED
    BY <1>3, <2>1, Reads, TypeQuiet
<1>4. ASSUME NEW p \in Purses, CommitPurse(r, p) PROVE TInv'
  <2> DEFINE m == [status |-> "open", group |-> q.group, cohort |-> q.cohort]
  <2>1. q.pc = "commit" /\ purse' = [purse EXCEPT ![p] = m]
    BY <1>4, Creates
  <2>2. m \in PurseRow /\ m.group = q.group /\ q.group \in Groups
    BY <1>0, <2>1 DEF Request, Holds, PurseRow
  <2>3. Holds(req'[r])
    BY <1>4, <2>2, Creates DEF Holds
  <2>. HIDE DEF m
  <2>4. /\ purse' \in [Purses -> PurseRow]
        /\ \A o \in Purses : purse'[o].status # "absent" => purse'[o].group \in Groups
    BY <2>1, <2>2, TypeFacts
  <2>5. made' \in [Keys -> Nat]
    BY <1>4, Creates, TypeFacts
  <2>6. /\ req' \in [Requests -> Request] /\ Keeps(r)
        /\ UNCHANGED <<registered, cohort, member, invite, row, adminRow, key, edits,
                       admitted, raced, drifted, dropped, freed>>
    BY <1>4, Creates
  <2>7. QED
    BY <2>3, <2>4, <2>5, <2>6, TypeKept, TypeFacts
<1>5. CASE FindMembers(r)
  <2>1. Holds(req'[r])
    BY <1>0, <1>5, Finds DEF Holds
  <2>2. QED
    BY <1>5, <2>1, Finds, TypeQuiet
<1>6. CASE EnrolMembers(r)
  <2> DEFINE batch == {q.purse} \X q.people
             admins == {<<q.purse, u>> : u \in {v \in Users : <<v, q.group>> \in Admins}}
  <2>1. /\ q.purse \in Purses /\ q.group \in Groups /\ q.people \in SUBSET Users
        /\ q.key \in Keys \cup {None}
    BY <1>0, <1>6 DEF EnrolMembers, Holds, Request
  <2>2. row \cup batch \in SUBSET (Purses \X Users) /\ adminRow \cup admins \in SUBSET (Purses \X Users)
    <3>1. \A u \in Users : <<q.purse, u>> \in Purses \X Users
      BY <2>1
    <3>2. batch \subseteq Purses \X Users /\ admins \subseteq Purses \X Users
      BY <2>1, <3>1
    <3>. HIDE DEF batch, admins
    <3>3. QED
      BY <3>2, TypeFacts
  <2>3. dropped \cup {q.purse} \in SUBSET (Users \cup Purses)
    BY <2>1, TypeFacts
  <2>4. /\ q.key # None => Holds([Closed EXCEPT !.pc = "release", !.key = q.key])
        /\ q.key # None => Holds([Closed EXCEPT !.pc = "complete", !.key = q.key, !.purse = q.purse])
    BY <2>1 DEF Holds, Closed
  <2>. HIDE DEF admins
  <2>5. CASE batch \cap row # {} /\ q.key = None
    BY <1>6, <2>3, <2>5, SweepsNot, ClosedIsTyped, TypeKept, TypeFacts
  <2>6. CASE batch \cap row # {} /\ q.key # None
    BY <1>6, <2>3, <2>4, <2>6, SweepsNotUnderKey, TypeKept, TypeFacts
  <2>7. CASE batch \cap row = {} /\ q.key = None
    BY <1>6, <2>2, <2>7, Sweeps, ClosedIsTyped, TypeKept, TypeFacts DEF admins
  <2>8. CASE batch \cap row = {} /\ q.key # None
    BY <1>6, <2>2, <2>4, <2>8, SweepsUnderKey, TypeKept, TypeFacts DEF admins
  <2>9. QED
    BY <2>5, <2>6, <2>7, <2>8
<1>7. CASE Complete(r)
  <2>1. key' \in [Keys -> {"free", "pending"} \cup Purses]
    BY <1>0, <1>7, Completes, TypeFacts DEF Holds
  <2>2. QED
    BY <1>7, <2>1, Completes, ClosedIsTyped, TypeKept, TypeFacts
<1>8. CASE Release(r)
  <2>1. key' \in [Keys -> {"free", "pending"} \cup Purses] /\ freed' \in SUBSET Keys
    BY <1>0, <1>8, Releases, TypeFacts DEF Holds
  <2>2. QED
    BY <1>8, <2>1, Releases, ClosedIsTyped, TypeKept, TypeFacts
<1>9. QED
  BY <1>1, <1>2, <1>3, <1>4, <1>5, <1>6, <1>7, <1>8

LEMMA TypeEdit ==
    ASSUME TInv, NEW r \in Requests, SelectMembers(r) \/ EditCohortCommit(r)
    PROVE  TInv'
<1> DEFINE q == req[r]
<1>1. CASE SelectMembers(r)
  <2>1. Holds(req'[r])
    BY <1>1, Typed, Selects DEF Holds
  <2>2. QED
    BY <1>1, <2>1, Selects, TypeQuiet
<1>2. CASE EditCohortCommit(r)
  <2>1. q.group \in Groups /\ q.cohort \in Cohorts /\ q.people \in SUBSET Users
    BY <1>2, Typed, Edits DEF Holds, Request
  <2>2. cohort' \in [Groups -> Cohorts \cup {None}]
    <3>1. cohort' \in {cohort, [cohort EXCEPT ![q.group] = q.cohort]}
      BY <1>2, Edits
    <3>. HIDE DEF q
    <3>2. QED
      BY <2>1, <3>1, TypeFacts
  <2>3. member' \in [Users -> [Groups -> MemberRow]]
    <3>1. \A u \in Users, g \in Groups : /\ member[u][g] \in MemberRow
                                         /\ [member[u][g] EXCEPT !.cohort = q.cohort] \in MemberRow
      <4>1. \A u \in Users, g \in Groups : member[u][g] \in MemberRow
        BY TypeFacts
      <4>2. QED
        BY <2>1, <4>1 DEF MemberRow
    <3>2. member' = [u \in Users |-> [g \in Groups |->
                       IF g = q.group /\ u \in q.people /\ member[u][g].state = "active"
                       THEN [member[u][g] EXCEPT !.cohort = q.cohort] ELSE member[u][g]]]
      BY <1>2, Edits
    <3>. HIDE DEF q
    <3>3. QED
      BY <3>1, <3>2
  <2>4. dropped' \in SUBSET (Users \cup Purses)
    BY <1>2, Edits, TypeFacts
  <2>5. drifted' \in SUBSET (Users \X Groups)
    <3>1. drifted' \in {drifted, drifted \cup (q.people \X {q.group})}
      BY <1>2, Edits
    <3>2. q.people \X {q.group} \subseteq Users \X Groups
      BY <2>1
    <3>3. QED
      BY <3>1, <3>2, TypeFacts
  <2>6. QED
    BY <1>2, <2>2, <2>3, <2>4, <2>5, Edits, ClosedIsTyped, TypeKept, TypeFacts
<1>3. QED
  BY <1>1, <1>2

LEMMA TypeArrive ==
    ASSUME TInv, NEW r \in Requests, Arrive(r)
    PROVE  TInv'
<1> USE DEF dbVars, historyVars
<1>1. ASSUME NEW u \in Users, NEW i \in Invites, Resolve(r, u, i)
      PROVE  TInv'
  <2>1. Holds(req'[r])
    <3>1. /\ req'[r].pc \in {"register", "admit"} /\ req'[r].user \in Users
          /\ req'[r].group \in Groups /\ req'[r].invite \in Invites
      BY <1>1, Resolves
    <3>2. QED
      BY <3>1 DEF Holds
  <2>2. raced' \in SUBSET Invites
    <3>1. raced' \in {raced, raced \cup {i}}
      BY <1>1, Resolves
    <3>2. QED
      BY <3>1, TypeFacts
  <2>3. /\ req' \in [Requests -> Request] /\ Keeps(r)
        /\ UNCHANGED <<dbVars, key, edits, admitted, drifted, dropped, made, freed>>
    BY <1>1, Resolves
  <2>4. QED
    BY <2>1, <2>2, <2>3, TypeKept, TypeFacts
<1>2. ASSUME NEW g \in Groups, NEW k \in Keys \cup {None}, CreatePurse(r, g, k)
      PROVE  TInv'
  <2>1. Holds(req'[r])
    BY <1>2, Asks DEF Holds
  <2>2. QED
    BY <1>2, <2>1, Asks, TypeQuiet
<1>3. ASSUME NEW p \in Purses, NEW u \in Users, AddMember(r, p, u)
      PROVE  TInv'
  <2>1. Holds(req'[r])
    BY <1>3, Adds DEF Holds
  <2>2. QED
    BY <1>3, <2>1, Adds, TypeQuiet
<1>4. ASSUME NEW g \in Groups, NEW c \in Cohorts, EditCohort(r, g, c)
      PROVE  TInv'
  <2>1. Holds(req'[r])
    BY <1>4, OpensEdit DEF Holds
  <2>2. edits' \in Nat
    BY <1>4, OpensEdit, TypeFacts
  <2>3. /\ req' \in [Requests -> Request] /\ Keeps(r)
        /\ UNCHANGED <<dbVars, key, historyVars>>
    BY <1>4, OpensEdit
  <2>4. QED
    BY <2>1, <2>2, <2>3, TypeKept, TypeFacts
<1>5. QED
  BY <1>1, <1>2, <1>3, <1>4 DEF Arrive, Join, JoinAdditionalGroup

LEMMA TypeOutside ==
    ASSUME TInv, Outside
    PROVE  TInv'
<1> USE DEF dbVars, historyVars
<1>1. ASSUME NEW i \in Invites, NEW g \in Groups, NEW p \in Purses \cup {None}, CreateInvite(i, g, p)
      PROVE  TInv'
  <2> DEFINE n == [invite[i] EXCEPT !.state = "live", !.group = g, !.purse = p]
  <2>1. invite' = [invite EXCEPT ![i] = n]
    BY <1>1, TypeFacts DEF CreateInvite
  <2>2. n \in InviteRow /\ n.group = g
    <3>1. invite[i] \in InviteRow
      BY TypeFacts
    <3>2. QED
      BY <3>1 DEF InviteRow
  <2>3. UNCHANGED <<registered, cohort, member, purse, row, adminRow, key, req, edits, historyVars>>
    BY <1>1 DEF CreateInvite
  <2>. HIDE DEF n
  <2>4. invite' \in [Invites -> InviteRow]
    BY <2>1, <2>2, TypeFacts
  <2>5. \A j \in Invites : invite'[j].state # "absent" => invite'[j].group \in Groups
    BY <2>1, <2>2, TypeFacts DEF TInv
  <2>6. QED
    BY <2>3, <2>4, <2>5 DEF TInv, TypeOK, Holds
<1>2. ASSUME NEW i \in Invites, RevokeInvite(i) \/ InviteExpires(i)
      PROVE  TInv'
  <2>1. PICK n \in InviteRow : /\ n.state # "absent" /\ n.group = invite[i].group
                               /\ invite' = [invite EXCEPT ![i] = n]
    <3>1. invite[i] \in InviteRow
      BY TypeFacts
    <3>2. CASE RevokeInvite(i)
      <4> DEFINE m == [invite[i] EXCEPT !.revoked = TRUE]
      <4>1. m \in InviteRow /\ m.state # "absent" /\ m.group = invite[i].group
        BY <3>1, <3>2 DEF InviteRow, RevokeInvite
      <4>2. invite' = [invite EXCEPT ![i] = m]
        BY <3>2, TypeFacts DEF RevokeInvite
      <4>3. QED
        BY <4>1, <4>2
    <3>3. CASE InviteExpires(i)
      <4> DEFINE m == [invite[i] EXCEPT !.state = "expired"]
      <4>1. m \in InviteRow /\ m.state # "absent" /\ m.group = invite[i].group
        BY <3>1 DEF InviteRow
      <4>2. invite' = [invite EXCEPT ![i] = m]
        BY <3>3, TypeFacts DEF InviteExpires
      <4>3. QED
        BY <4>1, <4>2
    <3>4. QED
      BY <1>2, <3>2, <3>3
  <2>2. invite[i].state # "absent"
    BY <1>2 DEF RevokeInvite, InviteExpires
  <2>3. invite' \in [Invites -> InviteRow]
    BY <2>1, TypeFacts
  <2>4. \A j \in Invites : invite'[j].state # "absent" => invite'[j].group \in Groups
    BY <2>1, <2>2, TypeFacts DEF TInv
  <2>5. UNCHANGED <<registered, cohort, member, purse, row, adminRow, key, req, edits, historyVars>>
    BY <1>2 DEF RevokeInvite, InviteExpires
  <2>6. QED
    BY <2>3, <2>4, <2>5 DEF TInv, TypeOK, Holds
<1>3. ASSUME NEW k \in Keys, KeyExpires(k)
      PROVE  TInv'
  <2>1. key' \in [Keys -> {"free", "pending"} \cup Purses] /\ freed' \in SUBSET Keys
    BY <1>3, TypeFacts DEF KeyExpires
  <2>2. UNCHANGED <<dbVars, req, edits, admitted, raced, drifted, dropped, made>>
    BY <1>3 DEF KeyExpires
  <2>3. QED
    BY <2>1, <2>2 DEF TInv, TypeOK, Holds
<1>4. ASSUME NEW p \in Purses, ClosePurse(p) \/ ReopenPurse(p)
      PROVE  TInv'
  <2>1. PICK st \in {"open", "closed"} : purse' = [purse EXCEPT ![p].status = st]
    BY <1>4 DEF ClosePurse, ReopenPurse
  <2>2. purse[p].status # "absent" /\ dropped' \in SUBSET (Users \cup Purses)
    BY <1>4, TypeFacts DEF ClosePurse, ReopenPurse
  <2> DEFINE n == [purse[p] EXCEPT !.status = st]
  <2>3. n \in PurseRow /\ n.group = purse[p].group /\ purse' = [purse EXCEPT ![p] = n]
    <3>1. purse[p] \in PurseRow
      BY TypeFacts
    <3>2. n \in PurseRow /\ n.group = purse[p].group
      BY <3>1 DEF PurseRow
    <3>3. QED
      BY <2>1, <3>2, TypeFacts
  <2>. HIDE DEF n
  <2>4. /\ purse' \in [Purses -> PurseRow]
        /\ \A o \in Purses : purse'[o].status # "absent" => purse'[o].group \in Groups
    BY <2>2, <2>3, TypeFacts
  <2>5. UNCHANGED <<registered, cohort, member, invite, row, adminRow, key, req, edits,
                    admitted, raced, drifted, made, freed>>
    BY <1>4 DEF ClosePurse, ReopenPurse
  <2>6. QED
    BY <2>2, <2>4, <2>5 DEF TInv, TypeOK, Holds
<1>5. ASSUME NEW u \in Users, NEW g \in Groups, RemoveMember(u, g)
      PROVE  TInv'
  <2> DEFINE n == [member[u][g] EXCEPT !.state = "removed"]
  <2>1. n \in MemberRow
    <3>1. member[u][g] \in MemberRow
      BY TypeFacts
    <3>2. QED
      BY <3>1 DEF MemberRow
  <2>2. member' = [member EXCEPT ![u][g] = n]
    BY <1>5, TypeFacts DEF RemoveMember
  <2>3. UNCHANGED <<registered, cohort, invite, purse, row, adminRow, key, req, edits, historyVars>>
    BY <1>5 DEF RemoveMember
  <2>. HIDE DEF n
  <2>4. member' \in [Users -> [Groups -> MemberRow]]
    BY <2>1, <2>2, TypeFacts
  <2>5. QED
    BY <2>3, <2>4 DEF TInv, TypeOK, Holds
<1>6. ASSUME Crash
      PROVE  TInv'
  <2>1. req' = [r \in Requests |-> Closed] /\ UNCHANGED <<dbVars, key, edits, admitted, drifted, made, freed>>
    BY <1>6 DEF Crash
  <2>2. raced' \in SUBSET Invites /\ dropped' \in SUBSET (Users \cup Purses)
    BY <1>6, TypeFacts DEF Crash
  <2>3. req' \in [Requests -> Request] /\ \A r \in Requests : req'[r] = Closed
    BY <2>1, ClosedIsTyped
  <2>4. \A r \in Requests : Holds(req[r])'
    BY <2>3 DEF Holds, Closed
  <2>5. QED
    BY <2>1, <2>2, <2>3, <2>4 DEF TInv, TypeOK
<1>7. QED
  BY <1>1, <1>2, <1>3, <1>4, <1>5, <1>6 DEF Outside

LEMMA TypeInit ==
    ASSUME Init
    PROVE  TInv
<1>1. req \in [Requests -> Request] /\ \A r \in Requests : req[r] = Closed
  BY ClosedIsTyped DEF Init
<1>2. \A r \in Requests : Holds(req[r])
  BY <1>1, ClosedIsTyped
<1>3. TypeOK
  BY <1>1, NamesAssumption DEF Init, TypeOK, MemberRow, InviteRow, PurseRow
<1>4. QED
  BY <1>2, <1>3 DEF Init, TInv

LEMMA TypeStep ==
    ASSUME TInv, [Next]_vars
    PROVE  TInv'
<1>1. ASSUME NEW r \in Requests, Step(r) PROVE TInv'
  BY <1>1, TypeJoin, TypeEnrol, TypeCreate, TypeEdit DEF Step
<1>2. ASSUME NEW r \in Requests, Arrive(r) PROVE TInv'
  BY <1>2, TypeArrive
<1>3. CASE UNCHANGED vars
  BY <1>3 DEF vars, dbVars, historyVars, TInv, TypeOK, Holds
<1>4. QED
  BY <1>1, <1>2, <1>3, TypeOutside DEF Next

\* The rows, the keys and the open requests keep their types, and a request
\* holds at each of its steps what the step uses.
THEOREM TypeCorrect == Spec => []TypeOK
<1>1. Init => TInv
  BY TypeInit
<1>2. TInv /\ [Next]_vars => TInv'
  BY TypeStep
<1>3. TInv => TypeOK
  BY DEF TInv
<1>4. QED
  BY <1>1, <1>2, <1>3, PTL DEF Spec

LEMMA Invariance == Spec => []TInv
<1>1. Init => TInv
  BY TypeInit
<1>2. TInv /\ [Next]_vars => TInv'
  BY TypeStep
<1>3. QED
  BY <1>1, <1>2, PTL DEF Spec

-----------------------------------------------------------------------------
(* One purse per key                                                       *)

Holding == {"create", "commit", "sweep", "insert", "complete", "release"}

\* A step that does not touch the keys; its request starts to hold no key that
\* was never given up.
LEMMA KeyQuiet ==
    ASSUME KeyInv, NEW r \in Requests, Keeps(r), UNCHANGED <<key, made, freed>>,
           req'[r].pc \in Holding /\ req'[r].key \in Keys \ freed =>
               req[r].pc \in Holding /\ req[r].key = req'[r].key,
           req'[r].pc \in {"create", "commit"} /\ req'[r].key \in Keys \ freed =>
               req[r].pc \in {"create", "commit"}
    PROVE  KeyInv'
<1> SUFFICES ASSUME NEW k \in Keys \ freed
             PROVE  /\ \A s, t \in Holders(k)' : s = t
                    /\ \A s \in Holders(k)' : key[k] # "free"
                    /\ \A s \in Holders(k)' : req'[s].pc \in {"create", "commit"} => made[k] = 0
                    /\ key[k] = "free" => made[k] = 0
                    /\ made[k] <= 1
  BY DEF KeyInv
<1>1. Holders(k)' \subseteq Holders(k)
  BY DEF Holders, Keeps, Holding
<1>2. \A s \in Holders(k)' : req'[s].pc \in {"create", "commit"} => req[s].pc \in {"create", "commit"}
  BY DEF Holders, Keeps
<1>3. QED
  BY <1>1, <1>2 DEF KeyInv

\* The steps of a join, of AddMember and of an edit hold no key.
LEMMA KeyElsewhere ==
    ASSUME TInv, KeyInv, NEW r \in Requests,
           \/ JoinCommit(r) \/ Redeem(r) \/ LookForPurses(r) \/ SkipEnrolled(r)
           \/ EnrolNewMember(r) \/ LookForInvited(r) \/ EnrolOne(r)
           \/ SelectMembers(r) \/ EditCohortCommit(r)
    PROVE  KeyInv'
<1> USE DEF historyVars
<1>1. CASE JoinCommit(r)
  BY <1>1, Commits, CommitsNot, ClosedIsTyped, KeyQuiet DEF Holding
<1>2. CASE Redeem(r)
  BY <1>2, Redeems, RedeemsNot, ClosedIsTyped, KeyQuiet DEF Holding
<1>3. CASE LookForPurses(r)
  BY <1>3, Looks, KeyQuiet DEF Holding
<1>4. CASE SkipEnrolled(r)
  BY <1>4, Skips, KeyQuiet DEF Holding
<1>5. CASE EnrolNewMember(r)
  BY <1>5, Enrols, EnrolsNot, EnrolsInvited, ClosedIsTyped, KeyQuiet DEF Holding
<1>6. CASE LookForInvited(r)
  BY <1>6, Invited, InvitedNot, ClosedIsTyped, KeyQuiet DEF Holding
<1>7. CASE EnrolOne(r)
  BY <1>7, EnrolsOne, ClosedIsTyped, KeyQuiet DEF Holding
<1>8. CASE EditCohortCommit(r)
  BY <1>8, Edits, ClosedIsTyped, KeyQuiet DEF Holding
<1>9. CASE SelectMembers(r)
  BY <1>9, Selects, KeyQuiet DEF Holding
<1>10. QED
  BY <1>1, <1>2, <1>3, <1>4, <1>5, <1>6, <1>7, <1>8, <1>9

\* A free key that was never given up has no holder, and the one that
\* reserves it becomes its only one.
LEMMA KeyBegin ==
    ASSUME TInv, KeyInv, NEW r \in Requests, Begin(r)
    PROVE  KeyInv'
<1> DEFINE q == req[r]
<1>1. CASE key[q.key] # "free"
  BY <1>1, BeginsNot, ClosedIsTyped, KeyQuiet DEF Holding, historyVars
<1>2. CASE key[q.key] = "free"
  <2>1. /\ q.pc = "answer" /\ req'[r].pc = "create" /\ req'[r].key = q.key /\ Keeps(r)
        /\ key' = [key EXCEPT ![q.key] = "pending"] /\ UNCHANGED <<made, freed>>
    BY <1>2, Begins DEF historyVars
  <2>2. q.key \in Keys /\ key \in [Keys -> {"free", "pending"} \cup Purses]
    BY <2>1, Typed, TypeFacts DEF Holds
  <2> SUFFICES ASSUME NEW k \in Keys \ freed
               PROVE  /\ \A s, t \in Holders(k)' : s = t
                      /\ \A s \in Holders(k)' : key'[k] # "free"
                      /\ \A s \in Holders(k)' : req'[s].pc \in {"create", "commit"} => made[k] = 0
                      /\ key'[k] = "free" => made[k] = 0
                      /\ made[k] <= 1
    BY <2>1 DEF KeyInv
  <2>3. CASE k = q.key
    <3>1. Holders(k) = {} /\ made[k] = 0
      BY <1>2, <2>3 DEF KeyInv
    <3>2. Holders(k)' = {r}
      BY <2>1, <2>3, <3>1 DEF Holders, Keeps
    <3>3. key'[k] = "pending"
      BY <2>1, <2>2, <2>3
    <3>4. QED
      BY <3>1, <3>2, <3>3
  <2>4. CASE k # q.key
    <3>1. Holders(k)' = Holders(k) /\ r \notin Holders(k)
      BY <2>1, <2>4 DEF Holders, Keeps
    <3>2. \A s \in Holders(k) : req'[s] = req[s]
      BY <2>1, <3>1 DEF Keeps, Holders
    <3>3. key'[k] = key[k]
      BY <2>1, <2>2, <2>4
    <3>4. QED
      BY <3>1, <3>2, <3>3 DEF KeyInv
  <2>5. QED
    BY <2>3, <2>4
<1>3. QED
  BY <1>1, <1>2

\* A purse is made by the key's one holder, which had not made one.
LEMMA KeyMakes ==
    ASSUME TInv, KeyInv, NEW r \in Requests, NEW p \in Purses, CommitPurse(r, p)
    PROVE  KeyInv'
<1> DEFINE q == req[r]
<1>1. /\ q.pc = "commit" /\ req'[r].pc = "sweep" /\ req'[r].key = q.key /\ Keeps(r)
      /\ made' = [k \in Keys |-> IF k = q.key THEN made[k] + 1 ELSE made[k]]
      /\ UNCHANGED <<key, freed>>
  BY Creates
<1> SUFFICES ASSUME NEW k \in Keys \ freed
             PROVE  /\ \A s, t \in Holders(k)' : s = t
                    /\ \A s \in Holders(k)' : key[k] # "free"
                    /\ \A s \in Holders(k)' : req'[s].pc \in {"create", "commit"} => made'[k] = 0
                    /\ key[k] = "free" => made'[k] = 0
                    /\ made'[k] <= 1
  BY <1>1 DEF KeyInv
<1>2. Holders(k)' = Holders(k)
  BY <1>1 DEF Holders, Keeps
<1>3. CASE k = q.key
  <2>1. Holders(k) = {r}
    BY <1>1, <1>3 DEF Holders, KeyInv
  <2>2. made[k] = 0 /\ key[k] # "free" /\ made'[k] = 1
    BY <1>1, <1>3, <2>1 DEF KeyInv
  <2>3. QED
    BY <1>1, <1>2, <2>1, <2>2
<1>4. CASE k # q.key
  <2>1. made'[k] = made[k]
    BY <1>1, <1>4
  <2>2. \A s \in Holders(k) : req'[s] = req[s]
    BY <1>1, <1>4 DEF Holders, Keeps
  <2>3. QED
    BY <1>2, <2>1, <2>2 DEF KeyInv
<1>5. QED
  BY <1>3, <1>4

\* The answer stays under the key.
LEMMA KeyAnswers ==
    ASSUME TInv, KeyInv, NEW r \in Requests, Complete(r) \/ Release(r)
    PROVE  KeyInv'
<1> DEFINE q == req[r]
<1>1. PICK v \in {"free"} \cup Purses :
         /\ q.pc \in {"complete", "release"} /\ req'[r] = Closed /\ Keeps(r)
         /\ key' = [key EXCEPT ![q.key] = v] /\ made' = made
         /\ freed \subseteq freed' /\ (v \in Purses \/ q.key \in freed')
  <2>1. CASE Complete(r)
    <3>1. q.purse \in Purses
      BY <2>1, Completes, Typed DEF Holds
    <3>2. QED
      BY <2>1, <3>1, Completes DEF historyVars
  <2>2. CASE Release(r)
    BY <2>2, Releases
  <2>3. QED
    BY <2>1, <2>2
<1>2. q.key \in Keys /\ key \in [Keys -> {"free", "pending"} \cup Purses]
  BY <1>1, Typed, TypeFacts DEF Holds
<1> SUFFICES ASSUME NEW k \in Keys \ freed'
             PROVE  /\ \A s, t \in Holders(k)' : s = t
                    /\ \A s \in Holders(k)' : key'[k] # "free"
                    /\ \A s \in Holders(k)' : req'[s].pc \in {"create", "commit"} => made[k] = 0
                    /\ key'[k] = "free" => made[k] = 0
                    /\ made[k] <= 1
  BY <1>1 DEF KeyInv
<1>3. k \in Keys \ freed /\ Holders(k)' = Holders(k) \ {r}
  <2>1. k \in Keys \ freed
    BY <1>1
  <2>2. r \notin Holders(k)'
    BY <1>1, ClosedIsTyped DEF Holders
  <2>3. \A s \in Requests \ {r} : s \in Holders(k)' <=> s \in Holders(k)
    BY <1>1 DEF Holders, Keeps
  <2>4. QED
    BY <2>1, <2>2, <2>3 DEF Holders
<1>4. \A s \in Holders(k)' : req'[s] = req[s]
  BY <1>1, <1>3 DEF Keeps, Holders
<1>5. CASE k = q.key
  <2>1. r \in Holders(k)
    BY <1>1, <1>5 DEF Holders
  <2>2. Holders(k)' = {}
    BY <1>3, <2>1 DEF KeyInv
  <2>3. key'[k] # "free"
    BY <1>1, <1>2, <1>5, NamesAssumption
  <2>4. QED
    BY <1>3, <2>2, <2>3 DEF KeyInv
<1>6. CASE k # q.key
  <2>1. key'[k] = key[k]
    BY <1>1, <1>2, <1>6
  <2>2. QED
    BY <1>3, <1>4, <2>1 DEF KeyInv
<1>7. QED
  BY <1>5, <1>6

\* A batch that is in or has failed leaves the request nothing but its answer.
LEMMA SweepEnds ==
    ASSUME TInv, NEW r \in Requests, EnrolMembers(r)
    PROVE  /\ req[r].pc = "insert" /\ req' \in [Requests -> Request] /\ Keeps(r)
           /\ req'[r].pc \in {"idle", "release", "complete"}
           /\ req'[r].pc # "idle" => req'[r].key = req[r].key
           /\ req'[r].user = None /\ req'[r].invite = None
           /\ UNCHANGED <<registered, cohort, member, invite, purse, key, edits,
                          admitted, raced, drifted, made, freed>>
<1> DEFINE batch == {req[r].purse} \X req[r].people
<1>1. CASE batch \cap row # {} /\ req[r].key = None
  BY <1>1, SweepsNot DEF Closed
<1>2. CASE batch \cap row # {} /\ req[r].key # None
  BY <1>2, SweepsNotUnderKey DEF Closed
<1>3. CASE batch \cap row = {} /\ req[r].key = None
  BY <1>3, Sweeps DEF Closed
<1>4. CASE batch \cap row = {} /\ req[r].key # None
  BY <1>4, SweepsUnderKey DEF Closed
<1>5. QED
  BY <1>1, <1>2, <1>3, <1>4

LEMMA KeySwept ==
    ASSUME TInv, KeyInv, NEW r \in Requests, EnrolMembers(r)
    PROVE  KeyInv'
BY SweepEnds, KeyQuiet DEF Holding

LEMMA KeyArrive ==
    ASSUME TInv, KeyInv, NEW r \in Requests, Arrive(r)
    PROVE  KeyInv'
<1> USE DEF historyVars
<1>1. ASSUME NEW u \in Users, NEW i \in Invites, Resolve(r, u, i)
      PROVE  KeyInv'
  BY <1>1, Resolves, KeyQuiet DEF Holding
<1>2. ASSUME NEW g \in Groups, NEW k \in Keys \cup {None}, CreatePurse(r, g, k)
      PROVE  KeyInv'
  <2>1. /\ req[r].pc = "idle" /\ Keeps(r) /\ UNCHANGED <<key, made, freed>>
        /\ req'[r].pc \in Holding => req'[r].key = None
    BY <1>2, Asks DEF Holding
  <2>2. None \notin Keys /\ "create" \in Holding /\ "commit" \in Holding
    BY NamesAssumption DEF Holding
  <2>3. QED
    BY <2>1, <2>2, KeyQuiet
<1>3. ASSUME NEW p \in Purses, NEW u \in Users, AddMember(r, p, u)
      PROVE  KeyInv'
  BY <1>3, Adds, KeyQuiet DEF Holding
<1>4. ASSUME NEW g \in Groups, NEW c \in Cohorts, EditCohort(r, g, c)
      PROVE  KeyInv'
  BY <1>4, OpensEdit, KeyQuiet DEF Holding
<1>5. QED
  BY <1>1, <1>2, <1>3, <1>4 DEF Arrive, Join, JoinAdditionalGroup

LEMMA KeyOutside ==
    ASSUME TInv, KeyInv, Outside
    PROVE  KeyInv'
<1> USE DEF dbVars, historyVars
<1>1. ASSUME NEW k \in Keys, KeyExpires(k)
      PROVE  KeyInv'
  <2>1. /\ \A l \in Keys \ freed' : l \in Keys \ freed /\ key'[l] = key[l]
        /\ UNCHANGED <<req, made>>
    BY <1>1, TypeFacts DEF KeyExpires
  <2>2. \A l \in Keys : Holders(l)' = Holders(l)
    BY <2>1 DEF Holders
  <2>3. QED
    BY <2>1, <2>2 DEF KeyInv
<1>2. ASSUME Crash
      PROVE  KeyInv'
  <2>1. UNCHANGED <<key, made, freed>> /\ \A k \in Keys : Holders(k)' = {}
    BY <1>2 DEF Crash, Holders, Closed
  <2>2. QED
    BY <2>1 DEF KeyInv
<1>3. ASSUME UNCHANGED <<req, key, made, freed>>
      PROVE  KeyInv'
  BY <1>3 DEF KeyInv, Holders
<1>4. QED
  BY <1>1, <1>2, <1>3 DEF Outside, CreateInvite, RevokeInvite, InviteExpires, ClosePurse, ReopenPurse, RemoveMember

LEMMA KeyStep ==
    ASSUME TInv, KeyInv, [Next]_vars
    PROVE  KeyInv'
<1>1. ASSUME NEW r \in Requests, Step(r)
      PROVE  KeyInv'
  <2>1. CASE BeginUnreserved(r)
    BY <2>1, BeginsUnreserved, KeyQuiet DEF historyVars
  <2>2. CASE ReadGroup(r)
    BY <2>2, Reads, KeyQuiet DEF Holding, historyVars
  <2>3. CASE FindMembers(r)
    BY <2>3, Finds, KeyQuiet DEF Holding, historyVars
  <2>4. CASE EnrolMembers(r)
    BY <2>4, KeySwept
  <2>5. QED
    BY <1>1, <2>1, <2>2, <2>3, <2>4, KeyElsewhere, KeyBegin, KeyMakes, KeyAnswers DEF Step
<1>2. ASSUME NEW r \in Requests, Arrive(r)
      PROVE  KeyInv'
  BY <1>2, KeyArrive
<1>3. CASE UNCHANGED vars
  BY <1>3 DEF vars, historyVars, KeyInv, Holders
<1>4. QED
  BY <1>1, <1>2, <1>3, KeyOutside DEF Next

\* Retries of a creation under one key make one purse: of the requests under a
\* key that was never given up only one has reserved it, and it answers under
\* the key before another may.
THEOREM OneKeyOnePurse == Spec => []OnePursePerKey
<1>1. Init => KeyInv
  BY ClosedIsTyped, NamesAssumption DEF Init, KeyInv, Holders, Closed
<1>2. TInv /\ KeyInv /\ [Next]_vars => KeyInv'
  BY KeyStep
<1>3. KeyInv => OnePursePerKey
  BY DEF KeyInv, OnePursePerKey
<1>4. QED
  BY <1>1, <1>2, <1>3, Invariance, PTL DEF Spec

-----------------------------------------------------------------------------
(* The limit of an invite                                                  *)

\* A step of a request that is no join, or of a join that ends before it has
\* committed its member, or of one that is cut short.
LEMMA UseQuiet ==
    ASSUME UseInv, NEW r \in Requests, Keeps(r), admitted' = admitted,
           \A i \in raced : i \in raced',
           \A i \in Invites : invite'[i].used = invite[i].used,
           req'[r].pc \notin {"register", "admit", "redeem"},
           req[r].pc = "redeem" => req[r].invite \in raced'
    PROVE  UseInv'
<1> SUFFICES ASSUME NEW i \in Invites, i \notin raced'
             PROVE  UseOf(i)'
  BY DEF UseInv
<1>1. UseOf(i)
  BY DEF UseInv
<1>2. JoinsBy(i)' = JoinsBy(i) \ {r}
  BY DEF JoinsBy, Keeps
<1>3. \A s \in JoinsBy(i)' : req'[s] = req[s]
  BY <1>2 DEF Keeps, JoinsBy
<1>4. CASE r \in JoinsBy(i)
  <2>1. req[r].pc # "redeem" /\ JoinsBy(i) = {r}
    BY <1>1, <1>4 DEF JoinsBy, UseOf
  <2>2. QED
    BY <1>1, <1>2, <2>1 DEF UseOf
<1>5. CASE r \notin JoinsBy(i)
  BY <1>1, <1>2, <1>3, <1>5 DEF UseOf
<1>6. QED
  BY <1>4, <1>5

\* A step that leaves the joins alone.
LEMMA UseAlone ==
    ASSUME UseInv, NEW r \in Requests, Keeps(r), UNCHANGED <<admitted, raced, invite>>,
           req[r].pc \notin {"register", "admit", "redeem"}, req'[r].pc \notin {"register", "admit", "redeem"}
    PROVE  UseInv'
BY UseQuiet

LEMMA UseCommit ==
    ASSUME TInv, UseInv, NEW r \in Requests, JoinCommit(r)
    PROVE  UseInv'
<1> DEFINE q == req[r]
<1>1. CASE Taken(q)
  BY <1>1, CommitsNot, ClosedIsTyped, UseQuiet DEF dbVars, historyVars
<1>2. CASE ~Taken(q)
  <2>1. /\ q.pc \in {"register", "admit"} /\ req'[r].pc = "redeem" /\ Keeps(r)
        /\ req'[r].invite = q.invite /\ req'[r].seen = q.seen
        /\ admitted' = [admitted EXCEPT ![q.invite] = @ + 1]
        /\ UNCHANGED <<invite, raced>>
    BY <1>2, Commits
  <2>2. q.invite \in Invites /\ admitted \in [Invites -> Nat]
    BY <2>1, Typed, TypeFacts DEF Holds
  <2> SUFFICES ASSUME NEW i \in Invites, i \notin raced
               PROVE  UseOf(i)'
    BY <2>1 DEF UseInv
  <2>3. UseOf(i)
    BY DEF UseInv
  <2>4. JoinsBy(i)' = JoinsBy(i)
    BY <2>1 DEF JoinsBy, Keeps
  <2>5. CASE i = q.invite
    <3>1. JoinsBy(i) = {r}
      BY <2>1, <2>3, <2>5 DEF JoinsBy, UseOf
    <3>2. admitted[i] = invite[i].used /\ admitted'[i] = admitted[i] + 1
      BY <2>1, <2>2, <2>3, <2>5, <3>1 DEF UseOf
    <3>3. QED
      BY <2>1, <2>3, <2>4, <2>5, <3>1, <3>2 DEF UseOf
  <2>6. CASE i # q.invite
    <3>1. admitted'[i] = admitted[i] /\ \A s \in JoinsBy(i) : req'[s] = req[s]
      BY <2>1, <2>2, <2>6 DEF JoinsBy, Keeps
    <3>2. QED
      BY <2>1, <2>3, <2>4, <3>1 DEF UseOf
  <2>7. QED
    BY <2>5, <2>6
<1>3. QED
  BY <1>1, <1>2

LEMMA UseRedeem ==
    ASSUME TInv, UseInv, NEW r \in Requests, Redeem(r)
    PROVE  UseInv'
<1> DEFINE q == req[r]
<1>1. CASE invite[q.invite].state = "expired"
  <2>1. /\ q.pc = "redeem" /\ req'[r] = Closed /\ Keeps(r) /\ raced' = raced \cup {q.invite}
        /\ UNCHANGED <<invite, admitted>>
    BY <1>1, RedeemsNot DEF dbVars
  <2>2. QED
    BY <2>1, ClosedIsTyped, UseQuiet
<1>2. CASE invite[q.invite].state # "expired"
  <2>1. /\ q.pc = "redeem" /\ req'[r].pc = "look" /\ Keeps(r)
        /\ invite' = [invite EXCEPT ![q.invite].used = q.seen + 1]
        /\ UNCHANGED <<admitted, raced>>
    BY <1>2, Redeems DEF historyVars
  <2>2. q.invite \in Invites /\ q.seen \in Nat
    BY <2>1, Typed DEF Holds, Request
  <2>3. /\ invite'[q.invite].used = q.seen + 1
        /\ \A i \in Invites \ {q.invite} : invite'[i] = invite[i]
    <3>1. invite[q.invite] \in InviteRow /\ invite \in [Invites -> InviteRow]
      BY <2>2, TypeFacts
    <3>2. [invite[q.invite] EXCEPT !.used = q.seen + 1].used = q.seen + 1
      BY <3>1 DEF InviteRow
    <3> DEFINE n == [invite[q.invite] EXCEPT !.used = q.seen + 1]
    <3>3. invite' = [invite EXCEPT ![q.invite] = n]
      BY <2>1
    <3>. HIDE DEF n
    <3>4. invite'[q.invite] = n /\ \A i \in Invites \ {q.invite} : invite'[i] = invite[i]
      BY <2>2, <3>1, <3>3
    <3>5. QED
      BY <3>2, <3>4 DEF n
  <2> SUFFICES ASSUME NEW i \in Invites, i \notin raced
               PROVE  UseOf(i)'
    BY <2>1 DEF UseInv
  <2>4. UseOf(i)
    BY DEF UseInv
  <2>5. JoinsBy(i)' = JoinsBy(i) \ {r}
    BY <2>1 DEF JoinsBy, Keeps
  <2>6. CASE i = q.invite
    <3>1. JoinsBy(i) = {r}
      BY <2>1, <2>4, <2>6 DEF JoinsBy, UseOf
    <3>2. JoinsBy(i)' = {} /\ q.seen = invite[i].used /\ admitted[i] = q.seen + 1
      BY <2>1, <2>4, <2>5, <2>6, <3>1 DEF UseOf
    <3>3. MaxUses[i] # 0 => q.seen + 1 <= MaxUses[i]
      <4>1. MaxUses[i] \in Nat
        BY BoundsAssumption
      <4>2. MaxUses[i] # 0 => q.seen < MaxUses[i]
        BY <2>4, <3>1 DEF UseOf
      <4>3. QED
        BY <2>2, <4>1, <4>2
    <3>4. QED
      BY <2>1, <2>3, <2>6, <3>2, <3>3 DEF UseOf
  <2>7. CASE i # q.invite
    <3>1. JoinsBy(i)' = JoinsBy(i) /\ \A s \in JoinsBy(i) : req'[s] = req[s]
      BY <2>1, <2>5, <2>7 DEF JoinsBy, Keeps
    <3>2. invite'[i] = invite[i] /\ admitted' = admitted
      BY <2>1, <2>3, <2>7
    <3>3. QED
      BY <2>4, <3>1, <3>2 DEF UseOf
  <2>8. QED
    BY <2>6, <2>7
<1>3. QED
  BY <1>1, <1>2

\* A join starts while no other is under way, or the invite is raced.
LEMMA UseJoin ==
    ASSUME TInv, UseInv, NEW r \in Requests, NEW u \in Users, NEW j \in Invites, Resolve(r, u, j)
    PROVE  UseInv'
<1>1. /\ req[r].pc = "idle" /\ req'[r].pc \in {"register", "admit"} /\ req'[r].invite = j
      /\ req'[r].seen = invite[j].used /\ Keeps(r) /\ ~Exhausted(j)
      /\ raced' = IF JoinsBy(j) = {} THEN raced ELSE raced \cup {j}
      /\ UNCHANGED <<invite, admitted>>
  BY Resolves DEF dbVars
<1> SUFFICES ASSUME NEW i \in Invites, i \notin raced'
             PROVE  UseOf(i)'
  BY <1>1 DEF UseInv
<1>2. UseOf(i)
  BY <1>1 DEF UseInv
<1>3. CASE i = j
  <2>1. JoinsBy(i) = {}
    BY <1>1, <1>3
  <2>2. JoinsBy(i)' = {r}
    BY <1>1, <1>3, <2>1 DEF JoinsBy, Keeps
  <2>3. MaxUses[i] # 0 => invite[i].used < MaxUses[i]
    <3>1. MaxUses[i] \in Nat /\ invite[i] \in InviteRow
      BY BoundsAssumption, TypeFacts
    <3>2. invite[i].used \in Nat
      BY <3>1 DEF InviteRow
    <3>3. MaxUses[i] # 0 => ~(invite[i].used >= MaxUses[i])
      BY <1>1, <1>3 DEF Exhausted
    <3>4. QED
      BY <3>1, <3>2, <3>3
  <2>4. QED
    BY <1>1, <1>2, <1>3, <2>1, <2>2, <2>3 DEF UseOf
<1>4. CASE i # j
  <2>1. JoinsBy(i)' = JoinsBy(i) /\ \A s \in JoinsBy(i) : req'[s] = req[s]
    BY <1>1, <1>4 DEF JoinsBy, Keeps
  <2>2. QED
    BY <1>1, <1>2, <2>1 DEF UseOf
<1>5. QED
  BY <1>3, <1>4

LEMMA UseStep ==
    ASSUME TInv, UseInv, [Next]_vars
    PROVE  UseInv'
<1> USE DEF dbVars, historyVars
<1>1. ASSUME NEW r \in Requests, Step(r)
      PROVE  UseInv'
  <2>1. CASE LookForPurses(r) \/ SkipEnrolled(r)
    BY <2>1, Looks, Skips, UseAlone
  <2>2. CASE EnrolNewMember(r)
    BY <2>2, Enrols, EnrolsNot, EnrolsInvited, ClosedIsTyped, UseAlone
  <2>3. CASE LookForInvited(r)
    BY <2>3, Invited, InvitedNot, ClosedIsTyped, UseAlone
  <2>4. CASE EnrolOne(r)
    BY <2>4, EnrolsOne, ClosedIsTyped, UseAlone
  <2>5. CASE Begin(r)
    BY <2>5, Begins, BeginsNot, ClosedIsTyped, UseAlone
  <2>6. CASE BeginUnreserved(r) \/ ReadGroup(r) \/ FindMembers(r)
    BY <2>6, BeginsUnreserved, Reads, Finds, UseAlone
  <2>7. ASSUME NEW p \in Purses, CommitPurse(r, p)
        PROVE  UseInv'
    BY <2>7, Creates, UseAlone
  <2>8. CASE EnrolMembers(r)
    BY <2>8, SweepEnds, UseAlone
  <2>9. CASE Complete(r) \/ Release(r)
    BY <2>9, Completes, Releases, ClosedIsTyped, UseAlone
  <2>10. CASE SelectMembers(r) \/ EditCohortCommit(r)
    BY <2>10, Selects, Edits, ClosedIsTyped, UseAlone
  <2>11. QED
    BY <1>1, <2>1, <2>2, <2>3, <2>4, <2>5, <2>6, <2>7, <2>8, <2>9, <2>10, UseCommit, UseRedeem DEF Step
<1>2. ASSUME NEW r \in Requests, Arrive(r)
      PROVE  UseInv'
  <2>1. ASSUME NEW g \in Groups, NEW k \in Keys \cup {None}, CreatePurse(r, g, k)
        PROVE  UseInv'
    BY <2>1, Asks, UseAlone
  <2>2. ASSUME NEW p \in Purses, NEW u \in Users, AddMember(r, p, u)
        PROVE  UseInv'
    BY <2>2, Adds, UseAlone
  <2>3. ASSUME NEW g \in Groups, NEW c \in Cohorts, EditCohort(r, g, c)
        PROVE  UseInv'
    BY <2>3, OpensEdit, UseAlone
  <2>4. QED
    BY <1>2, <2>1, <2>2, <2>3, UseJoin DEF Arrive, Join, JoinAdditionalGroup
<1>3. CASE UNCHANGED <<req, admitted, raced>> /\ \A i \in Invites : invite'[i].used = invite[i].used
  BY <1>3 DEF UseInv, UseOf, JoinsBy
<1>4. CASE Crash
  <2>1. /\ raced' = raced \cup {i \in Invites : JoinsBy(i) # {}} /\ UNCHANGED <<invite, admitted>>
        /\ \A i \in Invites : JoinsBy(i)' = {}
    BY <1>4 DEF Crash, JoinsBy, Closed
  <2> SUFFICES ASSUME NEW i \in Invites, i \notin raced'
               PROVE  UseOf(i)'
    BY DEF UseInv
  <2>2. UseOf(i) /\ JoinsBy(i) = {}
    BY <2>1 DEF UseInv
  <2>3. QED
    BY <2>1, <2>2 DEF UseOf
<1>5. CASE Outside /\ ~Crash
  <2>1. UNCHANGED <<req, admitted, raced>>
    BY <1>5 DEF Outside, CreateInvite, RevokeInvite, InviteExpires, KeyExpires, ClosePurse, ReopenPurse, RemoveMember
  <2>2. \A i \in Invites : invite'[i].used = invite[i].used
    <3>1. ASSUME NEW i \in Invites, NEW g \in Groups, NEW p \in Purses \cup {None}, CreateInvite(i, g, p)
          PROVE  \A j \in Invites : invite'[j].used = invite[j].used
      <4>1. invite[i] \in InviteRow /\ invite \in [Invites -> InviteRow]
        BY TypeFacts
      <4> DEFINE n == [invite[i] EXCEPT !.state = "live", !.group = g, !.purse = p]
      <4>2. n.used = invite[i].used
        BY <4>1 DEF InviteRow
      <4>3. invite' = [invite EXCEPT ![i] = n]
        BY <3>1, <4>1 DEF CreateInvite
      <4>. HIDE DEF n
      <4>4. QED
        BY <4>1, <4>2, <4>3
    <3>2. ASSUME NEW i \in Invites, RevokeInvite(i) \/ InviteExpires(i)
          PROVE  \A j \in Invites : invite'[j].used = invite[j].used
      <4>1. invite[i] \in InviteRow /\ invite \in [Invites -> InviteRow]
        BY TypeFacts
      <4>2. PICK n \in {[invite[i] EXCEPT !.revoked = TRUE], [invite[i] EXCEPT !.state = "expired"]} :
               invite' = [invite EXCEPT ![i] = n]
        BY <3>2, <4>1 DEF RevokeInvite, InviteExpires
      <4>3. n.used = invite[i].used
        BY <4>1 DEF InviteRow
      <4>4. QED
        BY <4>1, <4>2, <4>3
    <3>3. QED
      BY <1>5, <3>1, <3>2 DEF Outside, KeyExpires, ClosePurse, ReopenPurse, RemoveMember
  <2>3. QED
    BY <1>3, <2>1, <2>2
<1>6. CASE UNCHANGED vars
  BY <1>3, <1>6 DEF vars
<1>7. QED
  BY <1>1, <1>2, <1>4, <1>5, <1>6 DEF Next

\* An invite whose joins never overlap admits as many members as it is good
\* for and no more, restarts and its own expiry included.
THEOREM InviteHonoured == Spec => []UseLimit
<1>1. Init => UseInv
  BY ClosedIsTyped, BoundsAssumption DEF Init, UseInv, UseOf, JoinsBy
<1>2. TInv /\ UseInv /\ [Next]_vars => UseInv'
  BY UseStep
<1>3. TInv /\ UseInv => UseLimit
  <2> SUFFICES ASSUME TInv, UseInv, NEW i \in Invites \ raced, MaxUses[i] # 0
               PROVE  admitted[i] <= MaxUses[i]
    BY DEF UseLimit
  <2>1. UseOf(i) /\ MaxUses[i] \in Nat /\ invite[i] \in InviteRow
    BY BoundsAssumption, TypeFacts DEF UseInv
  <2>2. invite[i].used \in Nat
    BY <2>1 DEF InviteRow
  <2>3. CASE \A r \in JoinsBy(i) : req[r].pc # "redeem"
    BY <2>1, <2>2, <2>3 DEF UseOf
  <2>4. ASSUME NEW r \in JoinsBy(i), req[r].pc = "redeem"
        PROVE  admitted[i] <= MaxUses[i]
    <3>1. admitted[i] = invite[i].used + 1 /\ invite[i].used < MaxUses[i]
      BY <2>1, <2>4 DEF UseOf, JoinsBy
    <3>2. QED
      BY <2>1, <2>2, <3>1
  <2>5. QED
    BY <2>3, <2>4
<1>4. QED
  BY <1>1, <1>2, <1>3, Invariance, PTL DEF Spec

-----------------------------------------------------------------------------
(* A group's cohort and its members'                                       *)

\* What the invariant says of one member of one group.
CohortOf(u, g) ==
    member[u][g].state = "active" /\ <<u, g>> \notin drifted =>
        /\ member[u][g].cohort = cohort[g]
        /\ \A r \in Requests : req[r].pc = "edit" /\ req[r].group = g => u \in req[r].people

LEMMA CohortSplit ==
    ASSUME TInv
    PROVE  CohortInv <=> \A u \in Users, g \in Groups : CohortOf(u, g)
<1>1. \A r \in Requests : req[r].pc = "edit" => req[r].group \in Groups
  BY Typed DEF Holds
<1>2. QED
  BY <1>1 DEF CohortInv, CohortsAgree, CohortOf

LEMMA CohortAll ==
    ASSUME TInv', \A u \in Users, g \in Groups : CohortOf(u, g)'
    PROVE  CohortInv'
<1>1. \A r \in Requests : req'[r].pc = "edit" => req'[r].group \in Groups
  BY DEF TInv, Holds
<1>2. QED
  BY <1>1 DEF CohortInv, CohortsAgree, CohortOf

LEMMA CohortQuiet ==
    ASSUME TInv, CohortInv, NEW r \in Requests, Keeps(r), UNCHANGED <<member, cohort, drifted>>,
           req'[r].pc # "edit"
    PROVE  CohortInv'
BY DEF CohortInv, CohortsAgree, Keeps

\* A member who joins takes the cohort the join read, which is the group's
\* unless an edit came in between.
LEMMA CohortJoin ==
    ASSUME TInv, TInv', CohortInv, NEW r \in Requests, JoinCommit(r)
    PROVE  CohortInv'
<1> DEFINE q == req[r]
           g == q.group
<1>1. CASE Taken(q)
  BY <1>1, CommitsNot, ClosedIsTyped, CohortQuiet DEF dbVars, historyVars
<1>2. CASE ~Taken(q)
  <2>1. /\ q.pc \in {"register", "admit"} /\ req'[r].pc = "redeem" /\ Keeps(r) /\ cohort' = cohort
        /\ member' = [member EXCEPT ![q.user][g] = [state |-> "active", cohort |-> q.cohort]]
        /\ drifted \subseteq drifted'
        /\ <<q.user, g>> \notin drifted' =>
              q.cohort = cohort[g] /\ \A s \in Requests : ~(req[s].pc = "edit" /\ req[s].group = g)
    <3>1. /\ q.pc \in {"register", "admit"} /\ req'[r].pc = "redeem" /\ Keeps(r) /\ cohort' = cohort
          /\ member' = [member EXCEPT ![q.user][g] = [state |-> "active", cohort |-> q.cohort]]
      BY <1>2, Commits
    <3>2. drifted' = IF q.cohort = cohort[g] /\ \A s \in Requests : ~(req[s].pc = "edit" /\ req[s].group = g)
                     THEN drifted ELSE drifted \cup {<<q.user, g>>}
      BY <1>2, Commits
    <3>. HIDE DEF q, g
    <3>3. QED
      BY <3>1, <3>2
  <2>2. q.user \in Users /\ g \in Groups /\ member \in [Users -> [Groups -> MemberRow]]
    BY <2>1, Typed, TypeFacts DEF Holds
  <2>3. /\ member'[q.user][g] = [state |-> "active", cohort |-> q.cohort]
        /\ \A u \in Users, h \in Groups : <<u, h>> # <<q.user, g>> => member'[u][h] = member[u][h]
    <3>1. member' = [member EXCEPT ![q.user] = [member[q.user] EXCEPT ![g] = [state |-> "active", cohort |-> q.cohort]]]
      BY <2>1
    <3>. HIDE DEF q, g
    <3>2. QED
      BY <2>2, <3>1
  <2>4. \A s \in Requests : req'[s].pc = "edit" => req'[s] = req[s]
    BY <2>1 DEF Keeps
  <2>5. ASSUME NEW u \in Users, NEW h \in Groups
        PROVE  CohortOf(u, h)'
    <3>1. CASE u = q.user /\ h = g
      BY <2>1, <2>3, <2>4, <3>1 DEF CohortOf
    <3>2. CASE <<u, h>> # <<q.user, g>>
      <4>1. CohortOf(u, h) /\ member'[u][h] = member[u][h]
        BY <2>3, <3>2, CohortSplit
      <4>2. <<u, h>> \notin drifted' => <<u, h>> \notin drifted
        BY <2>1
      <4>3. cohort' = cohort
        BY <2>1
      <4>4. QED
        BY <2>4, <4>1, <4>2, <4>3 DEF CohortOf
    <3>3. QED
      BY <3>1, <3>2
  <2>6. QED
    BY <2>5, CohortAll
<1>3. QED
  BY <1>1, <1>2

\* The edit moves every active member of the group that is not drifted. If it
\* leaves the group's cohort alone, that is the one they are moved to, or they
\* drift.
LEMMA CohortEdit ==
    ASSUME TInv, TInv', CohortInv, NEW r \in Requests, EditCohortCommit(r)
    PROVE  CohortInv'
<1> DEFINE q == req[r]
           Moved(u, g) == g = q.group /\ u \in q.people /\ member[u][g].state = "active"
           stale == Resubmits(q) /\ cohort[q.group] # q.cohort
<1>1. /\ q.pc = "edit" /\ req'[r] = Closed /\ Keeps(r)
      /\ cohort' = IF Resubmits(q) THEN cohort ELSE [cohort EXCEPT ![q.group] = q.cohort]
      /\ drifted' = IF stale THEN drifted \cup (q.people \X {q.group}) ELSE drifted
      /\ member' = [u \in Users |-> [g \in Groups |->
                       IF Moved(u, g) THEN [member[u][g] EXCEPT !.cohort = q.cohort] ELSE member[u][g]]]
  BY Edits
<1>2. q.group \in Groups /\ cohort \in [Groups -> Cohorts \cup {None}]
  BY <1>1, Typed, TypeFacts DEF Holds
<1>3. \A s \in Requests : req'[s].pc = "edit" => req'[s] = req[s]
  BY <1>1, ClosedIsTyped DEF Keeps
<1>4. drifted \subseteq drifted' /\ (stale => q.people \X {q.group} \subseteq drifted')
  BY <1>1
<1>5. \A g \in Groups : cohort'[g] = IF g = q.group /\ ~stale THEN q.cohort ELSE cohort[g]
  <2>1. CASE Resubmits(q)
    BY <1>1, <2>1
  <2>2. CASE ~Resubmits(q)
    <3>1. cohort' = [cohort EXCEPT ![q.group] = q.cohort] /\ ~stale
      BY <1>1, <2>2
    <3>. HIDE DEF q, stale
    <3>2. QED
      BY <1>2, <3>1
  <2>3. QED
    BY <2>1, <2>2
<1>6. ASSUME NEW u \in Users, NEW g \in Groups
      PROVE  CohortOf(u, g)'
  <2>1. CohortOf(u, g) /\ member[u][g] \in MemberRow
    BY CohortSplit, TypeFacts
  <2>2. member'[u][g] = IF Moved(u, g) THEN [member[u][g] EXCEPT !.cohort = q.cohort] ELSE member[u][g]
    BY <1>1
  <2>3. /\ member'[u][g].state = member[u][g].state
        /\ member'[u][g].cohort = IF Moved(u, g) THEN q.cohort ELSE member[u][g].cohort
    BY <2>1, <2>2 DEF MemberRow
  <2> SUFFICES ASSUME member'[u][g].state = "active", <<u, g>> \notin drifted'
               PROVE  /\ member'[u][g].cohort = cohort'[g]
                      /\ \A s \in Requests : req'[s].pc = "edit" /\ req'[s].group = g => u \in req'[s].people
    BY DEF CohortOf
  <2>4. /\ member[u][g].state = "active" /\ <<u, g>> \notin drifted
        /\ member[u][g].cohort = cohort[g]
        /\ \A s \in Requests : req[s].pc = "edit" /\ req[s].group = g => u \in req[s].people
    BY <1>4, <2>1, <2>3 DEF CohortOf
  <2>5. g = q.group => u \in q.people /\ Moved(u, g) /\ ~stale
    BY <1>1, <1>4, <2>4
  <2>6. cohort'[g] = IF g = q.group /\ ~stale THEN q.cohort ELSE cohort[g]
    BY <1>5
  <2>. HIDE DEF q, stale
  <2>7. QED
    BY <1>3, <2>3, <2>4, <2>5, <2>6
<1>7. QED
  BY <1>6, CohortAll

LEMMA CohortStep ==
    ASSUME TInv, TInv', CohortInv, [Next]_vars
    PROVE  CohortInv'
<1> USE DEF dbVars, historyVars
<1>1. ASSUME NEW r \in Requests, Step(r)
      PROVE  CohortInv'
  <2>1. CASE Redeem(r)
    BY <2>1, Redeems, RedeemsNot, ClosedIsTyped, CohortQuiet
  <2>2. CASE LookForPurses(r) \/ SkipEnrolled(r)
    BY <2>2, Looks, Skips, CohortQuiet
  <2>3. CASE EnrolNewMember(r)
    BY <2>3, Enrols, EnrolsNot, EnrolsInvited, ClosedIsTyped, CohortQuiet
  <2>4. CASE LookForInvited(r)
    BY <2>4, Invited, InvitedNot, ClosedIsTyped, CohortQuiet
  <2>5. CASE EnrolOne(r)
    BY <2>5, EnrolsOne, ClosedIsTyped, CohortQuiet
  <2>6. CASE Begin(r)
    BY <2>6, Begins, BeginsNot, ClosedIsTyped, CohortQuiet
  <2>7. CASE BeginUnreserved(r) \/ ReadGroup(r) \/ FindMembers(r)
    BY <2>7, BeginsUnreserved, Reads, Finds, CohortQuiet
  <2>8. ASSUME NEW p \in Purses, CommitPurse(r, p)
        PROVE  CohortInv'
    BY <2>8, Creates, CohortQuiet
  <2>9. CASE EnrolMembers(r)
    BY <2>9, SweepEnds, CohortQuiet
  <2>10. CASE Complete(r) \/ Release(r)
    BY <2>10, Completes, Releases, ClosedIsTyped, CohortQuiet
  <2>11. CASE SelectMembers(r)
    <3>1. /\ req'[r].pc = "edit" /\ req'[r].group = req[r].group
          /\ req'[r].people = {u \in Users : member[u][req[r].group].state = "active"}
          /\ Keeps(r) /\ UNCHANGED <<member, cohort, drifted>>
      BY <2>11, Selects
    <3>2. QED
      BY <3>1 DEF CohortInv, CohortsAgree, Keeps
  <2>12. QED
    BY <1>1, <2>1, <2>2, <2>3, <2>4, <2>5, <2>6, <2>7, <2>8, <2>9, <2>10, <2>11, CohortJoin, CohortEdit DEF Step
<1>2. ASSUME NEW r \in Requests, Arrive(r)
      PROVE  CohortInv'
  <2>1. ASSUME NEW u \in Users, NEW i \in Invites, Resolve(r, u, i)
        PROVE  CohortInv'
    BY <2>1, Resolves, CohortQuiet
  <2>2. ASSUME NEW g \in Groups, NEW k \in Keys \cup {None}, CreatePurse(r, g, k)
        PROVE  CohortInv'
    BY <2>2, Asks, CohortQuiet
  <2>3. ASSUME NEW p \in Purses, NEW u \in Users, AddMember(r, p, u)
        PROVE  CohortInv'
    BY <2>3, Adds, CohortQuiet
  <2>4. ASSUME NEW g \in Groups, NEW c \in Cohorts, EditCohort(r, g, c)
        PROVE  CohortInv'
    BY <2>4, OpensEdit, CohortQuiet
  <2>5. QED
    BY <1>2, <2>1, <2>2, <2>3, <2>4 DEF Arrive, Join, JoinAdditionalGroup
<1>3. CASE UNCHANGED <<req, member, cohort, drifted>>
  BY <1>3 DEF CohortInv, CohortsAgree
<1>4. CASE Crash
  <2>1. UNCHANGED <<member, cohort, drifted>> /\ \A r \in Requests : req'[r].pc # "edit"
    BY <1>4 DEF Crash, Closed
  <2>2. QED
    BY <2>1 DEF CohortInv, CohortsAgree
<1>5. ASSUME NEW u \in Users, NEW g \in Groups, RemoveMember(u, g)
      PROVE  CohortInv'
  <2>1. /\ UNCHANGED <<req, cohort, drifted>>
        /\ member' = [member EXCEPT ![u][g].state = "removed"]
    BY <1>5 DEF RemoveMember
  <2>2. \A v \in Users, h \in Groups : member'[v][h].state = "active" => member'[v][h] = member[v][h]
    <3>1. member \in [Users -> [Groups -> MemberRow]]
      BY TypeFacts
    <3>2. member' = [member EXCEPT ![u] = [member[u] EXCEPT ![g] = [member[u][g] EXCEPT !.state = "removed"]]]
      BY <2>1
    <3>3. [member[u][g] EXCEPT !.state = "removed"].state = "removed"
      BY <3>1 DEF MemberRow
    <3> DEFINE n == [member[u][g] EXCEPT !.state = "removed"]
    <3>. HIDE DEF n
    <3>4. \A v \in Users, h \in Groups : member'[v][h] = IF v = u /\ h = g THEN n ELSE member[v][h]
      BY <3>1, <3>2 DEF n
    <3>5. n.state = "removed"
      BY <3>3 DEF n
    <3>6. QED
      BY <3>4, <3>5
  <2>3. QED
    BY <2>1, <2>2 DEF CohortInv, CohortsAgree
<1>6. CASE Outside /\ ~Crash /\ ~\E u \in Users, g \in Groups : RemoveMember(u, g)
  BY <1>3, <1>6 DEF Outside, CreateInvite, RevokeInvite, InviteExpires, KeyExpires, ClosePurse, ReopenPurse
<1>7. CASE UNCHANGED vars
  BY <1>3, <1>7 DEF vars
<1>8. QED
  BY <1>1, <1>2, <1>4, <1>5, <1>6, <1>7 DEF Next

\* The active members of a group are in its cohort, in whatever order edits,
\* joins and removals commit, all but two kinds: those whose join read the
\* group before an edit, or committed while one was under way; and those moved
\* by an edit that submits again a cohort another edit has changed meanwhile.
THEOREM CohortsStayTogether == Spec => []CohortsAgree
<1>1. Init => CohortInv
  BY ClosedIsTyped DEF Init, CohortInv, CohortsAgree
<1>2. TInv /\ TInv' /\ CohortInv /\ [Next]_vars => CohortInv'
  BY CohortStep
<1>3. CohortInv => CohortsAgree
  BY DEF CohortInv
<1>4. QED
  BY <1>1, <1>2, <1>3, Invariance, PTL DEF Spec

-----------------------------------------------------------------------------
(* Nobody is forgotten                                                     *)

\* A step that keeps the members' and the purses' rows, and whose request
\* still enrols those it was going to, has done so, or excuses them.
LEMMA EnrolKept ==
    ASSUME EnrolInv, NEW r \in Requests, Keeps(r), UNCHANGED <<member, purse>>,
           row \subseteq row', dropped \subseteq dropped',
           SweepsOwn(req'[r]),
           \A p \in AutoPurses \ dropped', u \in Users \ dropped' :
               Owed(p, u) /\ Will(req[r], p, u) => <<p, u>> \in row' \/ Will(req'[r], p, u)
    PROVE  EnrolInv'
<1>1. \A p \in Purses : purse[p].status = "closed" => p \in dropped'
  BY DEF EnrolInv
<1>2. \A s \in Requests : SweepsOwn(req'[s])
  BY DEF EnrolInv, Keeps
<1>3. ASSUME NEW p \in AutoPurses, p \notin dropped', NEW u \in Users, u \notin dropped', Owed(p, u)
      PROVE  <<p, u>> \in row' \/ \E s \in Requests : Will(req'[s], p, u)
  <2>1. <<p, u>> \in row \/ \E s \in Requests : Will(req[s], p, u)
    BY <1>3 DEF EnrolInv, EnrolOf
  <2>2. CASE <<p, u>> \in row
    BY <2>2
  <2>3. ASSUME NEW s \in Requests, Will(req[s], p, u)
        PROVE  <<p, u>> \in row' \/ \E t \in Requests : Will(req'[t], p, u)
    <3>1. CASE s = r
      BY <1>3, <2>3, <3>1
    <3>2. CASE s # r
      BY <2>3, <3>2 DEF Keeps
    <3>3. QED
      BY <3>1, <3>2
  <2>4. QED
    BY <2>1, <2>2, <2>3
<1>4. ASSUME NEW p \in AutoPurses, NEW u \in Users, p \notin dropped', u \notin dropped'
      PROVE  EnrolOf(p, u)'
  BY <1>3, <1>4 DEF EnrolOf, Owed, Belongs, Will, WillJoin, WillSweep
<1>5. \A s \in Requests : SweepsOwn(req[s])'
  BY <1>2 DEF SweepsOwn
<1>6. QED
  BY <1>1, <1>4, <1>5 DEF EnrolInv

\* A request at a step that has nobody left to enrol.
Idle(q) == q.pc \notin {"redeem", "look", "skip", "enrol", "sweep", "insert"}

LEMMA EnrolIdle ==
    ASSUME EnrolInv, NEW r \in Requests, Keeps(r), UNCHANGED <<member, purse, dropped>>,
           row \subseteq row', Idle(req[r]), Idle(req'[r])
    PROVE  EnrolInv'
<1>1. SweepsOwn(req'[r]) /\ \A p, u : ~Will(req[r], p, u)
  BY DEF Idle, SweepsOwn, Will, WillJoin, WillSweep
<1>2. QED
  BY <1>1, EnrolKept

LEMMA EnrolJoin ==
    ASSUME TInv, EnrolInv, NEW r \in Requests, JoinCommit(r)
    PROVE  EnrolInv'
<1> DEFINE q == req[r]
           g == q.group
<1>1. CASE Taken(q)
  BY <1>1, CommitsNot, EnrolIdle DEF dbVars, historyVars, Idle, Closed
<1>2. CASE ~Taken(q)
  <2>1. /\ q.pc \in {"register", "admit"} /\ req'[r].pc = "redeem" /\ req'[r].user = q.user /\ req'[r].group = g
        /\ Keeps(r) /\ UNCHANGED <<purse, row, dropped>>
    BY <1>2, Commits
  <2>2. q.user \in Users /\ g \in Groups
    BY <2>1, Typed DEF Holds
  <2>3. \A u \in Users, h \in Groups : u # q.user \/ h # g => member'[u][h] = member[u][h]
    <3>1. member' = [member EXCEPT ![q.user] = [member[q.user] EXCEPT ![g] = [state |-> "active", cohort |-> q.cohort]]]
      BY <1>2, Commits
    <3>. HIDE DEF q, g
    <3>2. QED
      BY <2>2, <3>1, TypeFacts
  <2>4. ASSUME NEW p \in AutoPurses, NEW u \in Users, p \notin dropped, u \notin dropped, Owed(p, u)'
        PROVE  <<p, u>> \in row \/ \E s \in Requests : Will(req'[s], p, u)
    <3>1. p \in Purses /\ purse[p].group \in Groups
      BY <2>1, <2>4, NamesAssumption DEF Owed, TInv
    <3>2. CASE u = q.user /\ purse[p].group = g
      BY <2>1, <3>2 DEF Will, WillJoin
    <3>3. CASE u # q.user \/ purse[p].group # g
      <4>1. Owed(p, u)
        BY <2>1, <2>3, <2>4, <3>1, <3>3 DEF Owed, Belongs
      <4>2. CASE <<p, u>> \in row
        BY <4>2
      <4>3. CASE \E s \in Requests : Will(req[s], p, u)
        <5>1. ~Will(req[r], p, u)
          BY <2>1 DEF Will, WillJoin, WillSweep
        <5>2. QED
          BY <2>1, <4>3, <5>1 DEF Keeps
      <4>4. QED
        BY <2>4, <4>1, <4>2, <4>3 DEF EnrolInv, EnrolOf
    <3>4. QED
      BY <3>2, <3>3
  <2>5. \A p \in AutoPurses \ dropped', u \in Users \ dropped' : EnrolOf(p, u)'
    BY <2>1, <2>4 DEF EnrolOf, Will, WillJoin, WillSweep
  <2>6. \A s \in Requests : SweepsOwn(req[s])'
    BY <2>1 DEF EnrolInv, SweepsOwn, Keeps
  <2>7. QED
    BY <2>1, <2>5, <2>6 DEF EnrolInv
<1>3. QED
  BY <1>1, <1>2

\* From the redemption to the batch: the purses are looked for after the
\* member is there, and none that is owed is left out.
LEMMA EnrolMember ==
    ASSUME TInv, EnrolInv, NEW r \in Requests,
           Redeem(r) \/ LookForPurses(r) \/ SkipEnrolled(r) \/ EnrolNewMember(r)
    PROVE  EnrolInv'
<1> USE DEF dbVars, historyVars
<1> DEFINE q == req[r]
           batch == q.purses \X {q.user}
<1>1. CASE Redeem(r)
  <2>1. CASE invite[q.invite].state = "expired"
    <3>1. /\ q.pc = "redeem" /\ req'[r].pc = "idle" /\ Keeps(r) /\ dropped' = dropped \cup {q.user}
          /\ UNCHANGED <<member, purse, row>>
      BY <1>1, <2>1, RedeemsNot, ClosedIsTyped
    <3>2. SweepsOwn(req'[r]) /\ \A p, u : Will(q, p, u) => u \in dropped'
      BY <3>1 DEF SweepsOwn, Will, WillJoin, WillSweep
    <3>3. QED
      BY <3>1, <3>2, EnrolKept
  <2>2. CASE invite[q.invite].state # "expired"
    <3>1. /\ q.pc = "redeem" /\ req'[r].pc = "look" /\ Keeps(r)
          /\ req'[r].user = q.user /\ req'[r].group = q.group
          /\ req'[r].cohort = member[q.user][q.group].cohort
          /\ UNCHANGED <<member, purse, row, dropped>>
      BY <1>1, <2>2, Redeems
    <3>2. \A p, u : Owed(p, u) /\ Will(q, p, u) => Will(req'[r], p, u)
      BY <3>1 DEF Owed, Will, WillJoin, WillSweep
    <3>3. SweepsOwn(req'[r])
      BY <3>1 DEF SweepsOwn
    <3>4. QED
      BY <3>1, <3>2, <3>3, EnrolKept
  <2>3. QED
    BY <2>1, <2>2
<1>2. CASE LookForPurses(r)
  <2>1. /\ q.pc = "look" /\ req'[r].pc = "skip" /\ Keeps(r)
        /\ req'[r].user = q.user /\ req'[r].group = q.group
        /\ req'[r].purses = Latecomers(q)
        /\ UNCHANGED <<member, purse, row, dropped>>
    BY <1>2, Looks
  <2>2. ASSUME NEW p \in AutoPurses \ dropped, NEW u, Owed(p, u), Will(q, p, u)
        PROVE  Will(req'[r], p, u)
    <3>1. p \in Purses /\ purse[p].status \in {"absent", "open", "closed"}
      BY NamesAssumption, TypeFacts DEF PurseRow
    <3>2. purse[p].status = "open"
      BY <2>2, <3>1 DEF Owed, EnrolInv
    <3>3. p \in Latecomers(q)
      BY <2>1, <2>2, <3>2 DEF Latecomers, Will, WillJoin, WillSweep
    <3>4. QED
      BY <2>1, <2>2, <3>3 DEF Will, WillJoin, WillSweep
  <2>3. SweepsOwn(req'[r])
    BY <2>1 DEF SweepsOwn
  <2>4. QED
    BY <2>1, <2>2, <2>3, EnrolKept
<1>3. CASE SkipEnrolled(r)
  <2>1. /\ q.pc = "skip" /\ req'[r].pc = "enrol" /\ Keeps(r)
        /\ req'[r].user = q.user /\ req'[r].group = q.group
        /\ req'[r].purses = {p \in q.purses : <<p, q.user>> \notin row}
        /\ UNCHANGED <<member, purse, row, dropped>>
    BY <1>3, Skips
  <2>2. \A p, u : Will(q, p, u) => <<p, u>> \in row \/ Will(req'[r], p, u)
    BY <2>1 DEF Will, WillJoin, WillSweep
  <2>3. SweepsOwn(req'[r])
    BY <2>1 DEF SweepsOwn
  <2>4. QED
    BY <2>1, <2>2, <2>3, EnrolKept
<1>4. CASE EnrolNewMember(r)
  <2>1. CASE batch \cap row # {}
    <3>1. /\ q.pc = "enrol" /\ req'[r].pc = "idle" /\ Keeps(r) /\ dropped' = dropped \cup {q.user}
          /\ UNCHANGED <<member, purse, row>>
      BY <1>4, <2>1, EnrolsNot, ClosedIsTyped
    <3>2. SweepsOwn(req'[r]) /\ \A p, u : Will(q, p, u) => u \in dropped'
      BY <3>1 DEF SweepsOwn, Will, WillJoin, WillSweep
    <3>3. QED
      BY <3>1, <3>2, EnrolKept
  <2>2. CASE batch \cap row = {}
    <3>1. /\ q.pc = "enrol" /\ req'[r].pc \in {"idle", "invited"} /\ Keeps(r) /\ row' = row \cup batch
          /\ UNCHANGED <<member, purse, dropped>>
      BY <1>4, <2>2, Enrols, EnrolsInvited, ClosedIsTyped
    <3>2. SweepsOwn(req'[r])
      BY <3>1 DEF SweepsOwn
    <3>3. \A p, u : Will(q, p, u) => <<p, u>> \in row'
      BY <3>1 DEF Will, WillJoin, WillSweep
    <3>4. QED
      BY <3>1, <3>2, <3>3, EnrolKept
  <2>3. QED
    BY <2>1, <2>2
<1>5. QED
  BY <1>1, <1>2, <1>3, <1>4

\* A purse that has just been made owes its whole group to its creation.
LEMMA EnrolPurse ==
    ASSUME TInv, EnrolInv, NEW r \in Requests, NEW p \in Purses, CommitPurse(r, p)
    PROVE  EnrolInv'
<1> DEFINE q == req[r]
<1>1. /\ q.pc = "commit" /\ req'[r].pc = "sweep" /\ req'[r].purse = p
      /\ req'[r].group = q.group /\ req'[r].cohort = q.cohort
      /\ Keeps(r) /\ purse[p].status = "absent" /\ UNCHANGED <<member, row, dropped>>
  BY Creates
<1>2. /\ purse'[p] = [status |-> "open", group |-> q.group, cohort |-> q.cohort]
      /\ \A o \in Purses \ {p} : purse'[o] = purse[o]
  BY Creates, TypeFacts
<1>3. \A o \in Purses : purse'[o].status = "closed" => o \in dropped'
  BY <1>1, <1>2 DEF EnrolInv
<1>4. ASSUME NEW s \in Requests
      PROVE  SweepsOwn(req[s])'
  <2>1. CASE s = r
    BY <1>1, <1>2, <2>1 DEF SweepsOwn
  <2>2. CASE s # r
    <3>1. req'[s] = req[s] /\ SweepsOwn(req[s])
      BY <1>1, <2>2 DEF Keeps, EnrolInv
    <3>2. req[s].pc \in {"sweep", "insert"} => req[s].purse \in Purses
      BY Typed DEF Holds
    <3>3. QED
      BY <1>1, <1>2, <3>1, <3>2 DEF SweepsOwn
  <2>3. QED
    BY <2>1, <2>2
<1>5. ASSUME NEW o \in AutoPurses, NEW u \in Users, o \notin dropped, u \notin dropped
      PROVE  EnrolOf(o, u)'
  <2>1. o \in Purses
    BY NamesAssumption
  <2>2. CASE o = p
    BY <1>1, <2>2 DEF EnrolOf, Will, WillSweep
  <2>3. CASE o # p
    <3>1. purse'[o] = purse[o]
      BY <1>2, <2>1, <2>3
    <3>2. ~Will(req[r], o, u)
      BY <1>1 DEF Will, WillJoin, WillSweep
    <3>3. EnrolOf(o, u)
      BY <1>5 DEF EnrolInv
    <3>4. Owed(o, u)' => Owed(o, u)
      BY <1>1, <3>1 DEF Owed, Belongs
    <3>5. \A s \in Requests : Will(req[s], o, u) => Will(req[s], o, u)'
      BY <1>1, <3>1, <3>2 DEF Will, WillJoin, WillSweep, Keeps
    <3>6. QED
      BY <1>1, <3>3, <3>4, <3>5 DEF EnrolOf
  <2>4. QED
    BY <2>2, <2>3
<1>6. QED
  BY <1>1, <1>3, <1>4, <1>5 DEF EnrolInv

\* The creation finds whom the purse is owed by, and its batch enrols them or
\* fails for the purse as a whole.
LEMMA EnrolGroup ==
    ASSUME TInv, EnrolInv, NEW r \in Requests, FindMembers(r) \/ EnrolMembers(r)
    PROVE  EnrolInv'
<1> USE DEF dbVars, historyVars
<1> DEFINE q == req[r]
           batch == {q.purse} \X q.people
<1>0. SweepsOwn(q)
  BY DEF EnrolInv
<1>1. CASE FindMembers(r)
  <2>1. /\ q.pc = "sweep" /\ req'[r].pc = "insert" /\ Keeps(r)
        /\ req'[r].purse = q.purse /\ req'[r].group = q.group /\ req'[r].cohort = q.cohort
        /\ req'[r].people = Found(q)
        /\ UNCHANGED <<member, purse, row, dropped>>
    BY <1>1, Finds
  <2>2. \A p \in AutoPurses, u \in Users : Owed(p, u) /\ Will(q, p, u) => Will(req'[r], p, u)
    BY <1>0, <2>1 DEF Owed, Found, SweepsOwn, Will, WillJoin, WillSweep
  <2>3. SweepsOwn(req'[r])
    BY <1>0, <2>1 DEF SweepsOwn
  <2>4. QED
    BY <2>1, <2>2, <2>3, EnrolKept
<1>2. CASE EnrolMembers(r)
  <2>1. /\ q.pc = "insert" /\ req'[r].pc \in {"idle", "release", "complete"} /\ Keeps(r)
        /\ UNCHANGED <<member, purse>>
    BY <1>2, SweepEnds
  <2>2. SweepsOwn(req'[r])
    BY <2>1 DEF SweepsOwn
  <2>3. CASE batch \cap row # {}
    <3>1. dropped' = dropped \cup {q.purse} /\ row' = row
      BY <1>2, <2>3, SweepsNot, SweepsNotUnderKey
    <3>2. \A p, u : Will(q, p, u) => p \in dropped'
      BY <2>1, <3>1 DEF Will, WillJoin, WillSweep
    <3>3. QED
      BY <2>1, <2>2, <3>1, <3>2, EnrolKept
  <2>4. CASE batch \cap row = {}
    <3>1. row' = row \cup batch /\ dropped' = dropped
      BY <1>2, <2>4, Sweeps, SweepsUnderKey
    <3>2. \A p, u : Will(q, p, u) => <<p, u>> \in row'
      BY <2>1, <3>1 DEF Will, WillJoin, WillSweep
    <3>3. QED
      BY <2>1, <2>2, <3>1, <3>2, EnrolKept
  <2>5. QED
    BY <2>3, <2>4
<1>3. QED
  BY <1>1, <1>2

\* An edit brings no member under an older purse that is not excused: only a
\* purse without a cohort fits both before and after it.
LEMMA EnrolEdit ==
    ASSUME TInv, EnrolInv, NEW r \in Requests, EditCohortCommit(r)
    PROVE  EnrolInv'
<1> DEFINE q == req[r]
           Moved(u, g) == g = q.group /\ u \in q.people /\ member[u][g].state = "active"
<1>1. /\ q.pc = "edit" /\ req'[r] = Closed /\ Keeps(r) /\ UNCHANGED <<purse, row>>
      /\ dropped' = dropped \cup {p \in Purses : purse[p].group = q.group /\ purse[p].cohort = q.cohort}
      /\ member' = [u \in Users |-> [g \in Groups |->
                       IF Moved(u, g)
                       THEN [member[u][g] EXCEPT !.cohort = q.cohort] ELSE member[u][g]]]
  BY Edits
<1>2. q.group \in Groups /\ q.cohort \in Cohorts /\ q.cohort # None
  BY <1>1, Typed, NamesAssumption DEF Holds
<1>3. ASSUME NEW u \in Users, NEW g \in Groups
      PROVE  /\ member'[u][g].state = member[u][g].state
             /\ member'[u][g].cohort = IF Moved(u, g) THEN q.cohort ELSE member[u][g].cohort
  <2>1. member'[u][g] = IF Moved(u, g)
                        THEN [member[u][g] EXCEPT !.cohort = q.cohort] ELSE member[u][g]
    BY <1>1
  <2>2. member[u][g] \in MemberRow
    BY TypeFacts
  <2>3. QED
    BY <2>1, <2>2 DEF MemberRow
<1>4. ASSUME NEW p \in AutoPurses, NEW u \in Users, p \notin dropped', u \notin dropped'
      PROVE  EnrolOf(p, u)'
  <2>1. SUFFICES ASSUME Owed(p, u)'
                 PROVE  <<p, u>> \in row \/ \E s \in Requests : Will(req[s], p, u)'
    BY <1>1 DEF EnrolOf
  <2>2. p \in Purses /\ p \notin dropped /\ u \notin dropped
    BY <1>1, <1>4, NamesAssumption
  <2>3. purse[p].status # "absent" /\ purse[p].group \in Groups
    BY <1>1, <2>1, <2>2 DEF Owed, TInv
  <2>4. purse[p].group = q.group => purse[p].cohort # q.cohort
    BY <1>1, <1>4, <2>2
  <2>5. Owed(p, u)
    <3>1. /\ Belongs(u, purse[p].group)
          /\ Fits(purse[p].cohort, member'[u][purse[p].group].cohort)
      BY <1>1, <1>3, <2>1, <2>3 DEF Owed, Belongs
    <3>2. CASE Moved(u, purse[p].group)
      BY <1>2, <1>3, <2>3, <2>4, <3>1, <3>2 DEF Owed, Fits
    <3>3. CASE ~Moved(u, purse[p].group)
      BY <1>3, <2>3, <3>1, <3>3 DEF Owed
    <3>4. QED
      BY <3>2, <3>3
  <2>6. <<p, u>> \in row \/ \E s \in Requests : Will(req[s], p, u)
    BY <2>2, <2>5 DEF EnrolInv, EnrolOf
  <2>7. \A s \in Requests : Will(req[s], p, u) => Will(req[s], p, u)'
    <3>1. purse' = purse /\ Keeps(r) /\ q.pc = "edit"
      BY <1>1
    <3>2. QED
      BY <3>1 DEF Will, WillJoin, WillSweep, Keeps
  <2>8. QED
    BY <2>6, <2>7
<1>5. \A p \in Purses : purse'[p].status = "closed" => p \in dropped'
  BY <1>1 DEF EnrolInv
<1>6. \A s \in Requests : SweepsOwn(req[s])'
  <2>1. purse' = purse /\ Keeps(r) /\ req'[r].pc = "idle"
    BY <1>1, ClosedIsTyped
  <2>2. QED
    BY <2>1 DEF EnrolInv, SweepsOwn, Keeps
<1>7. QED
  BY <1>4, <1>5, <1>6 DEF EnrolInv

LEMMA EnrolArrive ==
    ASSUME TInv, EnrolInv, NEW r \in Requests, Arrive(r)
    PROVE  EnrolInv'
<1> USE DEF dbVars, historyVars, Idle
<1>1. ASSUME NEW u \in Users, NEW i \in Invites, Resolve(r, u, i)
      PROVE  EnrolInv'
  BY <1>1, Resolves, EnrolIdle
<1>2. ASSUME NEW g \in Groups, NEW k \in Keys \cup {None}, CreatePurse(r, g, k)
      PROVE  EnrolInv'
  BY <1>2, Asks, EnrolIdle
<1>3. ASSUME NEW p \in Purses, NEW u \in Users, AddMember(r, p, u)
      PROVE  EnrolInv'
  BY <1>3, Adds, EnrolIdle
<1>4. ASSUME NEW g \in Groups, NEW c \in Cohorts, EditCohort(r, g, c)
      PROVE  EnrolInv'
  BY <1>4, OpensEdit, EnrolIdle
<1>5. QED
  BY <1>1, <1>2, <1>3, <1>4 DEF Arrive, Join, JoinAdditionalGroup

\* What is not a request's step: rows that keep what they say of groups and
\* cohorts, and a purse that is excused before its status changes.
LEMMA EnrolRows ==
    ASSUME EnrolInv, UNCHANGED <<req, row>>, dropped \subseteq dropped',
           \A u \in Users, g \in Groups : /\ Belongs(u, g)' <=> Belongs(u, g)
                                          /\ member'[u][g].cohort = member[u][g].cohort,
           \A p \in Purses : /\ purse'[p].status = "absent" <=> purse[p].status = "absent"
                             /\ purse'[p].group = purse[p].group /\ purse'[p].cohort = purse[p].cohort
                             /\ purse'[p].status = "closed" => p \in dropped',
           \A r \in Requests : Holds(req[r]),
           \A p \in Purses : purse[p].status # "absent" => purse[p].group \in Groups
    PROVE  EnrolInv'
<1>1. ASSUME NEW r \in Requests
      PROVE  SweepsOwn(req[r])'
  BY DEF SweepsOwn, EnrolInv, Holds
<1>2. ASSUME NEW p \in AutoPurses, NEW u \in Users, p \notin dropped', u \notin dropped'
      PROVE  EnrolOf(p, u)'
  <2>1. p \in Purses /\ EnrolOf(p, u)
    BY <1>2, NamesAssumption DEF EnrolInv
  <2>2. Owed(p, u)' => Owed(p, u)
    BY <2>1 DEF Owed
  <2>3. \A r \in Requests : Will(req[r], p, u) => Will(req[r], p, u)'
    BY <2>1 DEF Will, WillJoin, WillSweep
  <2>4. QED
    BY <2>1, <2>2, <2>3 DEF EnrolOf
<1>3. QED
  BY <1>1, <1>2 DEF EnrolInv

LEMMA EnrolOutside ==
    ASSUME TInv, EnrolInv, Outside
    PROVE  EnrolInv'
<1> USE DEF dbVars, historyVars
<1>0. /\ \A r \in Requests : Holds(req[r])
      /\ \A p \in Purses : purse[p].status # "absent" => purse[p].group \in Groups
  BY DEF TInv
<1>1. ASSUME NEW p \in Purses, ClosePurse(p) \/ ReopenPurse(p)
      PROVE  EnrolInv'
  <2>1. /\ UNCHANGED <<req, row, member>> /\ dropped \subseteq dropped' /\ p \in dropped'
        /\ purse[p].status # "absent"
    BY <1>1 DEF ClosePurse, ReopenPurse, EnrolInv
  <2>2. PICK st \in {"open", "closed"} : purse' = [purse EXCEPT ![p].status = st]
    BY <1>1 DEF ClosePurse, ReopenPurse
  <2>3. \A o \in Purses : /\ purse'[o].status = IF o = p THEN st ELSE purse[o].status
                          /\ purse'[o].group = purse[o].group /\ purse'[o].cohort = purse[o].cohort
    <3>1. purse \in [Purses -> PurseRow] /\ purse[p] \in PurseRow
      BY TypeFacts
    <3> DEFINE n == [purse[p] EXCEPT !.status = st]
    <3>2. purse' = [purse EXCEPT ![p] = n]
      BY <2>2
    <3>3. n.status = st /\ n.group = purse[p].group /\ n.cohort = purse[p].cohort
      BY <3>1 DEF PurseRow
    <3>. HIDE DEF n
    <3>4. QED
      BY <3>1, <3>2, <3>3
  <2>4. \A o \in Purses : purse'[o].status = "closed" => o \in dropped'
    BY <2>1, <2>3 DEF EnrolInv
  <2>5. QED
    BY <1>0, <2>1, <2>3, <2>4, EnrolRows DEF Belongs
<1>2. ASSUME NEW u \in Users, NEW g \in Groups, RemoveMember(u, g)
      PROVE  EnrolInv'
  <2> DEFINE n == [member[u][g] EXCEPT !.state = "removed"]
  <2>1. /\ UNCHANGED <<req, row, dropped, purse>> /\ member[u][g].state = "active"
        /\ member' = [member EXCEPT ![u] = [member[u] EXCEPT ![g] = n]]
    BY <1>2 DEF RemoveMember
  <2>2. n.state = "removed" /\ n.cohort = member[u][g].cohort /\ member \in [Users -> [Groups -> MemberRow]]
    <3>1. member[u][g] \in MemberRow /\ member \in [Users -> [Groups -> MemberRow]]
      BY TypeFacts
    <3>2. QED
      BY <3>1 DEF MemberRow
  <2>. HIDE DEF n
  <2>3. \A v \in Users, h \in Groups : member'[v][h] = IF v = u /\ h = g THEN n ELSE member[v][h]
    BY <2>1, <2>2
  <2>4. \A v \in Users, h \in Groups : /\ Belongs(v, h)' <=> Belongs(v, h)
                                       /\ member'[v][h].cohort = member[v][h].cohort
    BY <2>1, <2>2, <2>3 DEF Belongs
  <2>5. QED
    BY <1>0, <2>1, <2>4, EnrolRows DEF EnrolInv
<1>3. ASSUME Crash
      PROVE  EnrolInv'
  <2>1. /\ UNCHANGED <<member, purse, row>>
        /\ dropped' = dropped \cup {u \in Users : \E g \in Groups : Joining(u, g)}
                              \cup {p \in Purses : Enrolling(p)}
        /\ \A r \in Requests : req'[r].pc = "idle"
    BY <1>3, ClosedIsTyped DEF Crash
  <2>2. ASSUME NEW p \in AutoPurses, NEW u \in Users, p \notin dropped', u \notin dropped', Owed(p, u)
        PROVE  <<p, u>> \in row
    <3>1. p \in Purses /\ purse[p].group \in Groups
      BY <2>2, NamesAssumption DEF Owed, TInv
    <3>2. ~Joining(u, purse[p].group) /\ ~Enrolling(p)
      BY <2>1, <2>2, <3>1
    <3>3. \A r \in Requests : ~Will(req[r], p, u)
      BY <3>2 DEF Joining, Enrolling, Will, WillJoin, WillSweep
    <3>4. QED
      BY <2>1, <2>2, <3>3 DEF EnrolInv, EnrolOf
  <2>3. \A p \in AutoPurses \ dropped', u \in Users \ dropped' : EnrolOf(p, u)'
    BY <2>1, <2>2 DEF EnrolOf, Owed, Belongs
  <2>4. \A r \in Requests : SweepsOwn(req[r])'
    BY <2>1 DEF SweepsOwn
  <2>5. QED
    BY <2>1, <2>3, <2>4 DEF EnrolInv
<1>4. ASSUME UNCHANGED <<req, row, member, purse, dropped>>
      PROVE  EnrolInv'
  BY <1>0, <1>4, EnrolRows DEF EnrolInv, Belongs
<1>5. QED
  BY <1>1, <1>2, <1>3, <1>4 DEF Outside, CreateInvite, RevokeInvite, InviteExpires, KeyExpires

LEMMA EnrolStep ==
    ASSUME TInv, EnrolInv, [Next]_vars
    PROVE  EnrolInv'
<1> USE DEF dbVars, historyVars
<1>1. ASSUME NEW r \in Requests, Step(r)
      PROVE  EnrolInv'
  <2> USE DEF Idle
  <2>1. CASE LookForInvited(r)
    BY <2>1, Invited, InvitedNot, ClosedIsTyped, EnrolIdle
  <2>2. CASE EnrolOne(r)
    BY <2>2, EnrolsOne, ClosedIsTyped, EnrolIdle
  <2>3. CASE Begin(r)
    BY <2>3, Begins, BeginsNot, ClosedIsTyped, EnrolIdle
  <2>4. CASE BeginUnreserved(r) \/ ReadGroup(r)
    BY <2>4, BeginsUnreserved, Reads, EnrolIdle
  <2>5. CASE Complete(r) \/ Release(r)
    BY <2>5, Completes, Releases, ClosedIsTyped, EnrolIdle
  <2>6. CASE SelectMembers(r)
    BY <2>6, Selects, EnrolIdle
  <2>7. QED
    BY <1>1, <2>1, <2>2, <2>3, <2>4, <2>5, <2>6, EnrolJoin, EnrolMember, EnrolPurse, EnrolGroup, EnrolEdit DEF Step
<1>2. CASE UNCHANGED vars
  <2>1. /\ \A r \in Requests : Holds(req[r])
        /\ \A p \in Purses : purse[p].status # "absent" => purse[p].group \in Groups
    BY DEF TInv
  <2>2. QED
    BY <1>2, <2>1, EnrolRows DEF EnrolInv, Belongs, vars
<1>3. QED
  BY <1>1, <1>2, EnrolArrive, EnrolOutside DEF Next

\* Whatever the order in which a join and the creation of a purse commit and
\* look for each other, the member ends up on the purse, or is about to: the
\* one that looks second finds the other's row.
THEOREM LatecomersEnrolled == Spec => []NobodyIsForgotten
<1>1. Init => EnrolInv
  <2>1. Init => /\ \A p \in Purses : purse[p].status = "absent"
                /\ \A r \in Requests : req[r].pc = "idle"
    BY ClosedIsTyped DEF Init
  <2>2. QED
    BY <2>1, NamesAssumption DEF EnrolInv, EnrolOf, Owed, SweepsOwn
<1>2. TInv /\ EnrolInv /\ [Next]_vars => EnrolInv'
  BY EnrolStep
<1>3. EnrolInv => NobodyIsForgotten
  <2> SUFFICES ASSUME EnrolInv, NEW p \in AutoPurses \ dropped, NEW u \in Users \ dropped, Owed(p, u)
               PROVE  <<p, u>> \in row \/ Joining(u, purse[p].group) \/ Enrolling(p)
    BY DEF NobodyIsForgotten, Owed
  <2>1. CASE <<p, u>> \in row
    BY <2>1
  <2>2. ASSUME NEW r \in Requests, Will(req[r], p, u)
        PROVE  Joining(u, purse[p].group) \/ Enrolling(p)
    BY <2>2 DEF Will, WillJoin, WillSweep, Joining, Enrolling
  <2>3. QED
    BY <2>1, <2>2 DEF EnrolInv, EnrolOf
<1>4. QED
  BY <1>1, <1>2, <1>3, Invariance, PTL DEF Spec

-----------------------------------------------------------------------------
(* Whoever owes may follow                                                 *)

\* No step takes away a purse, a membership (removal is soft) or an invite, or
\* moves one to another group.
Stays ==
    /\ \A p \in Purses : purse[p].status # "absent" =>
          purse'[p].status # "absent" /\ purse'[p].group = purse[p].group
    /\ \A u \in Users, g \in Groups : member[u][g].state # "none" => member'[u][g].state # "none"
    /\ \A i \in Invites : invite[i].state # "absent" =>
          invite'[i].state # "absent" /\ invite'[i].group = invite[i].group

LEMMA RowsStay ==
    ASSUME UNCHANGED <<member, purse, invite>>
    PROVE  Stays
BY DEF Stays

LEMMA MayStays ==
    ASSUME TInv, Stays, NEW p \in Purses, NEW u \in Users, May(p, u)
    PROVE  purse'[p].status # "absent" /\ member'[u][purse'[p].group].state # "none"
BY DEF TInv, Stays, May, Belongs

LEMMA OfGroupStays ==
    ASSUME TInv, Stays, NEW r \in Requests, OfGroup(req[r]), req'[r] = req[r]
    PROVE  OfGroup(req[r])'
<1> DEFINE q == req[r]
<1>1. Holds(q) /\ q.purses \in SUBSET Purses /\ q.people \in SUBSET Users /\ q.purse \in Purses \cup {None}
  BY Typed DEF Request
<1>2. q.pc \in {"register", "admit", "redeem"} => invite'[q.invite].state # "absent" /\ invite'[q.invite].group = q.group
  BY <1>1 DEF Holds, OfGroup, Stays
<1>3. q.pc \in {"redeem", "look", "skip", "enrol", "invited", "ensure"} => member'[q.user][q.group].state # "none"
  BY <1>1 DEF Holds, OfGroup, Stays, Belongs
<1>4. q.pc \in {"skip", "enrol"} => \A p \in q.purses : purse'[p].status # "absent" /\ purse'[p].group = q.group
  BY <1>1 DEF OfGroup, Stays, Of
<1>5. /\ q.pc \in {"look", "skip", "enrol", "invited", "ensure"} /\ q.purse # None =>
            purse'[q.purse].status # "absent" /\ purse'[q.purse].group = q.group
      /\ q.pc \in {"sweep", "insert"} => purse'[q.purse].status # "absent" /\ purse'[q.purse].group = q.group
  BY <1>1 DEF Holds, OfGroup, Stays, Of
<1>6. q.pc = "add" => purse'[q.purse].status # "absent" /\ member'[q.user][purse'[q.purse].group].state # "none"
  BY <1>1, MayStays DEF Holds, OfGroup
<1>7. q.pc = "insert" => \A u \in q.people : member'[u][q.group].state # "none"
  BY <1>1 DEF Holds, OfGroup, Stays, Belongs
<1>8. req'[r] = q
  OBVIOUS
<1>. HIDE DEF q
<1>9. QED
  BY <1>2, <1>3, <1>4, <1>5, <1>6, <1>7, <1>8 DEF OfGroup, Of, May, Belongs

\* A request's step, with what it leaves the request and what it adds.
LEMMA RowKept ==
    ASSUME TInv, RowInv, Stays, NEW r \in Requests, Keeps(r), OfGroup(req[r])',
           \A i \in Invites : invite'[i].purse = invite[i].purse /\ invite'[i].group = invite[i].group,
           \A p \in Purses, u \in Users : <<p, u>> \in row' \ row =>
               purse'[p].status # "absent" /\ member'[u][purse'[p].group].state # "none",
           \A p \in Purses, u \in Users : <<p, u>> \in adminRow' \ adminRow =>
               purse'[p].status # "absent" /\ <<u, purse'[p].group>> \in Admins
    PROVE  RowInv'
<1>1. \A p \in Purses, u \in Users : <<p, u>> \in row' => May(p, u)'
  <2>1. ASSUME NEW p \in Purses, NEW u \in Users, <<p, u>> \in row'
        PROVE  purse'[p].status # "absent" /\ member'[u][purse'[p].group].state # "none"
    BY <2>1, MayStays DEF RowInv
  <2>2. QED
    BY <2>1 DEF May, Belongs
<1>2. \A p \in Purses, u \in Users : <<p, u>> \in adminRow' =>
         purse'[p].status # "absent" /\ <<u, purse'[p].group>> \in Admins
  BY DEF RowInv, Stays
<1>3. \A i \in Invites : invite'[i].purse \in Purses => Of(invite[i].purse, invite[i].group)'
  BY DEF RowInv, Stays, Of
<1>4. \A s \in Requests : OfGroup(req[s])'
  BY OfGroupStays DEF RowInv, Keeps
<1>5. QED
  BY <1>1, <1>2, <1>3, <1>4 DEF RowInv

\* A step that touches neither the rows nor what they are of.
LEMMA RowQuiet ==
    ASSUME TInv, RowInv, NEW r \in Requests, Keeps(r), UNCHANGED <<member, purse, invite, row, adminRow>>,
           OfGroup(req[r])'
    PROVE  RowInv'
BY RowKept, RowsStay

\* A request that is done, or that only waits for its key or its group.
Blank(q) == q.pc \in {"idle", "answer", "create", "commit", "complete", "release", "load", "edit"}

LEMMA RowBlank ==
    ASSUME TInv, RowInv, NEW r \in Requests, Keeps(r), UNCHANGED <<member, purse, invite, row, adminRow>>,
           Blank(req'[r])
    PROVE  RowInv'
<1>1. OfGroup(req[r])'
  BY DEF Blank, OfGroup
<1>2. QED
  BY <1>1, RowQuiet

LEMMA RowCommit ==
    ASSUME TInv, RowInv, NEW r \in Requests, JoinCommit(r)
    PROVE  RowInv'
<1> DEFINE q == req[r]
           g == q.group
<1>1. CASE Taken(q)
  BY <1>1, CommitsNot, RowBlank DEF dbVars, Blank, Closed
<1>2. CASE ~Taken(q)
  <2>1. /\ q.pc \in {"register", "admit"} /\ req'[r].pc = "redeem" /\ Keeps(r)
        /\ req'[r].user = q.user /\ req'[r].group = g /\ req'[r].invite = q.invite
        /\ UNCHANGED <<purse, invite, row, adminRow>>
    BY <1>2, Commits
  <2>2. q.user \in Users /\ g \in Groups /\ OfGroup(q)
    BY <2>1, Typed DEF Holds, RowInv
  <2>3. member'[q.user][g].state # "none" /\ \A u \in Users, h \in Groups : member[u][h].state # "none" => member'[u][h].state # "none"
    <3> DEFINE n == [state |-> "active", cohort |-> q.cohort]
    <3>1. member' = [member EXCEPT ![q.user] = [member[q.user] EXCEPT ![g] = n]] /\ n.state = "active"
      BY <1>2, Commits
    <3>. HIDE DEF q, g, n
    <3>2. \A u \in Users, h \in Groups : member'[u][h] = IF u = q.user /\ h = g THEN n ELSE member[u][h]
      BY <2>2, <3>1, TypeFacts
    <3>3. QED
      BY <2>2, <3>1, <3>2
  <2>4. Stays
    BY <2>1, <2>3 DEF Stays
  <2>5. OfGroup(req[r])'
    BY <2>1, <2>2, <2>3 DEF OfGroup, Belongs
  <2>6. QED
    BY <2>1, <2>4, <2>5, RowKept
<1>3. QED
  BY <1>1, <1>2

LEMMA RowRedeem ==
    ASSUME TInv, RowInv, NEW r \in Requests, Redeem(r)
    PROVE  RowInv'
<1> DEFINE q == req[r]
<1>1. CASE invite[q.invite].state = "expired"
  BY <1>1, RedeemsNot, RowBlank DEF dbVars, Blank, Closed
<1>2. CASE invite[q.invite].state # "expired"
  <2> DEFINE n == [invite[q.invite] EXCEPT !.used = q.seen + 1]
  <2>1. /\ q.pc = "redeem" /\ req'[r].pc = "look" /\ Keeps(r)
        /\ req'[r].user = q.user /\ req'[r].group = q.group /\ req'[r].purse = invite[q.invite].purse
        /\ invite' = [invite EXCEPT ![q.invite] = n]
        /\ UNCHANGED <<member, purse, row, adminRow>>
    BY <1>2, Redeems
  <2>2. q.invite \in Invites /\ OfGroup(q) /\ invite[q.invite] \in InviteRow
    BY <2>1, Typed, TypeFacts DEF Holds, RowInv
  <2>3. /\ n.state = invite[q.invite].state /\ n.group = invite[q.invite].group
        /\ n.purse = invite[q.invite].purse /\ invite[q.invite].purse \in Purses \cup {None}
    BY <2>2 DEF InviteRow
  <2>. HIDE DEF n
  <2>4. \A i \in Invites : /\ invite'[i].state = invite[i].state
                           /\ invite'[i].group = invite[i].group /\ invite'[i].purse = invite[i].purse
    BY <2>1, <2>2, <2>3, TypeFacts
  <2>5. Stays
    BY <2>1, <2>4 DEF Stays
  <2>6. OfGroup(req[r])'
    <3>1. req'[r].purse # None => Of(req'[r].purse, q.group)
      BY <2>1, <2>2, <2>3 DEF OfGroup, RowInv
    <3>2. Belongs(q.user, q.group)
      BY <2>1, <2>2 DEF OfGroup
    <3>3. UNCHANGED <<member, purse>> /\ req'[r].pc = "look" /\ req'[r].user = q.user /\ req'[r].group = q.group
      BY <2>1
    <3>4. QED
      BY <3>1, <3>2, <3>3 DEF OfGroup, Of, Belongs
  <2>7. QED
    BY <2>1, <2>4, <2>5, <2>6, RowKept
<1>3. QED
  BY <1>1, <1>2

LEMMA RowEnrol ==
    ASSUME TInv, RowInv, NEW r \in Requests,
           LookForPurses(r) \/ SkipEnrolled(r) \/ EnrolNewMember(r) \/ LookForInvited(r) \/ EnrolOne(r)
    PROVE  RowInv'
<1> USE DEF dbVars, historyVars
<1> DEFINE q == req[r]
           batch == q.purses \X {q.user}
<1>0. OfGroup(q) /\ q.purses \in SUBSET Purses
  BY Typed DEF RowInv, Request
<1>1. CASE LookForPurses(r)
  <2>1. /\ q.pc = "look" /\ req'[r].pc = "skip" /\ Keeps(r)
        /\ req'[r].user = q.user /\ req'[r].group = q.group /\ req'[r].purse = q.purse
        /\ req'[r].purses = Latecomers(q)
        /\ UNCHANGED <<member, purse, invite, row, adminRow>>
    BY <1>1, Looks
  <2>2. OfGroup(req[r])'
    BY <1>0, <2>1 DEF OfGroup, Of, Belongs, Latecomers
  <2>3. QED
    BY <2>1, <2>2, RowQuiet
<1>2. CASE SkipEnrolled(r)
  <2>1. /\ q.pc = "skip" /\ req'[r].pc = "enrol" /\ Keeps(r)
        /\ req'[r].user = q.user /\ req'[r].group = q.group /\ req'[r].purse = q.purse
        /\ req'[r].purses \subseteq q.purses
        /\ UNCHANGED <<member, purse, invite, row, adminRow>>
    BY <1>2, Skips
  <2>2. OfGroup(req[r])'
    BY <1>0, <2>1 DEF OfGroup, Of, Belongs
  <2>3. QED
    BY <2>1, <2>2, RowQuiet
<1>3. CASE EnrolNewMember(r)
  <2>1. CASE batch \cap row # {}
    BY <1>3, <2>1, EnrolsNot, RowBlank DEF Blank, Closed
  <2>2. CASE batch \cap row = {}
    <3>1. /\ q.pc = "enrol" /\ Keeps(r) /\ row' = row \cup batch
          /\ UNCHANGED <<member, purse, invite, adminRow>>
          /\ \/ req'[r].pc = "idle"
             \/ /\ req'[r].pc = "invited" /\ req'[r].user = q.user /\ req'[r].group = q.group
                /\ req'[r].purse = q.purse
      BY <1>3, <2>2, Enrols, EnrolsInvited, ClosedIsTyped
    <3>2. OfGroup(req[r])'
      BY <1>0, <3>1 DEF OfGroup, Of, Belongs
    <3>3. \A p \in q.purses : purse[p].status # "absent" /\ member[q.user][purse[p].group].state # "none"
      BY <1>0, <3>1 DEF OfGroup, Of, Belongs
    <3>4. \A p \in Purses, u \in Users : <<p, u>> \in row' \ row => p \in q.purses /\ u = q.user
      BY <3>1
    <3>5. QED
      BY <3>1, <3>2, <3>3, <3>4, RowKept, RowsStay
  <2>3. QED
    BY <2>1, <2>2
<1>4. CASE LookForInvited(r)
  <2>1. CASE purse[q.purse].status = "open" /\ <<q.purse, q.user>> \notin row
    <3>1. /\ q.pc = "invited" /\ req'[r].pc = "ensure" /\ Keeps(r)
          /\ req'[r].user = q.user /\ req'[r].group = q.group /\ req'[r].purse = q.purse
          /\ UNCHANGED <<member, purse, invite, row, adminRow>>
      BY <1>4, <2>1, Invited
    <3>2. OfGroup(req[r])'
      BY <1>0, <3>1 DEF OfGroup, Of, Belongs
    <3>3. QED
      BY <3>1, <3>2, RowQuiet
  <2>2. CASE ~(purse[q.purse].status = "open" /\ <<q.purse, q.user>> \notin row)
    BY <1>4, <2>2, InvitedNot, RowBlank DEF Blank, Closed
  <2>3. QED
    BY <2>1, <2>2
<1>5. CASE EnrolOne(r)
  <2>1. /\ q.pc \in {"ensure", "add"} /\ req'[r].pc = "idle" /\ Keeps(r)
        /\ row' = row \cup {<<q.purse, q.user>>}
        /\ UNCHANGED <<member, purse, invite, adminRow>>
    BY <1>5, EnrolsOne, ClosedIsTyped
  <2>2. q.purse # None
    BY <2>1, Typed, NamesAssumption DEF Holds
  <2>3. purse[q.purse].status # "absent" /\ member[q.user][purse[q.purse].group].state # "none"
    BY <1>0, <2>1, <2>2 DEF OfGroup, Of, May, Belongs
  <2>4. OfGroup(req[r])'
    BY <2>1 DEF OfGroup
  <2>5. \A p \in Purses, u \in Users : <<p, u>> \in row' \ row => p = q.purse /\ u = q.user
    BY <2>1
  <2>6. QED
    BY <2>1, <2>3, <2>4, <2>5, RowKept, RowsStay
<1>6. QED
  BY <1>1, <1>2, <1>3, <1>4, <1>5

LEMMA RowPurse ==
    ASSUME TInv, RowInv, NEW r \in Requests, NEW p \in Purses, CommitPurse(r, p)
    PROVE  RowInv'
<1> DEFINE q == req[r]
<1>1. /\ q.pc = "commit" /\ req'[r].pc = "sweep" /\ req'[r].purse = p /\ req'[r].group = q.group
      /\ Keeps(r) /\ purse[p].status = "absent" /\ UNCHANGED <<member, invite, row, adminRow>>
  BY Creates
<1>2. /\ purse'[p] = [status |-> "open", group |-> q.group, cohort |-> q.cohort]
      /\ \A o \in Purses \ {p} : purse'[o] = purse[o]
  BY Creates, TypeFacts
<1>3. Stays
  BY <1>1, <1>2 DEF Stays
<1>4. OfGroup(req[r])'
  BY <1>1, <1>2 DEF OfGroup, Of
<1>5. QED
  BY <1>1, <1>3, <1>4, RowKept

LEMMA RowSweep ==
    ASSUME TInv, RowInv, NEW r \in Requests, FindMembers(r) \/ EnrolMembers(r)
    PROVE  RowInv'
<1> USE DEF dbVars, historyVars
<1> DEFINE q == req[r]
           batch == {q.purse} \X q.people
<1>0. OfGroup(q)
  BY DEF RowInv
<1>1. CASE FindMembers(r)
  <2>1. /\ q.pc = "sweep" /\ req'[r].pc = "insert" /\ Keeps(r)
        /\ req'[r].purse = q.purse /\ req'[r].group = q.group /\ req'[r].people = Found(q)
        /\ UNCHANGED <<member, purse, invite, row, adminRow>>
    BY <1>1, Finds
  <2>2. OfGroup(req[r])'
    BY <1>0, <2>1 DEF OfGroup, Of, Belongs, Found
  <2>3. QED
    BY <2>1, <2>2, RowQuiet
<1>2. CASE EnrolMembers(r)
  <2>1. /\ q.pc = "insert" /\ Keeps(r) /\ Blank(req'[r]) /\ UNCHANGED <<member, purse, invite>>
    BY <1>2, SweepEnds DEF Blank
  <2>2. CASE batch \cap row # {}
    <3>1. UNCHANGED <<row, adminRow>>
      BY <1>2, <2>2, SweepsNot, SweepsNotUnderKey
    <3>2. QED
      BY <2>1, <3>1, RowBlank
  <2>3. CASE batch \cap row = {}
    <3>1. /\ row' = row \cup batch
          /\ adminRow' = adminRow \cup {<<q.purse, u>> : u \in {v \in Users : <<v, q.group>> \in Admins}}
      BY <1>2, <2>3, Sweeps, SweepsUnderKey
    <3>2. /\ purse[q.purse].status # "absent" /\ purse[q.purse].group = q.group
          /\ \A u \in q.people : member[u][q.group].state # "none"
      BY <1>0, <2>1 DEF OfGroup, Of, Belongs
    <3>3. \A p \in Purses, u \in Users : <<p, u>> \in row' \ row => p = q.purse /\ u \in q.people
      BY <3>1
    <3>4. \A p \in Purses, u \in Users : <<p, u>> \in adminRow' \ adminRow => p = q.purse /\ <<u, q.group>> \in Admins
      BY <3>1
    <3>5. OfGroup(req[r])'
      BY <2>1 DEF Blank, OfGroup
    <3>6. QED
      BY <2>1, <3>2, <3>3, <3>4, <3>5, RowKept, RowsStay
  <2>4. QED
    BY <2>2, <2>3
<1>3. QED
  BY <1>1, <1>2

LEMMA RowEdit ==
    ASSUME TInv, RowInv, NEW r \in Requests, EditCohortCommit(r)
    PROVE  RowInv'
<1>1. /\ req'[r].pc = "idle" /\ Keeps(r) /\ UNCHANGED <<purse, invite, row, adminRow>>
      /\ member' = [u \in Users |-> [g \in Groups |->
                       IF g = req[r].group /\ u \in req[r].people /\ member[u][g].state = "active"
                       THEN [member[u][g] EXCEPT !.cohort = req[r].cohort] ELSE member[u][g]]]
  BY Edits, ClosedIsTyped
<1>2. \A u \in Users, g \in Groups : member'[u][g].state = member[u][g].state
  <2>1. \A u \in Users, g \in Groups : member[u][g] \in MemberRow
    BY TypeFacts
  <2>2. \A u \in Users, g \in Groups : member'[u][g] \in {[member[u][g] EXCEPT !.cohort = req[r].cohort], member[u][g]}
    BY <1>1
  <2>3. QED
    BY <2>1, <2>2 DEF MemberRow
<1>3. Stays
  BY <1>1, <1>2 DEF Stays
<1>4. OfGroup(req[r])'
  BY <1>1 DEF OfGroup
<1>5. QED
  BY <1>1, <1>3, <1>4, RowKept

LEMMA RowArrive ==
    ASSUME TInv, RowInv, NEW r \in Requests, Arrive(r)
    PROVE  RowInv'
<1> USE DEF dbVars
<1>1. ASSUME NEW u \in Users, NEW i \in Invites, Resolve(r, u, i)
      PROVE  RowInv'
  <2>1. OfGroup(req[r])'
    BY <1>1, Resolves DEF OfGroup
  <2>2. QED
    BY <1>1, <2>1, Resolves, RowQuiet
<1>2. ASSUME NEW g \in Groups, NEW k \in Keys \cup {None}, CreatePurse(r, g, k)
      PROVE  RowInv'
  BY <1>2, Asks, RowBlank DEF Blank
<1>3. ASSUME NEW p \in Purses, NEW u \in Users, AddMember(r, p, u)
      PROVE  RowInv'
  <2>1. OfGroup(req[r])'
    BY <1>3, Adds DEF OfGroup, May, Belongs
  <2>2. QED
    BY <1>3, <2>1, Adds, RowQuiet
<1>4. ASSUME NEW g \in Groups, NEW c \in Cohorts, EditCohort(r, g, c)
      PROVE  RowInv'
  BY <1>4, OpensEdit, RowBlank DEF Blank
<1>5. QED
  BY <1>1, <1>2, <1>3, <1>4 DEF Arrive, Join, JoinAdditionalGroup

\* A step outside the requests, or one that ends them all.
LEMMA RowApart ==
    ASSUME TInv, RowInv, Stays, UNCHANGED <<row, adminRow>>,
           \A r \in Requests : req'[r] = req[r] \/ req'[r] = Closed,
           \A i \in Invites : invite'[i].purse \in Purses => Of(invite[i].purse, invite[i].group)'
    PROVE  RowInv'
<1>1. \A p \in Purses, u \in Users : <<p, u>> \in row' => May(p, u)'
  BY MayStays DEF RowInv, May, Belongs
<1>2. \A p \in Purses, u \in Users : <<p, u>> \in adminRow' =>
         purse'[p].status # "absent" /\ <<u, purse'[p].group>> \in Admins
  BY DEF RowInv, Stays
<1>3. ASSUME NEW r \in Requests
      PROVE  OfGroup(req[r])'
  <2>1. CASE req'[r] = req[r]
    BY <2>1, OfGroupStays DEF RowInv
  <2>2. CASE req'[r] = Closed
    BY <2>2, ClosedIsTyped DEF OfGroup
  <2>3. QED
    BY <2>1, <2>2
<1>4. QED
  BY <1>1, <1>2, <1>3 DEF RowInv

LEMMA RowOutside ==
    ASSUME TInv, RowInv, Outside
    PROVE  RowInv'
<1> USE DEF dbVars, historyVars
<1>1. ASSUME NEW i \in Invites, NEW g \in Groups, NEW p \in Purses \cup {None}, CreateInvite(i, g, p)
      PROVE  RowInv'
  <2> DEFINE n == [invite[i] EXCEPT !.state = "live", !.group = g, !.purse = p]
  <2>1. /\ invite' = [invite EXCEPT ![i] = n] /\ invite[i].state = "absent"
        /\ p \in Purses => Of(p, g)
        /\ UNCHANGED <<req, member, purse, row, adminRow>>
    BY <1>1, TypeFacts, NamesAssumption DEF CreateInvite, Of
  <2>2. n.group = g /\ n.purse = p
    <3>1. invite[i] \in InviteRow
      BY TypeFacts
    <3>2. QED
      BY <3>1 DEF InviteRow
  <2>. HIDE DEF n
  <2>3. \A j \in Invites : invite'[j] = IF j = i THEN n ELSE invite[j]
    BY <2>1, TypeFacts
  <2>4. Stays
    BY <2>1, <2>3 DEF Stays
  <2>5. \A j \in Invites : invite'[j].purse \in Purses => Of(invite[j].purse, invite[j].group)'
    BY <2>1, <2>2, <2>3 DEF RowInv, Of
  <2>6. QED
    BY <2>1, <2>4, <2>5, RowApart
<1>2. ASSUME NEW i \in Invites, RevokeInvite(i) \/ InviteExpires(i)
      PROVE  RowInv'
  <2>1. PICK n \in InviteRow : /\ n.state # "absent" /\ n.group = invite[i].group /\ n.purse = invite[i].purse
                               /\ invite' = [invite EXCEPT ![i] = n]
    <3>1. invite[i] \in InviteRow
      BY TypeFacts
    <3>2. CASE RevokeInvite(i)
      <4> DEFINE m == [invite[i] EXCEPT !.revoked = TRUE]
      <4>1. m \in InviteRow /\ m.state # "absent" /\ m.group = invite[i].group /\ m.purse = invite[i].purse
        BY <3>1, <3>2 DEF InviteRow, RevokeInvite
      <4>2. invite' = [invite EXCEPT ![i] = m]
        BY <3>2, TypeFacts DEF RevokeInvite
      <4>3. QED
        BY <4>1, <4>2
    <3>3. CASE InviteExpires(i)
      <4> DEFINE m == [invite[i] EXCEPT !.state = "expired"]
      <4>1. m \in InviteRow /\ m.state # "absent" /\ m.group = invite[i].group /\ m.purse = invite[i].purse
        BY <3>1 DEF InviteRow
      <4>2. invite' = [invite EXCEPT ![i] = m]
        BY <3>3, TypeFacts DEF InviteExpires
      <4>3. QED
        BY <4>1, <4>2
    <3>4. QED
      BY <1>2, <3>2, <3>3
  <2>2. \A j \in Invites : /\ invite'[j].group = invite[j].group /\ invite'[j].purse = invite[j].purse
                           /\ invite[j].state # "absent" => invite'[j].state # "absent"
    BY <2>1, TypeFacts
  <2>3. UNCHANGED <<req, member, purse, row, adminRow>>
    BY <1>2 DEF RevokeInvite, InviteExpires
  <2>4. Stays
    BY <2>2, <2>3 DEF Stays
  <2>5. \A j \in Invites : invite'[j].purse \in Purses => Of(invite[j].purse, invite[j].group)'
    BY <2>2, <2>3 DEF RowInv, Of
  <2>6. QED
    BY <2>3, <2>4, <2>5, RowApart
<1>3. ASSUME Stays, UNCHANGED <<row, adminRow, invite>>,
             \A r \in Requests : req'[r] = req[r] \/ req'[r] = Closed
      PROVE  RowInv'
  <2>1. \A i \in Invites : invite'[i].purse \in Purses => Of(invite[i].purse, invite[i].group)'
    BY <1>3 DEF RowInv, Of, Stays
  <2>2. QED
    BY <1>3, <2>1, RowApart
<1>4. ASSUME NEW p \in Purses, ClosePurse(p) \/ ReopenPurse(p)
      PROVE  RowInv'
  <2>1. PICK st \in {"open", "closed"} : purse' = [purse EXCEPT ![p].status = st]
    BY <1>4 DEF ClosePurse, ReopenPurse
  <2>2. \A o \in Purses : /\ purse[o].status # "absent" => purse'[o].status # "absent"
                          /\ purse'[o].group = purse[o].group
    <3>1. purse \in [Purses -> PurseRow] /\ purse[p] \in PurseRow
      BY TypeFacts
    <3> DEFINE n == [purse[p] EXCEPT !.status = st]
    <3>2. purse' = [purse EXCEPT ![p] = n]
      BY <2>1
    <3>3. n.status = st /\ n.group = purse[p].group
      BY <3>1 DEF PurseRow
    <3>. HIDE DEF n
    <3>4. QED
      BY <3>1, <3>2, <3>3
  <2>3. UNCHANGED <<req, member, invite, row, adminRow>>
    BY <1>4 DEF ClosePurse, ReopenPurse
  <2>4. Stays
    BY <2>2, <2>3 DEF Stays
  <2>5. QED
    BY <1>3, <2>3, <2>4
<1>5. ASSUME NEW u \in Users, NEW g \in Groups, RemoveMember(u, g)
      PROVE  RowInv'
  <2> DEFINE n == [member[u][g] EXCEPT !.state = "removed"]
  <2>1. /\ UNCHANGED <<req, purse, invite, row, adminRow>>
        /\ member' = [member EXCEPT ![u] = [member[u] EXCEPT ![g] = n]]
    BY <1>5 DEF RemoveMember
  <2>2. n.state = "removed" /\ member \in [Users -> [Groups -> MemberRow]]
    <3>1. member[u][g] \in MemberRow /\ member \in [Users -> [Groups -> MemberRow]]
      BY TypeFacts
    <3>2. QED
      BY <3>1 DEF MemberRow
  <2>. HIDE DEF n
  <2>3. \A v \in Users, h \in Groups : member'[v][h] = IF v = u /\ h = g THEN n ELSE member[v][h]
    BY <2>1, <2>2
  <2>4. Stays
    BY <2>1, <2>2, <2>3 DEF Stays
  <2>5. QED
    BY <1>3, <2>1, <2>4
<1>6. ASSUME Crash
      PROVE  RowInv'
  <2>1. UNCHANGED <<member, purse, invite, row, adminRow>> /\ \A r \in Requests : req'[r] = Closed
    BY <1>6 DEF Crash
  <2>2. QED
    BY <1>3, <2>1, RowsStay
<1>7. ASSUME NEW k \in Keys, KeyExpires(k)
      PROVE  RowInv'
  BY <1>3, <1>7, RowsStay DEF KeyExpires
<1>8. QED
  BY <1>1, <1>2, <1>4, <1>5, <1>6, <1>7 DEF Outside

LEMMA RowStep ==
    ASSUME TInv, RowInv, [Next]_vars
    PROVE  RowInv'
<1> USE DEF dbVars, historyVars
<1>1. ASSUME NEW r \in Requests, Step(r)
      PROVE  RowInv'
  <2> USE DEF Blank
  <2>1. CASE Begin(r)
    BY <2>1, Begins, BeginsNot, ClosedIsTyped, RowBlank
  <2>2. CASE BeginUnreserved(r) \/ ReadGroup(r)
    BY <2>2, BeginsUnreserved, Reads, RowBlank
  <2>3. CASE Complete(r) \/ Release(r)
    BY <2>3, Completes, Releases, ClosedIsTyped, RowBlank
  <2>4. CASE SelectMembers(r)
    BY <2>4, Selects, RowBlank
  <2>5. QED
    BY <1>1, <2>1, <2>2, <2>3, <2>4, RowCommit, RowRedeem, RowEnrol, RowPurse, RowSweep, RowEdit DEF Step
<1>2. CASE UNCHANGED vars
  BY <1>2 DEF vars, RowInv, May, Of, OfGroup, Belongs
<1>3. QED
  BY <1>1, <1>2, RowArrive, RowOutside DEF Next

-----------------------------------------------------------------------------
(* What the endpoints answer, when rows are of members of the group        *)

LEMMA OwnerMayFollow ==
    ASSUME TInv, RowInv, NEW p \in Purses, NEW u \in Users, <<p, u>> \in row
    PROVE  /\ MayOpen(u, p)
           /\ u \notin AdminRole => MayRead(u, p, u) /\ MayReadHistory(u, p, u)
           /\ u \in MembersListed(purse[p].group)
           /\ u \in MembersCounted(purse[p].group) =>
                 /\ p \in MyPurses(u, purse[p].group)
                 /\ MayWatch(u, p)
                 /\ purse[p].group \in SwitcherGroups(u) \cap MemberGroups(u)
           /\ p \in PursesListed(u, purse[p].group, purse[p].group)
<1>1. May(p, u) /\ purse[p].group \in Groups
  BY DEF RowInv, TInv, May
<1>2. MayOpen(u, p)
  BY <1>1 DEF MayOpen, MemberOf, May
<1>3. u \notin AdminRole => MayRead(u, p, u) /\ MayReadHistory(u, p, u)
  BY DEF MayReadHistory, MayRead
<1>4. u \in MembersListed(purse[p].group)
  BY <1>1 DEF MembersListed, May
<1>5. u \in MembersCounted(purse[p].group) =>
         /\ p \in MyPurses(u, purse[p].group)
         /\ MayWatch(u, p)
         /\ purse[p].group \in SwitcherGroups(u) \cap MemberGroups(u)
  BY <1>1 DEF MembersCounted, MyPurses, OwnPurses, HasMemberIdentity, MayWatch, MemberOf, May,
              SwitcherGroups, MemberGroups
<1>6. p \in PursesListed(u, purse[p].group, purse[p].group)
  BY <1>1 DEF PursesListed, Created, OwnPurses, MemberOf, May
<1>7. QED
  BY <1>2, <1>3, <1>4, <1>5, <1>6

LEMMA CountsAgree ==
    ASSUME TInv, RowInv, NEW p \in Created
    PROVE  LET g == purse[p].group
               owners == {u \in Users : <<p, u>> \in row}
           IN  /\ Cardinality(owners) <= DashboardCounts(g).members
               /\ Cardinality({u \in owners : member[u][g].state = "active"}) <= GroupDetail(g).members
               /\ DashboardCounts(g).purses = GroupDetail(g).purses
               /\ {u \in Users : <<p, u>> \in adminRow} \subseteq GroupDetail(g).admins
<1> DEFINE g == purse[p].group
           owners == {u \in Users : <<p, u>> \in row}
           active == {u \in owners : member[u][g].state = "active"}
<1>1. p \in Purses
  BY DEF Created
<1>2. owners \subseteq MembersListed(g) /\ active \subseteq MembersCounted(g)
  BY <1>1 DEF RowInv, May, MembersListed, MembersCounted
<1>3. IsFiniteSet(MembersListed(g)) /\ IsFiniteSet(MembersCounted(g))
  <2>1. MembersListed(g) \subseteq Users /\ MembersCounted(g) \subseteq Users
    BY DEF MembersListed, MembersCounted
  <2>2. QED
    BY <2>1, RoleAssumption, FS_Subset
<1>. HIDE DEF owners, active
<1>4. /\ Cardinality(owners) <= Cardinality(MembersListed(g))
      /\ Cardinality(active) <= Cardinality(MembersCounted(g))
  BY <1>2, <1>3, FS_Subset
<1>5. {u \in Users : <<p, u>> \in adminRow} \subseteq GroupDetail(g).admins
  <2>1. \A u \in Users : <<p, u>> \in adminRow => Administers(u, g)
    BY <1>1 DEF RowInv, Administers
  <2>2. GroupDetail(g).admins = IF \E u \in Users : Administers(u, g)
                                THEN {u \in Users : Administers(u, g)} ELSE {None}
    BY DEF GroupDetail
  <2>. HIDE DEF g
  <2>3. QED
    BY <2>1, <2>2
<1>6. /\ DashboardCounts(g).members = Cardinality(MembersListed(g))
      /\ DashboardCounts(g).purses = Cardinality(PursesCounted(g))
      /\ GroupDetail(g).members = Cardinality(MembersCounted(g))
      /\ GroupDetail(g).purses = Cardinality(PursesCounted(g))
  BY DEF DashboardCounts, GroupDetail
<1>7. QED
  BY <1>4, <1>5, <1>6 DEF owners, active

\* Every owner of a contribution is, and stays, somebody the endpoints let
\* follow it, for rows are only ever made for members of the purse's group and
\* no step moves a purse or ends a membership for good.
THEOREM OwnersMayFollow == Spec => []WhoeverOwesMayFollow
<1>1. Init => RowInv
  <2>1. Init => /\ row = {} /\ adminRow = {}
                /\ \A r \in Requests : req[r].pc = "idle"
                /\ \A i \in Invites : invite[i].purse = None
    BY ClosedIsTyped DEF Init
  <2>2. QED
    BY <2>1, NamesAssumption DEF RowInv, OfGroup
<1>2. TInv /\ RowInv /\ [Next]_vars => RowInv'
  BY RowStep
<1>3. TInv /\ RowInv => WhoeverOwesMayFollow
  <2> SUFFICES ASSUME TInv, RowInv
               PROVE  WhoeverOwesMayFollow
    OBVIOUS
  <2>1. ASSUME NEW p \in Purses, NEW u \in Users, <<p, u>> \in adminRow
        PROVE  MayOpen(u, p) /\ MayList(u, p) /\ p \in PursesCounted(purse[p].group)
    <3>1. purse[p].status # "absent" /\ <<u, purse[p].group>> \in Admins /\ purse[p].group \in Groups
      BY <2>1 DEF RowInv, TInv
    <3>2. QED
      BY <2>1, <3>1 DEF MayOpen, MayList, Owns, Administers, HasAdminIdentity, PursesCounted, Created
  <2>2. \A p \in Created, u \in Users : MayOpen(u, p) => Owns(u, p) \/ Administers(u, purse[p].group)
    BY DEF MayOpen, Owns
  <2>3. \A p \in Created, u \in Users : MaySettle(u, p) => MayList(u, p)
    BY NamesAssumption DEF MaySettle, MayList, HasAdminIdentity, Administers
  <2>4. QED
    BY <2>1, <2>2, <2>3, OwnerMayFollow, CountsAgree DEF WhoeverOwesMayFollow
<1>4. QED
  BY <1>1, <1>2, <1>3, Invariance, PTL DEF Spec
=============================================================================
