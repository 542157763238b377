-------------------------- MODULE MembershipProofs --------------------------
(***************************************************************************)
(* Theorems about Membership: invitations are accepted once and decided    *)
(* once unless requests race, replacements are whole, and the lists agree  *)
(* with the guards.                                                        *)
(***************************************************************************)
EXTENDS Membership, SequenceTheorems, TLAPS

Statuses    == {"pending", "accepted", "expired", "revoked"}
Invitations == [status : Statuses, scopes : SUBSET Scopes, late : BOOLEAN]
Locals      == [invite : Nat, member : Nat, want : SUBSET Scopes, doomed : [Scopes -> Int]]

\* Grants are counted as integers: that none is below 0 is no one's concern here.
InviteTypes ==
  /\ invites \in Seq(Invitations) /\ accepted \in Seq(Nat) /\ decided \in Seq(Nat)
  /\ Len(accepted) = Len(invites) /\ Len(decided) = Len(invites)

FiberTypes == pc \in [Fibers -> Places] /\ loc \in [Fibers -> Locals]

AccessTypes ==
  /\ member \in Nat /\ members \in Nat /\ grants \in [Scopes -> Int] /\ alive \subseteq Scopes

Types == InviteTypes /\ FiberTypes /\ AccessTypes

USE MembershipAssumption

-----------------------------------------------------------------------------
(* Sequences of which one element is overwritten, if there is such a one.  *)
LEMMA Overwritten ==
  ASSUME NEW S, NEW s \in Seq(S), NEW i, NEW e, i \in 1..Len(s) => e \in S
  PROVE  /\ [s EXCEPT ![i] = e] \in Seq(S)
         /\ Len([s EXCEPT ![i] = e]) = Len(s)
         /\ \A j \in 1..Len(s) : [s EXCEPT ![i] = e][j] = IF j = i THEN e ELSE s[j]
<1>1. s \in [1..Len(s) -> S]
  BY LenProperties
<1>2. CASE i \in 1..Len(s)
  BY <1>2, ExceptSeq
<1>3. CASE i \notin 1..Len(s)
  <2>1. [s EXCEPT ![i] = e] = s
    BY <1>1, <1>3
  <2>2. QED
    BY <1>3, <2>1
<1>4. QED
  BY <1>2, <1>3

LEMMA Appended ==
  ASSUME NEW S, NEW s \in Seq(S), NEW e \in S
  PROVE  LET t == Append(s, e) IN
         /\ t \in Seq(S) /\ Len(t) = Len(s) + 1 /\ t[Len(s) + 1] = e
         /\ \A j \in 1..Len(s) : t[j] = s[j]
  OBVIOUS

LEMMA Rewritten ==
  ASSUME NEW x \in Invitations, NEW st \in Statuses
  PROVE  /\ [x EXCEPT !.status = st] \in Invitations /\ [x EXCEPT !.status = st].status = st
         /\ [x EXCEPT !.late = TRUE] \in Invitations /\ [x EXCEPT !.late = TRUE].status = x.status
  BY DEF Invitations

LEMMA FreshTyped == Fresh \in Locals
  BY DEF Fresh, NoGrants, Locals

LEMMA InitTypes == Init => Types
<1> SUFFICES ASSUME Init PROVE Types
  OBVIOUS
<1>1. InviteTypes
  BY DEF Init, InviteTypes
<1>2. FiberTypes
  BY FreshTyped DEF Init, FiberTypes, Places
<1>3. grants \in [Scopes -> Int] /\ alive \subseteq Scopes
  BY DEF Init, NoGrants
<1>4. member = 0 /\ members = 0
  BY DEF Init
<1>5. AccessTypes
  BY <1>3, <1>4 DEF AccessTypes
<1>6. QED
  BY <1>1, <1>2, <1>5 DEF Types

-----------------------------------------------------------------------------
(* Who changes the invitations, and how.                                   *)

LEMMA InvitesFrame ==
  ASSUME [Next]_vars
  PROVE  \/ \E f \in Fibers : InsertInvite(f) \/ Accept(f) \/ Expire(f) \/ Revoke(f)
         \/ PassExpiry \/ UNCHANGED <<invites, accepted, decided, raced>>
<1> USE DEF invited
<1>1. ASSUME NEW f \in Fibers, Invitation(f)
      PROVE  \/ InsertInvite(f) \/ Accept(f) \/ Expire(f) \/ Revoke(f)
             \/ UNCHANGED <<invites, accepted, decided, raced>>
  BY <1>1 DEF Invitation, Invite, ReadInvite, AcceptRefused, AddToClerk, ReadToRevoke
<1>2. ASSUME NEW f \in Fibers, Webhook(f) PROVE UNCHANGED <<invites, accepted, decided, raced>>
  BY <1>2 DEF Webhook, Deliver, NoSuchOrg, CreateMember, MemberExists, FindMember, GrantOrg, GrantRefused
<1>3. ASSUME NEW f \in Fibers, Replacement(f) \/ Throw(f) PROVE UNCHANGED <<invites, accepted, decided, raced>>
  BY <1>3 DEF Replacement, Replace, LockMember, MemberGone, DeleteGrants, InsertGrants, InsertRefused, Throw
<1>4. CASE Outside
  BY <1>4 DEF Outside, OrgCreated, Forget, RemoveMember, RemoveScope, Cascade, JoinInClerk, Crash
<1>5. QED
  BY <1>1, <1>2, <1>3, <1>4 DEF Next, vars

(* A decision changes the status of one invitation, if there is such a one.*)
LEMMA Decided ==
  ASSUME InviteTypes, NEW f \in Fibers, NEW i, NEW st \in Statuses, Decide(f, i, st)
  PROVE  /\ invites' \in Seq(Invitations) /\ Len(invites') = Len(invites)
         /\ decided' \in Seq(Nat) /\ Len(decided') = Len(decided)
         /\ \A j \in 1..Len(invites) :
              /\ invites'[j].status = IF j = i THEN st ELSE invites[j].status
              /\ decided'[j] = IF j = i THEN decided[j] + 1 ELSE decided[j]
<1> DEFINE x == [invites[i] EXCEPT !.status = st]
           n == decided[i] + 1
<1> USE DEF InviteTypes
<1>1. i \in 1..Len(invites) => invites[i] \in Invitations
  BY ElementOfSeq
<1>2. i \in 1..Len(invites) => x \in Invitations /\ x.status = st
  BY <1>1, Rewritten
<1>3. i \in 1..Len(decided) => n \in Nat
  BY ElementOfSeq
<1>4. invites' = [invites EXCEPT ![i] = x] /\ decided' = [decided EXCEPT ![i] = n]
  BY Zenon DEF Decide
<1>5. \A j \in 1..Len(decided) : j = i => n = decided[j] + 1
  OBVIOUS
<1> HIDE DEF x, n
<1>6. /\ invites' \in Seq(Invitations) /\ Len(invites') = Len(invites)
      /\ \A j \in 1..Len(invites) : invites'[j] = IF j = i THEN x ELSE invites[j]
  BY <1>2, <1>4, Overwritten
<1>7. /\ decided' \in Seq(Nat) /\ Len(decided') = Len(decided)
      /\ \A j \in 1..Len(decided) : decided'[j] = IF j = i THEN n ELSE decided[j]
  BY <1>3, <1>4, Overwritten
<1>8. QED
  BY <1>2, <1>5, <1>6, <1>7

(* An acceptance counts one more for it.                                   *)
LEMMA AcceptCounted ==
  ASSUME InviteTypes, NEW f \in Fibers, Accept(f)
  PROVE  /\ accepted' \in Seq(Nat) /\ Len(accepted') = Len(accepted)
         /\ \A j \in 1..Len(accepted) :
              accepted'[j] = IF j = loc[f].invite THEN accepted[j] + 1 ELSE accepted[j]
<1> DEFINE i == loc[f].invite
           n == accepted[i] + 1
<1> USE DEF InviteTypes
<1>1. accepted' = [accepted EXCEPT ![i] = n]
  BY Zenon DEF Accept
<1>2. i \in 1..Len(accepted) => n \in Nat
  BY ElementOfSeq
<1>3. \A j \in 1..Len(accepted) : j = i => n = accepted[j] + 1
  OBVIOUS
<1> HIDE DEF i, n
<1>4. /\ accepted' \in Seq(Nat) /\ Len(accepted') = Len(accepted)
      /\ \A j \in 1..Len(accepted) : accepted'[j] = IF j = i THEN n ELSE accepted[j]
  BY <1>1, <1>2, Overwritten
<1>5. QED
  BY <1>3, <1>4 DEF i

(* A new invitation comes last.                                            *)
LEMMA Inserted ==
  ASSUME InviteTypes, FiberTypes, NEW f \in Fibers, InsertInvite(f)
  PROVE  /\ InviteTypes' /\ Len(invites') = Len(invites) + 1
         /\ invites'[Len(invites) + 1].status = "pending"
         /\ accepted'[Len(invites) + 1] = 0 /\ decided'[Len(invites) + 1] = 0
         /\ \A j \in 1..Len(invites) :
              invites'[j].status = invites[j].status /\ accepted'[j] = accepted[j] /\ decided'[j] = decided[j]
<1> DEFINE x == [status |-> "pending", scopes |-> loc[f].want, late |-> FALSE]
<1>1. x \in Invitations /\ x.status = "pending"
  BY DEF FiberTypes, Locals, Invitations, Statuses
<1>2. invites' = Append(invites, x) /\ accepted' = Append(accepted, 0) /\ decided' = Append(decided, 0)
  BY DEF InsertInvite
<1> HIDE DEF x
<1>3. /\ invites' \in Seq(Invitations) /\ Len(invites') = Len(invites) + 1
      /\ invites'[Len(invites) + 1] = x /\ \A j \in 1..Len(invites) : invites'[j] = invites[j]
  BY <1>1, <1>2, Appended DEF InviteTypes
<1>4. /\ accepted' \in Seq(Nat) /\ Len(accepted') = Len(accepted) + 1
      /\ accepted'[Len(accepted) + 1] = 0 /\ \A j \in 1..Len(accepted) : accepted'[j] = accepted[j]
  BY <1>2, Appended DEF InviteTypes
<1>5. /\ decided' \in Seq(Nat) /\ Len(decided') = Len(decided) + 1
      /\ decided'[Len(decided) + 1] = 0 /\ \A j \in 1..Len(decided) : decided'[j] = decided[j]
  BY <1>2, Appended DEF InviteTypes
<1>6. QED
  BY <1>1, <1>3, <1>4, <1>5 DEF InviteTypes

(* The passing of an invitation's time leaves its status.                  *)
LEMMA Late ==
  ASSUME InviteTypes, PassExpiry
  PROVE  InviteTypes' /\ Len(invites') = Len(invites) /\ \A j \in 1..Len(invites) : invites'[j].status = invites[j].status
<1> USE DEF InviteTypes
<1>1. PICK i \in DOMAIN invites : invites' = [invites EXCEPT ![i].late = TRUE]
  BY DEF PassExpiry
<1> DEFINE x == [invites[i] EXCEPT !.late = TRUE]
<1>2. invites[i] \in Invitations
  BY ElementOfSeq, LenProperties
<1>3. x \in Invitations /\ x.status = invites[i].status
  BY <1>2, Rewritten DEF Statuses
<1>4. invites' = [invites EXCEPT ![i] = x]
  BY <1>1, Zenon
<1> HIDE DEF x
<1>5. /\ invites' \in Seq(Invitations) /\ Len(invites') = Len(invites)
      /\ \A j \in 1..Len(invites) : invites'[j] = IF j = i THEN x ELSE invites[j]
  BY <1>3, <1>4, Overwritten
<1>6. QED
  BY <1>3, <1>5 DEF PassExpiry

-----------------------------------------------------------------------------
(* An acceptance needs a pending invitation, and nothing makes an          *)
(* invitation pending again.                                               *)
AcceptInv == \A i \in 1..Len(invites) :
  accepted[i] <= 1 /\ (invites[i].status = "pending" => accepted[i] = 0)

LEMMA AcceptStep ==
  ASSUME InviteTypes, FiberTypes, AcceptInv, [Next]_vars
  PROVE  InviteTypes' /\ AcceptInv'
<1> USE DEF InviteTypes, AcceptInv
<1>1. ASSUME NEW f \in Fibers, InsertInvite(f) PROVE InviteTypes' /\ AcceptInv'
  <2>1. InviteTypes'
    BY <1>1, Inserted
  <2>2. ASSUME NEW i \in 1..Len(invites') PROVE i \in 1..Len(invites) \/ i = Len(invites) + 1
    BY <1>1, Inserted
  <2>3. ASSUME NEW i \in 1..Len(invites')
        PROVE  accepted'[i] <= 1 /\ (invites'[i].status = "pending" => accepted'[i] = 0)
    <3>1. CASE i = Len(invites) + 1
      BY <1>1, <3>1, Inserted
    <3>2. CASE i \in 1..Len(invites)
      <4>1. accepted'[i] = accepted[i] /\ invites'[i].status = invites[i].status
        BY <1>1, <3>2, Inserted
      <4>2. QED
        BY <3>2, <4>1
    <3>3. QED
      BY <2>2, <3>1, <3>2
  <2>4. QED
    BY <2>1, <2>3
<1>2. ASSUME NEW f \in Fibers, Accept(f) PROVE InviteTypes' /\ AcceptInv'
  <2> DEFINE i == loc[f].invite
  <2>1. Decide(f, i, "accepted") /\ invites[i].status = "pending" /\ "accepted" \in Statuses
    BY <1>2 DEF Accept, Pending, Statuses
  <2>2. /\ invites' \in Seq(Invitations) /\ Len(invites') = Len(invites)
        /\ decided' \in Seq(Nat) /\ Len(decided') = Len(decided)
        /\ \A j \in 1..Len(invites) : invites'[j].status = IF j = i THEN "accepted" ELSE invites[j].status
    BY <2>1, Decided
  <2>3. /\ accepted' \in Seq(Nat) /\ Len(accepted') = Len(accepted)
        /\ \A j \in 1..Len(accepted) : accepted'[j] = IF j = i THEN accepted[j] + 1 ELSE accepted[j]
    BY <1>2, AcceptCounted
  <2> HIDE DEF i
  <2>4. InviteTypes'
    BY <2>2, <2>3
  <2>5. ASSUME NEW j \in 1..Len(invites')
        PROVE  accepted'[j] <= 1 /\ (invites'[j].status = "pending" => accepted'[j] = 0)
    <3>1. j \in 1..Len(invites) /\ j \in 1..Len(accepted)
      BY <2>2
    <3>2. invites'[j].status = IF j = i THEN "accepted" ELSE invites[j].status
      BY <2>2, <3>1
    <3>3. accepted'[j] = IF j = i THEN accepted[j] + 1 ELSE accepted[j]
      BY <2>3, <3>1
    <3>4. QED
      BY <2>1, <3>1, <3>2, <3>3
  <2>6. QED
    BY <2>4, <2>5
<1>3. ASSUME NEW f \in Fibers, NEW st \in {"expired", "revoked"}, Decide(f, loc[f].invite, st),
             accepted' = accepted
      PROVE  InviteTypes' /\ AcceptInv'
  <2>1. st \in Statuses /\ st # "pending"
    BY DEF Statuses
  <2>2. /\ invites' \in Seq(Invitations) /\ Len(invites') = Len(invites)
        /\ decided' \in Seq(Nat) /\ Len(decided') = Len(decided)
        /\ \A j \in 1..Len(invites) :
             invites'[j].status = IF j = loc[f].invite THEN st ELSE invites[j].status
    BY <1>3, <2>1, Decided
  <2>3. InviteTypes'
    BY <1>3, <2>2
  <2>4. ASSUME NEW j \in 1..Len(invites')
        PROVE  accepted'[j] <= 1 /\ (invites'[j].status = "pending" => accepted'[j] = 0)
    BY <1>3, <2>1, <2>2
  <2>5. QED
    BY <2>3, <2>4
<1>4. ASSUME NEW f \in Fibers, Expire(f) \/ Revoke(f) PROVE InviteTypes' /\ AcceptInv'
  BY <1>3, <1>4 DEF Expire, Revoke
<1>5. CASE PassExpiry
  BY <1>5, Late DEF PassExpiry
<1>6. CASE UNCHANGED <<invites, accepted, decided, raced>>
  BY <1>6
<1>7. QED
  BY <1>1, <1>2, <1>4, <1>5, <1>6, InvitesFrame

-----------------------------------------------------------------------------
(* The types of the fibers and of what they read and write.                *)

LEMMA FreshFields == Fresh.invite = 0 /\ Fresh.doomed = NoGrants
  BY DEF Fresh

LEMMA MoveTyped ==
  ASSUME FiberTypes, NEW f \in Fibers, NEW p \in Places, NEW l \in Locals,
         pc' = [pc EXCEPT ![f] = p], loc' = [loc EXCEPT ![f] = l]
  PROVE  FiberTypes'
  BY DEF FiberTypes

LEMMA FiberTypesStep ==
  ASSUME Types, [Next]_vars
  PROVE  FiberTypes'
<1> USE DEF Types
<1>1. ASSUME NEW f \in Fibers, NEW p, Move(f, p, pc'[f]), pc'[f] \in Places, loc' = loc PROVE FiberTypes'
  BY <1>1 DEF Move, FiberTypes
<1>2. ASSUME NEW f \in Fibers, NEW p, Done(f, p) PROVE FiberTypes'
  BY <1>2, FreshTyped, MoveTyped DEF Done, Move, Places
<1>3. ASSUME NEW f \in Fibers, NEW p \in Places, NEW l \in Locals, Start(f, p, l) PROVE FiberTypes'
  BY <1>3, MoveTyped DEF Start, Move
<1>4. ASSUME NEW f \in Fibers, Invitation(f) PROVE FiberTypes'
  <2>1. CASE Invite(f)
    <3>1. PICK S \in Requests : Start(f, "insert", [Fresh EXCEPT !.want = IF S = {} THEN {Org} ELSE S])
      BY <2>1 DEF Invite
    <3>2. [Fresh EXCEPT !.want = IF S = {} THEN {Org} ELSE S] \in Locals
      BY FreshTyped DEF Locals, Scopes
    <3>3. QED
      BY <1>3, <3>1, <3>2 DEF Places
  <2>2. CASE ReadInvite(f) \/ ReadToRevoke(f)
    <3>1. PICK i \in DOMAIN invites, p \in {"accept", "expire", "revoke"} :
            Start(f, p, [Fresh EXCEPT !.invite = i])
      BY <2>2 DEF ReadInvite, ReadToRevoke
    <3>2. i \in Nat
      BY DEF InviteTypes
    <3>3. [Fresh EXCEPT !.invite = i] \in Locals
      BY <3>2, FreshTyped DEF Locals
    <3>4. QED
      BY <1>3, <3>1, <3>3 DEF Places
  <2>3. CASE Accept(f)
    BY <2>3, FreshTyped, MoveTyped DEF Accept, Move, Places
  <2>4. CASE InsertInvite(f) \/ Expire(f) \/ AcceptRefused(f) \/ AddToClerk(f) \/ Revoke(f)
    BY <1>2, <2>4 DEF InsertInvite, Expire, AcceptRefused, AddToClerk, Revoke
  <2>5. QED
    BY <1>4, <2>1, <2>2, <2>3, <2>4 DEF Invitation
<1>5. ASSUME NEW f \in Fibers, Webhook(f) PROVE FiberTypes'
  <2>1. CASE Deliver(f) \/ MemberExists(f)
    BY <2>1 DEF Deliver, MemberExists, Move, FiberTypes, Places
  <2>2. CASE NoSuchOrg(f) \/ GrantOrg(f) \/ GrantRefused(f)
    BY <1>2, <2>2 DEF NoSuchOrg, GrantOrg, GrantRefused
  <2>3. CASE CreateMember(f) \/ FindMember(f)
    <3>1. PICK p \in {"idle", "grant"}, m \in Nat :
            pc' = [pc EXCEPT ![f] = p] /\ loc' = [loc EXCEPT ![f] = [loc[f] EXCEPT !.member = m]]
      BY <2>3 DEF CreateMember, FindMember, Move, AccessTypes
    <3>2. loc[f] \in Locals
      BY DEF FiberTypes
    <3>3. [loc[f] EXCEPT !.member = m] \in Locals
      BY <3>2 DEF Locals
    <3>4. QED
      BY <3>1, <3>3, MoveTyped DEF Places
  <2>4. QED
    BY <1>5, <2>1, <2>2, <2>3 DEF Webhook
<1>6. ASSUME NEW f \in Fibers, Replacement(f) PROVE FiberTypes'
  <2>1. CASE Replace(f)
    <3>1. PICK S \in Requests \cup {{}} : Start(f, "lock", [Fresh EXCEPT !.member = member, !.want = S])
      BY <2>1 DEF Replace
    <3>2. [Fresh EXCEPT !.member = member, !.want = S] \in Locals
      BY FreshTyped DEF Locals, AccessTypes
    <3>3. QED
      BY <1>3, <3>1, <3>2 DEF Places
  <2>2. CASE LockMember(f)
    BY <2>2 DEF LockMember, Move, FiberTypes, Places
  <2>3. CASE DeleteGrants(f)
    <3>1. loc[f] \in Locals
      BY DEF FiberTypes
    <3>2. [loc[f] EXCEPT !.doomed = grants] \in Locals
      BY <3>1 DEF Locals, AccessTypes
    <3>3. pc' = [pc EXCEPT ![f] = "replace"] /\ loc' = [loc EXCEPT ![f] = [loc[f] EXCEPT !.doomed = grants]]
      BY <2>3 DEF DeleteGrants, Move
    <3>4. QED
      BY <3>2, <3>3, MoveTyped DEF Places
  <2>4. CASE MemberGone(f) \/ InsertGrants(f) \/ InsertRefused(f)
    BY <1>2, <2>4 DEF MemberGone, InsertGrants, InsertRefused
  <2>5. QED
    BY <1>6, <2>1, <2>2, <2>3, <2>4 DEF Replacement
<1>7. ASSUME NEW f \in Fibers, Throw(f) PROVE FiberTypes'
  BY <1>2, <1>7 DEF Throw
<1>8. CASE Crash
  BY <1>8, FreshTyped DEF Crash, FiberTypes, Places
<1>9. CASE OrgCreated \/ Forget \/ RemoveMember \/ RemoveScope \/ PassExpiry \/ JoinInClerk \/ UNCHANGED vars
  BY <1>9 DEF OrgCreated, Forget, RemoveMember, RemoveScope, Cascade, PassExpiry, JoinInClerk, vars, FiberTypes
<1>10. QED
  BY <1>4, <1>5, <1>6, <1>7, <1>8, <1>9 DEF Next, Outside

LEMMA AccessTypesStep ==
  ASSUME Types, [Next]_vars
  PROVE  AccessTypes'
<1> USE DEF Types, AccessTypes, access, webhook, people
<1>1. ASSUME NEW f \in Fibers, Invitation(f) PROVE AccessTypes'
  <2>1. CASE Accept(f)
    BY <2>1 DEF Accept, Granted
  <2>2. CASE ~Accept(f)
    BY <1>1, <2>2 DEF Invitation, Invite, InsertInvite, ReadInvite, Expire, AcceptRefused, AddToClerk,
       ReadToRevoke, Revoke
  <2>3. QED
    BY <2>1, <2>2
<1>2. ASSUME NEW f \in Fibers, Webhook(f) PROVE AccessTypes'
  <2>1. CASE GrantOrg(f)
    BY <2>1 DEF GrantOrg, Granted
  <2>2. CASE Deliver(f)
    BY <2>2 DEF Deliver
  <2>3. CASE CreateMember(f)
    BY <2>3 DEF CreateMember
  <2>4. CASE NoSuchOrg(f) \/ MemberExists(f) \/ FindMember(f) \/ GrantRefused(f)
    BY <2>4 DEF NoSuchOrg, MemberExists, FindMember, GrantRefused
  <2>5. QED
    BY <1>2, <2>1, <2>2, <2>3, <2>4 DEF Webhook
<1>3. ASSUME NEW f \in Fibers, Replacement(f) PROVE AccessTypes'
  <2>1. loc[f].doomed \in [Scopes -> Int]
    BY DEF FiberTypes, Locals
  <2>2. CASE InsertGrants(f)
    BY <2>1, <2>2 DEF InsertGrants, Granted
  <2>3. QED
    BY <1>3, <2>2 DEF Replacement, Replace, LockMember, MemberGone, DeleteGrants, InsertRefused
<1>4. ASSUME NEW f \in Fibers, Throw(f) PROVE AccessTypes'
  BY <1>4 DEF Throw
<1>5. CASE Outside
  <2>1. CASE RemoveScope
    BY <2>1 DEF RemoveScope, Cascade
  <2>2. CASE RemoveMember
    BY <2>2 DEF RemoveMember, NoGrants
  <2>3. CASE Forget \/ Crash \/ OrgCreated \/ PassExpiry \/ JoinInClerk
    BY <2>3 DEF Forget, Crash, OrgCreated, PassExpiry, JoinInClerk
  <2>4. QED
    BY <1>5, <2>1, <2>2, <2>3 DEF Outside
<1>6. CASE UNCHANGED vars
  BY <1>6 DEF vars
<1>7. QED
  BY <1>1, <1>2, <1>3, <1>4, <1>5, <1>6 DEF Next

LEMMA TypesStep ==
  ASSUME Types, AcceptInv, [Next]_vars
  PROVE  Types' /\ AcceptInv'
  BY AcceptStep, FiberTypesStep, AccessTypesStep DEF Types

(* An invitation is accepted once at the most, for any number of           *)
(* invitations and of requests that hold its token.                        *)
THEOREM AcceptOnce == Spec => []AcceptedOnce
<1>1. Init => Types /\ AcceptInv
  <2> SUFFICES ASSUME Init PROVE Types /\ AcceptInv
    OBVIOUS
  <2>1. invites = << >>
    BY DEF Init
  <2>2. QED
    BY <2>1, InitTypes DEF AcceptInv
<1>2. Types /\ AcceptInv /\ [Next]_vars => (Types /\ AcceptInv)'
  BY TypesStep
<1>3. Types /\ AcceptInv => AcceptedOnce
  BY DEF Types, InviteTypes, AcceptInv, AcceptedOnce
<1>4. QED
  BY <1>1, <1>2, <1>3, PTL DEF Spec

-----------------------------------------------------------------------------
(* A replacement under way has the row, and with it the grants that it     *)
(* found; every grant is on a scope that was not deleted.                  *)
LockInv == \A f \in Fibers :
  /\ pc[f] \in {"delete", "replace"} => lock = f
  /\ pc[f] = "replace" => loc[f].doomed = grants

AliveInv ==
  /\ Org \in alive
  /\ \A s \in Scopes : grants[s] > 0 => s \in alive
  /\ \A p \in Projects \cap alive : Parent[p] \in alive

LEMMA LockStep ==
  ASSUME Types, LockInv, [Next]_vars
  PROVE  LockInv'
<1> USE DEF Types, FiberTypes, LockInv
<1>1. ASSUME NEW f \in Fibers, Invitation(f) PROVE LockInv'
  BY <1>1 DEF Invitation, Invite, InsertInvite, ReadInvite, Expire, Accept, AcceptRefused, AddToClerk,
     ReadToRevoke, Revoke, access, Start, Done, Move
<1>2. ASSUME NEW f \in Fibers, Webhook(f) PROVE LockInv'
  BY <1>2 DEF Webhook, Deliver, NoSuchOrg, CreateMember, MemberExists, FindMember, GrantOrg,
     GrantRefused, access, Done, Move
<1>3. ASSUME NEW f \in Fibers, Replacement(f) PROVE LockInv'
  <2>1. CASE Replace(f) \/ MemberGone(f)
    BY <2>1 DEF Replace, MemberGone, access, Start, Done, Move
  <2>2. CASE LockMember(f)
    BY <2>2 DEF LockMember, access, Move
  <2>3. CASE DeleteGrants(f)
    BY <2>3 DEF DeleteGrants, access, Move, Locals
  <2>4. CASE InsertGrants(f) \/ InsertRefused(f)
    BY <2>4 DEF InsertGrants, InsertRefused, access, Done, Move, Unlocked
  <2>5. QED
    BY <1>3, <2>1, <2>2, <2>3, <2>4 DEF Replacement
<1>4. ASSUME NEW f \in Fibers, Throw(f) PROVE LockInv'
  BY <1>4 DEF Throw, access, Done, Move, Unlocked
<1>5. CASE Crash
  BY <1>5 DEF Crash
<1>6. CASE RemoveMember
  BY <1>6 DEF RemoveMember
<1>7. CASE RemoveScope
  <2>1. PICK S \in SUBSET Scopes : Cascade(S)
    BY <1>7 DEF RemoveScope, Scopes
  <2>2. ASSUME NEW f \in Fibers, pc[f] = "replace" PROVE grants' = grants
    <3>1. \A s \in S : grants[s] = 0
      BY <2>1, <2>2 DEF Cascade
    <3>2. QED
      BY <2>1, <3>1 DEF Cascade, AccessTypes
  <2>3. QED
    BY <2>1, <2>2 DEF Cascade
<1>8. CASE OrgCreated \/ Forget \/ PassExpiry \/ JoinInClerk \/ UNCHANGED vars
  BY <1>8 DEF OrgCreated, Forget, PassExpiry, JoinInClerk, vars, access
<1>9. QED
  BY <1>1, <1>2, <1>3, <1>4, <1>5, <1>6, <1>7, <1>8 DEF Next, Outside

LEMMA AliveStep ==
  ASSUME Types, LockInv, AliveInv, [Next]_vars
  PROVE  AliveInv'
<1> USE DEF Types, AccessTypes, AliveInv
<1>1. ASSUME NEW S \in SUBSET alive, NEW rows \in [Scopes -> Int], alive' = alive,
             \A s \in Scopes : rows[s] > 0 => s \in alive, grants' = Granted(rows, S)
      PROVE  AliveInv'
  BY <1>1 DEF Granted
<1>2. ASSUME alive' = alive, grants' = grants \/ grants' = NoGrants PROVE AliveInv'
  BY <1>2 DEF NoGrants
<1>3. ASSUME NEW f \in Fibers, Invitation(f) PROVE AliveInv'
  <2>1. CASE Accept(f)
    BY <1>1, <2>1 DEF Accept, people
  <2>2. CASE ~Accept(f)
    BY <1>2, <1>3, <2>2 DEF Invitation, Invite, InsertInvite, ReadInvite, Expire, AcceptRefused,
       AddToClerk, ReadToRevoke, Revoke, people, access
  <2>3. QED
    BY <2>1, <2>2
<1>4. ASSUME NEW f \in Fibers, Webhook(f) PROVE AliveInv'
  <2>1. CASE GrantOrg(f)
    BY <1>1, <2>1 DEF GrantOrg, people
  <2>2. CASE ~GrantOrg(f)
    BY <1>2, <1>4, <2>2 DEF Webhook, Deliver, NoSuchOrg, CreateMember, MemberExists, FindMember,
       GrantRefused, people, access
  <2>3. QED
    BY <2>1, <2>2
<1>5. ASSUME NEW f \in Fibers, Replacement(f) PROVE AliveInv'
  <2>1. CASE InsertGrants(f)
    <3> DEFINE rows == [s \in Scopes |-> grants[s] - loc[f].doomed[s]]
    <3>1. loc[f].doomed = grants
      BY <2>1 DEF InsertGrants, Done, Move, LockInv
    <3>2. rows \in [Scopes -> Int] /\ \A s \in Scopes : rows[s] = 0
      BY <3>1
    <3>3. alive' = alive /\ loc[f].want \subseteq alive /\ grants' = Granted(rows, loc[f].want)
      BY <2>1 DEF InsertGrants, people
    <3> HIDE DEF rows
    <3>4. QED
      BY <1>1, <3>2, <3>3
  <2>2. CASE ~InsertGrants(f)
    BY <1>2, <1>5, <2>2 DEF Replacement, Replace, LockMember, MemberGone, DeleteGrants, InsertRefused,
       people, access
  <2>3. QED
    BY <2>1, <2>2
<1>6. ASSUME NEW f \in Fibers, Throw(f) PROVE AliveInv'
  BY <1>2, <1>6 DEF Throw, people, access
<1>7. CASE RemoveScope
  <2>1. PICK S \in SUBSET Scopes :
          /\ Cascade(S) /\ Org \notin S
          /\ \A p \in Projects \cap alive : Parent[p] \in S => p \in S
    <3>1. CASE \E p \in Projects : Cascade({p})
      BY <3>1 DEF Scopes
    <3>2. ASSUME NEW w \in Workspaces, Cascade({w} \cup {p \in Projects \cap alive : Parent[p] = w})
          PROVE  \E S \in SUBSET Scopes :
                   /\ Cascade(S) /\ Org \notin S
                   /\ \A p \in Projects \cap alive : Parent[p] \in S => p \in S
      <4> DEFINE S == {w} \cup {p \in Projects \cap alive : Parent[p] = w}
      <4>1. S \in SUBSET Scopes /\ Org \notin S
        BY DEF Scopes
      <4>2. \A p \in Projects \cap alive : Parent[p] \in S => p \in S
        OBVIOUS
      <4> HIDE DEF S
      <4>3. Cascade(S)
        BY <3>2 DEF S
      <4>4. QED
        BY <4>1, <4>2, <4>3
    <3>3. QED
      BY <1>7, <3>1, <3>2 DEF RemoveScope
  <2>2. alive' = alive \ S /\ grants' = [s \in Scopes |-> IF s \in S THEN 0 ELSE grants[s]]
    BY <2>1 DEF Cascade
  <2>3. QED
    BY <2>1, <2>2
<1>8. CASE OrgCreated \/ Forget \/ RemoveMember \/ PassExpiry \/ JoinInClerk \/ Crash \/ UNCHANGED vars
  BY <1>2, <1>8 DEF OrgCreated, Forget, RemoveMember, PassExpiry, JoinInClerk, Crash, vars, people, access
<1>9. QED
  BY <1>3, <1>4, <1>5, <1>6, <1>7, <1>8 DEF Next, Outside

\* Everything about the grants together.
GrantInv == Types /\ AcceptInv /\ LockInv /\ AliveInv

LEMMA GrantInvariant == Spec => []GrantInv
<1>1. Init => GrantInv
  <2> SUFFICES ASSUME Init PROVE GrantInv
    OBVIOUS
  <2>1. invites = << >> /\ alive = Scopes /\ grants = NoGrants /\ pc = [f \in Fibers |-> "idle"]
    BY DEF Init
  <2>2. LockInv
    BY <2>1 DEF LockInv
  <2>3. AliveInv
    BY <2>1 DEF AliveInv, NoGrants, Scopes
  <2>4. QED
    BY <2>1, <2>2, <2>3, InitTypes DEF GrantInv, AcceptInv
<1>2. GrantInv /\ [Next]_vars => GrantInv'
  BY TypesStep, LockStep, AliveStep DEF GrantInv
<1>3. QED
  BY <1>1, <1>2, PTL DEF Spec

(* After a replacement the member has exactly the grants that were asked   *)
(* for, whatever acceptances, webhooks and replacements run beside it.     *)
THEOREM ReplacementIsWhole == Spec => ReplacedWhole
<1>1. ASSUME GrantInv, [Next]_vars, NEW f \in Fibers,
             pc[f] = "replace", pc'[f] = "idle", grants' # grants
      PROVE  grants' = Granted(NoGrants, loc[f].want)
  <2>1. lock = f /\ lock # Nobody /\ loc[f].doomed = grants /\ grants \in [Scopes -> Int]
    BY <1>1 DEF GrantInv, LockInv, Types, AccessTypes
  <2>2. ASSUME NEW g \in Fibers, InsertGrants(g) PROVE grants' = Granted(NoGrants, loc[f].want)
    <3>1. g = f
      BY <1>1, <2>1, <2>2 DEF InsertGrants, Done, Move, GrantInv, LockInv
    <3>2. [s \in Scopes |-> grants[s] - loc[f].doomed[s]] = NoGrants
      BY <2>1 DEF NoGrants
    <3>3. QED
      BY <2>2, <3>1, <3>2 DEF InsertGrants
  <2>3. ASSUME NEW g \in Fibers, Invitation(g) PROVE FALSE
    BY <1>1, <2>1, <2>3 DEF Invitation, Invite, InsertInvite, ReadInvite, Expire, Accept, AcceptRefused,
       AddToClerk, ReadToRevoke, Revoke, access
  <2>4. ASSUME NEW g \in Fibers, Webhook(g) PROVE FALSE
    BY <1>1, <2>1, <2>4 DEF Webhook, Deliver, NoSuchOrg, CreateMember, MemberExists, FindMember, GrantOrg,
       GrantRefused, access
  <2>5. ASSUME NEW g \in Fibers, Replacement(g), ~InsertGrants(g) PROVE FALSE
    BY <1>1, <2>5 DEF Replacement, Replace, LockMember, MemberGone, DeleteGrants, InsertRefused, access
  <2>6. ASSUME NEW g \in Fibers, Throw(g) PROVE FALSE
    BY <1>1, <2>6 DEF Throw, access
  <2>7. CASE Outside \/ UNCHANGED vars
    BY <1>1, <2>1, <2>7 DEF Outside, OrgCreated, Forget, RemoveMember, RemoveScope, Cascade, PassExpiry,
       JoinInClerk, Crash, vars, access
  <2>8. QED
    BY <1>1, <2>2, <2>3, <2>4, <2>5, <2>6, <2>7 DEF Next
<1>2. GrantInv /\ [Next]_vars => [\A f \in Fibers :
        pc[f] = "replace" /\ pc'[f] = "idle" /\ grants' # grants
          => grants' = Granted(NoGrants, loc[f].want)]_vars
  BY <1>1
<1>3. QED
  BY <1>2, GrantInvariant, PTL DEF Spec, ReplacedWhole

(* What the lists show is what the guards admit, for any workspaces and    *)
(* projects, since grants and projects do not outlive their scope.         *)
THEOREM ListsMatchGuards == Spec => []ListsAgree
<1>1. GrantInv => ListsAgree
  BY DEF GrantInv, Types, AccessTypes, AliveInv, ListsAgree, AccessibleProjects, AccessibleWorkspaces,
     ProjectAllowed, WorkspaceAllowed, HasAnyGrant, Has, Scopes
<1>2. QED
  BY <1>1, GrantInvariant, PTL

-----------------------------------------------------------------------------
(* What a request has read of an invitation is still so, unless another    *)
(* decided it meanwhile: then the invitation is among the raced.           *)
Deciding(f, i)  == pc[f] \in {"accept", "expire", "revoke"} /\ loc[f].invite = i

SerialInv == \A i \in 1..Len(invites) : i \notin raced =>
  /\ decided[i] <= 1 /\ (invites[i].status = "pending" => decided[i] = 0)
  /\ \A f \in Fibers : Deciding(f, i) => invites[i].status = "pending"
  /\ \A f \in Fibers : pc[f] = "insert" => invites[i].status # "pending"
  /\ \A j \in 1..Len(invites) : j \notin raced /\ j # i
       => ~(invites[i].status = "pending" /\ invites[j].status = "pending")

\* Who decides nothing does not enter the places where decisions are taken.
LEMMA Bystander ==
  ASSUME Types, SerialInv, UNCHANGED <<invites, decided, raced>>,
         \A f \in Fibers : pc'[f] \in {"insert", "accept", "expire", "revoke"}
                             => pc'[f] = pc[f] /\ loc'[f] = loc[f]
  PROVE  SerialInv'
  BY DEF SerialInv, Deciding

LEMMA SerialStep ==
  ASSUME Types, SerialInv, [Next]_vars
  PROVE  SerialInv'
<1> USE DEF Types, FiberTypes, InviteTypes
<1>1. ASSUME NEW f \in Fibers, InsertInvite(f) PROVE SerialInv'
  <2> DEFINE n == Len(invites) + 1
  <2>1. /\ Len(invites') = n /\ invites'[n].status = "pending" /\ decided'[n] = 0
        /\ \A j \in 1..Len(invites) : invites'[j].status = invites[j].status /\ decided'[j] = decided[j]
    BY <1>1, Inserted
  <2>2. pc[f] = "insert" /\ pc' = [pc EXCEPT ![f] = "idle"] /\ loc' = [loc EXCEPT ![f] = Fresh]
    BY <1>1 DEF InsertInvite, Done, Move
  <2>3. raced \subseteq raced' /\ (n \notin raced' => \A g \in Fibers \ {f} : pc[g] # "insert")
        /\ raced' \subseteq raced \cup {n}
    BY <1>1 DEF InsertInvite
  <2>4. \A i \in 1..Len(invites') : i \in 1..Len(invites) \/ i = n
    BY <2>1
  <2> HIDE DEF n
  <2>5. ASSUME NEW i \in 1..Len(invites), i \notin raced' 
        PROVE  /\ decided'[i] <= 1 /\ (invites'[i].status = "pending" => decided'[i] = 0)
               /\ \A g \in Fibers : Deciding(g, i)' => invites'[i].status = "pending"
               /\ invites'[i].status # "pending"
    <3>1. i \notin raced /\ invites[i].status # "pending"
      BY <2>2, <2>3, <2>5 DEF SerialInv
    <3>2. \A g \in Fibers : Deciding(g, i)' => Deciding(g, i)
      BY <2>2 DEF Deciding
    <3>3. QED
      BY <2>1, <3>1, <3>2 DEF SerialInv
  <2>6. n \notin raced' => \A g \in Fibers : pc'[g] # "insert"
    BY <2>2, <2>3
  <2>7. QED
    BY <2>1, <2>4, <2>5, <2>6 DEF SerialInv
<1>2. ASSUME NEW f \in Fibers, NEW i, NEW st \in Statuses \ {"pending"}, Decide(f, i, st), Deciding(f, i),
             NEW p \in Places \ {"insert", "accept", "expire", "revoke"},
             pc' = [pc EXCEPT ![f] = p], loc' = [loc EXCEPT ![f] = Fresh]
      PROVE  SerialInv'
  <2>1. /\ Len(invites') = Len(invites)
        /\ \A j \in 1..Len(invites) :
             /\ invites'[j].status = IF j = i THEN st ELSE invites[j].status
             /\ decided'[j] = IF j = i THEN decided[j] + 1 ELSE decided[j]
    BY <1>2, Decided
  <2>2. raced \subseteq raced' /\ (i \notin raced' => \A g \in Fibers \ {f} : ~Deciding(g, i))
    BY <1>2 DEF Decide, Deciding
  <2>3. \A g \in Fibers, j \in 1..Len(invites) : Deciding(g, j)' => Deciding(g, j) /\ g # f
    BY <1>2 DEF Deciding
  <2>4. \A g \in Fibers : pc'[g] = "insert" => pc[g] = "insert"
    BY <1>2
  <2>5. i \in 1..Len(invites) /\ i \notin raced => decided[i] = 0
    BY <1>2 DEF SerialInv
  <2>6. ASSUME NEW j \in 1..Len(invites), j \notin raced'
        PROVE  /\ decided'[j] <= 1 /\ (invites'[j].status = "pending" => decided'[j] = 0)
               /\ \A g \in Fibers : Deciding(g, j)' => invites'[j].status = "pending"
               /\ \A g \in Fibers : pc'[g] = "insert" => invites'[j].status # "pending"
    <3>1. j \notin raced
      BY <2>2, <2>6
    <3>2. CASE j = i
      BY <1>2, <2>1, <2>2, <2>3, <2>5, <2>6, <3>1, <3>2
    <3>3. CASE j # i
      BY <2>1, <2>3, <2>4, <3>1, <3>3 DEF SerialInv
    <3>4. QED
      BY <3>2, <3>3
  <2>7. ASSUME NEW j \in 1..Len(invites), invites'[j].status = "pending" PROVE invites[j].status = "pending"
    BY <1>2, <2>1, <2>7
  <2>8. QED
    BY <2>1, <2>2, <2>6, <2>7 DEF SerialInv
<1>3. ASSUME NEW f \in Fibers, Invitation(f) PROVE SerialInv'
  <2>1. CASE Invite(f)
    BY <2>1 DEF Invite, Start, Move, Pending, SerialInv, Deciding, invited
  <2>2. CASE ReadInvite(f) \/ ReadToRevoke(f)
    <3>1. PICK i \in DOMAIN invites, p \in {"accept", "expire", "revoke"} :
            invites[i].status = "pending" /\ Start(f, p, [Fresh EXCEPT !.invite = i])
      BY <2>2 DEF ReadInvite, ReadToRevoke, Pending
    <3>2. [Fresh EXCEPT !.invite = i].invite = i
      BY DEF Fresh
    <3>3. pc' = [pc EXCEPT ![f] = p] /\ loc'[f].invite = i /\ \A g \in Fibers \ {f} : loc'[g] = loc[g]
      BY <3>1, <3>2 DEF Start, Move
    <3>4. UNCHANGED <<invites, decided, raced>>
      BY <2>2 DEF ReadInvite, ReadToRevoke, invited
    <3>5. QED
      BY <3>1, <3>3, <3>4 DEF SerialInv, Deciding
  <2>3. CASE Accept(f)
    <3>1. /\ Decide(f, loc[f].invite, "accepted") /\ Deciding(f, loc[f].invite)
          /\ pc' = [pc EXCEPT ![f] = "join"] /\ loc' = [loc EXCEPT ![f] = Fresh]
      BY <2>3 DEF Accept, Move, Deciding
    <3>2. QED
      BY <1>2, <3>1 DEF Statuses, Places
  <2>4. CASE Expire(f) \/ Revoke(f)
    <3>1. PICK st \in {"expired", "revoked"} :
            /\ Decide(f, loc[f].invite, st) /\ Deciding(f, loc[f].invite)
            /\ pc' = [pc EXCEPT ![f] = "idle"] /\ loc' = [loc EXCEPT ![f] = Fresh]
      BY <2>4 DEF Expire, Revoke, Done, Move, Deciding
    <3>2. QED
      BY <1>2, <3>1 DEF Statuses, Places
  <2>5. CASE AcceptRefused(f) \/ AddToClerk(f)
    BY <2>5, Bystander DEF AcceptRefused, AddToClerk, Done, Move, invited
  <2>6. QED
    BY <1>1, <1>3, <2>1, <2>2, <2>3, <2>4, <2>5 DEF Invitation
<1>4. ASSUME NEW f \in Fibers, Webhook(f) PROVE SerialInv'
  BY <1>4, Bystander DEF Webhook, Deliver, NoSuchOrg, CreateMember, MemberExists, FindMember, GrantOrg,
     GrantRefused, Done, Move, invited
<1>5. ASSUME NEW f \in Fibers, Replacement(f) \/ Throw(f) PROVE SerialInv'
  BY <1>5, Bystander DEF Replacement, Replace, LockMember, MemberGone, DeleteGrants, InsertGrants,
     InsertRefused, Throw, Start, Done, Move, invited
<1>6. CASE PassExpiry
  BY <1>6, Late DEF PassExpiry, SerialInv, Deciding
<1>7. CASE OrgCreated \/ Forget \/ RemoveMember \/ RemoveScope \/ JoinInClerk \/ Crash \/ UNCHANGED vars
  BY <1>7, Bystander DEF OrgCreated, Forget, RemoveMember, RemoveScope, Cascade, JoinInClerk, Crash, vars,
     invited
<1>8. QED
  BY <1>3, <1>4, <1>5, <1>6, <1>7 DEF Next, Outside

(* Only requests at the same time decide an invitation twice, or leave two *)
(* pending, for any number of either.                                      *)
THEOREM SerialDecisions == Spec => []SerialInvitations
<1>1. Init => Types /\ AcceptInv /\ SerialInv
  <2> SUFFICES ASSUME Init PROVE Types /\ AcceptInv /\ SerialInv
    OBVIOUS
  <2>1. invites = << >>
    BY DEF Init
  <2>2. QED
    BY <2>1, InitTypes DEF AcceptInv, SerialInv
<1>2. Types /\ AcceptInv /\ SerialInv /\ [Next]_vars => (Types /\ AcceptInv /\ SerialInv)'
  BY TypesStep, SerialStep
<1>3. Types /\ SerialInv => SerialInvitations
  BY DEF Types, InviteTypes, SerialInv, SerialInvitations, Pending
<1>4. QED
  BY <1>1, <1>2, <1>3, PTL DEF Spec

=============================================================================
