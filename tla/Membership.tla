----------------------------- MODULE Membership -----------------------------
(***************************************************************************)
(* The members of one organization: InvitationService, AccessGrantService  *)
(* and the Clerk webhook of AuthController, as far as one user is          *)
(* concerned, and AccessService, which reads what they write.  A fiber is  *)
(* a request; each statement that commits alone is an action.              *)
(* An insert into access_grants takes a key-share lock on the member row,  *)
(* so it waits for a replaceGrants that holds the row FOR UPDATE.          *)
(***************************************************************************)
EXTENDS Integers, SequencesExt

CONSTANTS
  Fibers,
  Workspaces, Projects, Parent,   \* Parent: the workspace of a project
  Org,                            \* the scope of a grant on all of them
  Requests,                       \* the sets of scopes an administrator grants
  Nobody,
  MaxInvites, MaxUpsets   \* bounds, the second on invitations, deliveries, edits and faults together

Scopes == {Org} \cup Workspaces \cup Projects
Places == {"idle", "insert", "accept", "expire", "join", "revoke",
           "member", "find", "grant", "lock", "delete", "replace"}

ASSUME MembershipAssumption ==
  /\ Parent \in [Projects -> Workspaces] /\ Workspaces \cap Projects = {}
  /\ Org \notin Workspaces \cup Projects
  /\ Requests \subseteq SUBSET Scopes /\ Nobody \notin Fibers

VARIABLES
  org,       \* the organizations row exists
  alive,     \* the scopes that were not deleted
  invites,   \* invitations: status, scopes, late (past expiresAt)
  joined,    \* the user is in the Clerk organization
  seen,      \* processedWebhooks has the svix-id of the membership event
  member,    \* the id of the user's org_members row, 0 without one
  grants,    \* access_grants of that row: how many rows there are of each scope
  lock,      \* the transaction that holds the row FOR UPDATE
  pc, loc,   \* per fiber: the statement it is about to execute, its locals
  accepted,  \* history: per invitation, the acceptances that committed
  decided,   \* history: per invitation, the acceptances, revocations and expiries
  raced,     \* history: invitations decided, or made, while another fiber was about to
  members, deliveries, edits, faults   \* counters, for fresh ids and for the bounds

people   == <<org, alive, joined>>
invited  == <<invites, accepted, decided, raced>>
access   == <<member, grants, members>>
webhook  == <<seen, deliveries>>
counters == <<edits, faults>>
vars == <<people, invited, access, webhook, lock, pc, loc, counters>>

NoGrants == [s \in Scopes |-> 0]
Fresh    == [invite |-> 0, member |-> 0, want |-> {}, doomed |-> NoGrants]

\* The user may be the one who creates the organization, whose events come in any order.
Init ==
  /\ org \in BOOLEAN /\ joined = ~org /\ alive = Scopes
  /\ invites = << >> /\ accepted = << >> /\ decided = << >> /\ raced = {}
  /\ member = 0 /\ grants = NoGrants /\ members = 0 /\ lock = Nobody
  /\ seen = FALSE /\ deliveries = 0
  /\ pc = [f \in Fibers |-> "idle"] /\ loc = [f \in Fibers |-> Fresh]
  /\ edits = 0 /\ faults = 0

Upset == Len(invites) + deliveries + edits + faults < MaxUpsets

Move(f, from, to) == pc[f] = from /\ pc' = [pc EXCEPT ![f] = to]
Done(f, from)     == Move(f, from, "idle") /\ loc' = [loc EXCEPT ![f] = Fresh]
Start(f, to, l)   == org /\ Move(f, "idle", to) /\ loc' = [loc EXCEPT ![f] = l]

\* Rows of the scopes of S are added; the foreign keys need the member and the scopes.
Granted(rows, S) == [s \in Scopes |-> IF s \in S THEN rows[s] + 1 ELSE rows[s]]

-----------------------------------------------------------------------------
(* InvitationService.create: two reads, and an insert.  The mail and       *)
(* the id of the Clerk invitation that come after them are left out.       *)

Pending(i) == invites[i].status = "pending"

Invite(f) == \E S \in Requests :
  /\ S \subseteq alive /\ member = 0 /\ Len(invites) < MaxInvites /\ Upset
  /\ \A i \in DOMAIN invites : ~Pending(i)
  /\ Start(f, "insert", [Fresh EXCEPT !.want = IF S = {} THEN {Org} ELSE S])
  /\ UNCHANGED <<people, invited, access, webhook, lock, counters>>

InsertInvite(f) == LET i == Len(invites) + 1 IN
  /\ Done(f, "insert")
  /\ invites' = Append(invites,
       [status |-> "pending", scopes |-> loc[f].want, late |-> FALSE])
  /\ accepted' = Append(accepted, 0) /\ decided' = Append(decided, 0)
  /\ raced' = IF \E g \in Fibers \ {f} : pc[g] = "insert" THEN raced \cup {i} ELSE raced
  /\ UNCHANGED <<people, access, webhook, lock, counters>>

-----------------------------------------------------------------------------
(* InvitationService.accept and revoke: a read, then a decision.           *)

\* A decision on invitation i, and whether another fiber is about to take one on what it has read.
Decide(f, i, status) ==
  /\ invites' = [invites EXCEPT ![i].status = status]
  /\ decided' = [decided EXCEPT ![i] = @ + 1]
  /\ raced' = IF \E g \in Fibers \ {f} : pc[g] \in {"accept", "expire", "revoke"} /\ loc[g].invite = i
              THEN raced \cup {i} ELSE raced

\* Mutant: any invitation that is there can be accepted.
ReadInviteAnyhow(f) == \E i \in DOMAIN invites :
  /\ Start(f, IF invites[i].late THEN "expire" ELSE "accept", [Fresh EXCEPT !.invite = i])
  /\ UNCHANGED <<people, invited, access, webhook, lock, counters>>

ReadInvite(f) == \E i \in DOMAIN invites :
  /\ Pending(i)
  /\ Start(f, IF invites[i].late THEN "expire" ELSE "accept", [Fresh EXCEPT !.invite = i])
  /\ UNCHANGED <<people, invited, access, webhook, lock, counters>>

Expire(f) ==
  /\ Done(f, "expire") /\ Decide(f, loc[f].invite, "expired")
  /\ UNCHANGED <<people, accepted, access, webhook, lock, counters>>

\* Mutant: the update of the transaction does not look at the status.
AcceptAnyhow(f) == LET i == loc[f].invite IN
  /\ Move(f, "accept", "join") /\ loc' = [loc EXCEPT ![f] = Fresh]
  /\ invites[i].scopes \subseteq alive /\ lock = Nobody
  /\ Decide(f, i, "accepted") /\ accepted' = [accepted EXCEPT ![i] = @ + 1]
  /\ member' = (IF member = 0 THEN members + 1 ELSE member)
  /\ members' = (IF member = 0 THEN members + 1 ELSE members)
  /\ grants' = Granted(grants, invites[i].scopes)
  /\ UNCHANGED <<people, webhook, lock, counters>>

\* The transaction: the status, the member unless there is one, the grants.
Accept(f) == LET i == loc[f].invite IN
  /\ Move(f, "accept", "join") /\ loc' = [loc EXCEPT ![f] = Fresh]
  /\ Pending(i) /\ invites[i].scopes \subseteq alive /\ lock = Nobody
  /\ Decide(f, i, "accepted") /\ accepted' = [accepted EXCEPT ![i] = @ + 1]
  /\ member' = (IF member = 0 THEN members + 1 ELSE member)
  /\ members' = (IF member = 0 THEN members + 1 ELSE members)
  /\ grants' = Granted(grants, invites[i].scopes)
  /\ UNCHANGED <<people, webhook, lock, counters>>

\* Decided meanwhile, a scope deleted, another user's address, or an error: rolled back.
AcceptRefused(f) == Done(f, "accept") /\ UNCHANGED <<people, invited, access, webhook, lock, counters>>

\* addUserToClerkOrg: a failure is logged, "already a member" is none.
AddToClerk(f) ==
  /\ Done(f, "join") /\ joined' \in {joined, TRUE}
  /\ UNCHANGED <<org, alive, invited, access, webhook, lock, counters>>

ReadToRevoke(f) == \E i \in DOMAIN invites :
  /\ Pending(i)
  /\ Start(f, "revoke", [Fresh EXCEPT !.invite = i])
  /\ UNCHANGED <<people, invited, access, webhook, lock, counters>>

\* What is told to Clerk of it is left out.
Revoke(f) ==
  /\ Done(f, "revoke") /\ Decide(f, loc[f].invite, "revoked")
  /\ UNCHANGED <<people, accepted, access, webhook, lock, counters>>

-----------------------------------------------------------------------------
(* AuthController.handleClerkWebhook and AuthService.                      *)

OrgCreated ==
  /\ ~org /\ org' = TRUE
  /\ UNCHANGED <<alive, joined, invited, access, webhook, lock, pc, loc, counters>>

\* organizationMembership.created; a delivery that is known is answered, and changes nothing.
Deliver(f) ==
  /\ joined /\ Upset /\ deliveries' = deliveries + 1
  /\ ~seen /\ seen' = TRUE /\ Move(f, "idle", "member")
  /\ UNCHANGED <<people, invited, access, lock, loc, counters>>

NoSuchOrg(f) ==
  /\ ~org /\ Done(f, "member")
  /\ UNCHANGED <<people, invited, access, webhook, lock, counters>>

CreateMember(f) ==
  /\ org /\ member = 0
  /\ Move(f, "member", "grant") /\ loc' = [loc EXCEPT ![f].member = members + 1]
  /\ member' = members + 1 /\ members' = members + 1
  /\ UNCHANGED <<people, invited, grants, webhook, lock, counters>>

MemberExists(f) ==
  /\ org /\ member # 0 /\ Move(f, "member", "find")
  /\ UNCHANGED <<people, invited, access, webhook, lock, loc, counters>>

FindMember(f) ==
  /\ Move(f, "find", IF member = 0 THEN "idle" ELSE "grant")
  /\ loc' = [loc EXCEPT ![f].member = member]
  /\ UNCHANGED <<people, invited, access, webhook, lock, counters>>

\* No index makes the insert of a second row conflict.
GrantOrg(f) ==
  /\ loc[f].member = member /\ lock = Nobody /\ Done(f, "grant")
  /\ grants' = Granted(grants, {Org})
  /\ UNCHANGED <<people, invited, member, members, webhook, lock, counters>>

\* The member is gone, and the foreign key makes the insert throw.
GrantRefused(f) ==
  /\ loc[f].member # member /\ Done(f, "grant")
  /\ UNCHANGED <<people, invited, access, webhook, lock, counters>>

\* The cleanup of processedWebhooks: entries older than five minutes.
Forget ==
  /\ seen /\ seen' = FALSE
  /\ \A f \in Fibers : pc[f] \notin {"member", "find", "grant"}
  /\ UNCHANGED <<people, invited, access, deliveries, lock, pc, loc, counters>>

-----------------------------------------------------------------------------
(* AccessGrantService.replaceGrants, a statement at a time.                *)

Replace(f) == \E S \in Requests \cup {{}} :
  /\ member # 0 /\ S \subseteq alive /\ Upset /\ edits' = edits + 1
  /\ Start(f, "lock", [Fresh EXCEPT !.member = member, !.want = S])
  /\ UNCHANGED <<people, invited, access, webhook, lock, faults>>

\* Mutant: SELECT without FOR UPDATE.
SelectMember(f) ==
  /\ member = loc[f].member /\ Move(f, "lock", "delete")
  /\ UNCHANGED <<people, invited, access, webhook, lock, loc, counters>>

LockMember(f) ==
  /\ lock = Nobody /\ member = loc[f].member /\ Move(f, "lock", "delete") /\ lock' = f
  /\ UNCHANGED <<people, invited, access, webhook, loc, counters>>

MemberGone(f) ==
  /\ member # loc[f].member /\ Done(f, "lock")
  /\ UNCHANGED <<people, invited, access, webhook, lock, counters>>

DeleteGrants(f) ==
  /\ Move(f, "delete", "replace") /\ loc' = [loc EXCEPT ![f].doomed = grants]
  /\ UNCHANGED <<people, invited, access, webhook, lock, counters>>

Unlocked(f) == lock' = IF lock = f THEN Nobody ELSE lock

InsertGrants(f) ==
  /\ loc[f].want \subseteq alive /\ Done(f, "replace") /\ Unlocked(f)
  /\ grants' = Granted([s \in Scopes |-> grants[s] - loc[f].doomed[s]], loc[f].want)
  /\ UNCHANGED <<people, invited, member, members, webhook, counters>>

\* A scope was deleted after its validation: the foreign key, and a rollback.
InsertRefused(f) ==
  /\ ~(loc[f].want \subseteq alive) /\ Done(f, "replace") /\ Unlocked(f)
  /\ UNCHANGED <<people, invited, access, webhook, counters>>

-----------------------------------------------------------------------------
(* Deletions, time and faults.                                             *)

RemoveMember ==
  /\ member # 0 /\ lock = Nobody /\ Upset /\ edits' = edits + 1
  /\ member' = 0 /\ grants' = NoGrants
  /\ UNCHANGED <<people, invited, members, webhook, lock, pc, loc, faults>>

\* ON DELETE CASCADE, which waits for a transaction that has deleted one of the rows.
Cascade(S) ==
  /\ S \subseteq alive /\ Upset /\ edits' = edits + 1
  /\ \A f \in Fibers, s \in S : loc[f].doomed[s] = 0
  /\ alive' = alive \ S
  /\ grants' = [s \in Scopes |-> IF s \in S THEN 0 ELSE grants[s]]
  /\ UNCHANGED <<org, joined, invited, member, members, webhook, lock, pc, loc, faults>>

RemoveScope ==
  \/ \E p \in Projects : Cascade({p})
  \/ \E w \in Workspaces : Cascade({w} \cup {p \in Projects \cap alive : Parent[p] = w})

PassExpiry == \E i \in DOMAIN invites :
  /\ ~invites[i].late /\ invites' = [invites EXCEPT ![i].late = TRUE]
  /\ UNCHANGED <<people, accepted, decided, raced, access, webhook, lock, pc, loc, counters>>

\* The invited user follows Clerk's mail, or an administrator adds them in Clerk.
JoinInClerk ==
  /\ ~joined /\ joined' = TRUE
  /\ UNCHANGED <<org, alive, invited, access, webhook, lock, pc, loc, counters>>

\* A statement throws: an open transaction is rolled back.
Throw(f) ==
  /\ pc[f] # "idle" /\ Upset /\ faults' = faults + 1
  /\ Done(f, pc[f]) /\ Unlocked(f)
  /\ UNCHANGED <<people, invited, access, webhook, edits>>

Crash ==
  /\ Upset /\ faults' = faults + 1
  /\ pc' = [f \in Fibers |-> "idle"] /\ loc' = [f \in Fibers |-> Fresh] /\ lock' = Nobody
  /\ seen' = FALSE
  /\ UNCHANGED <<people, invited, access, deliveries, edits>>

Invitation(f) ==
  \/ Invite(f) \/ InsertInvite(f)
  \/ ReadInvite(f) \/ Expire(f) \/ Accept(f) \/ AcceptRefused(f) \/ AddToClerk(f)
  \/ ReadToRevoke(f) \/ Revoke(f)

Webhook(f) ==
  \/ Deliver(f) \/ NoSuchOrg(f) \/ CreateMember(f) \/ MemberExists(f) \/ FindMember(f)
  \/ GrantOrg(f) \/ GrantRefused(f)

Replacement(f) ==
  \/ Replace(f) \/ LockMember(f) \/ MemberGone(f) \/ DeleteGrants(f)
  \/ InsertGrants(f) \/ InsertRefused(f)

Outside ==
  \/ OrgCreated \/ Forget \/ RemoveMember \/ RemoveScope \/ PassExpiry \/ JoinInClerk \/ Crash

Next ==
  \/ \E f \in Fibers : Invitation(f) \/ Webhook(f) \/ Replacement(f) \/ Throw(f)
  \/ Outside

Spec == Init /\ [][Next]_vars

-----------------------------------------------------------------------------
(* AccessService, and the lists of the controllers that filter by it.      *)

Has(s)     == grants[s] > 0
HasAnyGrant == \E s \in Scopes : Has(s)
WorkspaceAllowed(w) == Has(Org) \/ Has(w)
ProjectAllowed(p)   == Has(Org) \/ Has(Parent[p]) \/ Has(p)

AccessibleProjects(w) ==
  {p \in Projects \cap alive : Parent[p] = w /\ (Has(Org) \/ Has(w) \/ Has(p))}

\* Mutant: the workspaces of project grants are left out.
AccessibleByWorkspace == {w \in Workspaces \cap alive : Has(Org) \/ Has(w)}

AccessibleWorkspaces ==
  {w \in Workspaces \cap alive : Has(Org) \/ Has(w) \/ \E p \in Projects : Has(p) /\ Parent[p] = w}

-----------------------------------------------------------------------------
(* An invitation is accepted once at the most, however many requests hold  *)
(* its token and however they overlap with revocations and the expiry.     *)
AcceptedOnce == \A i \in DOMAIN invites : accepted[i] <= 1

(* revoke and the expiry overwrite a status that they read before: only a  *)
(* decision taken at the same time lets an invitation be decided twice, and*)
(* only invitations made at the same time are pending together.            *)
SerialInvitations == \A i \in DOMAIN invites \ raced :
  /\ decided[i] <= 1
  /\ \A j \in DOMAIN invites \ (raced \cup {i}) : ~(Pending(i) /\ Pending(j))

(* After replaceGrants a member has the grants that were asked for and no  *)
(* other, whatever replacement, acceptance or webhook ran beside it.       *)
ReplacedWhole == [][\A f \in Fibers :
  pc[f] = "replace" /\ pc'[f] = "idle" /\ grants' # grants => grants' = Granted(NoGrants, loc[f].want)]_vars

(* The lists show a project exactly if its routes admit the member, and a  *)
(* workspace if its own routes or those of a project in it do; a member    *)
(* with any grant at all, in a world where scopes are deleted, sees one.   *)
ListsAgree ==
  /\ \A p \in Projects \cap alive : p \in AccessibleProjects(Parent[p]) <=> ProjectAllowed(p)
  /\ \A w \in Workspaces \cap alive :
       w \in AccessibleWorkspaces <=> WorkspaceAllowed(w) \/ AccessibleProjects(w) # {}
  /\ HasAnyGrant => Has(Org) \/ AccessibleWorkspaces # {}

=============================================================================
