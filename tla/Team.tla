-------------------------------- MODULE Team --------------------------------
(***************************************************************************)
(* Who belongs to a business: invitations, the people who accept them, the  *)
(* roles they are moved between and the access that is taken from them.     *)
(*                                                                         *)
(* A request reads its permissions once, when it starts, and then goes      *)
(* statement by statement with no lock; only the replacement of an older    *)
(* invitation and the acceptance of one run in a transaction, and those are *)
(* one action.  A role is its set of permissions; the built-in Owner role   *)
(* holds all of them.                                                       *)
(***************************************************************************)
EXTENDS Integers, Sequences, FiniteSets

CONSTANTS
    People,         \* email addresses, of members and of strangers
    Founder,        \* the one who registered the business
    Admins,         \* requests of members who manage users
    Visitors,       \* requests of people following an invitation's link
    Owner,          \* the built-in Owner role
    OtherRoles,     \* the other roles somebody can be put into
    Grants,         \* Grants[role]: the permissions of a role
    Manage,         \* the permission users.manage
    MaxInvitations, \* bound: invitations ever issued
    MaxEpoch        \* bound: times one person's sessions are ended

Roles == OtherRoles \union {Owner}

ASSUME PeopleAssumption == Founder \in People /\ Admins \intersect Visitors = {}
ASSUME RolesAssumption ==
    /\ Owner \notin OtherRoles /\ DOMAIN Grants = Roles
    /\ Manage \in Grants[Owner]
    /\ \A role \in Roles : Grants[role] \subseteq Grants[Owner]
ASSUME BoundsAssumption == MaxInvitations \in Nat /\ MaxEpoch \in Nat

VARIABLES
    members,  \* memberships: the status and role of each person's row
    invites,  \* verification_tokens of purpose MEMBER_INVITATION, oldest first
    epoch,    \* User.sessionEpoch
    sessions, \* sessions not marked revoked: whose, and the epoch they were issued at
    job       \* what each request is doing and has read

vars == <<members, invites, epoch, sessions, job>>

Requests == Admins \union Visitors
Member   == [status : {"NONE", "ACTIVE", "SUSPENDED", "REVOKED"}, role : Roles]
Invite   == [email : People, role : Roles, open : BOOLEAN, vouched : SUBSET Grants[Owner]]
Session  == [user : People, epoch : Nat]
Job      == [op : {"NONE", "INVITE", "ROLE", "STATUS", "ACCEPT"},
             at : {"idle", "assigning", "checking", "issuing", "counting", "updating",
                   "committing", "revoking", "marking", "joining", "signing", "starting"},
             actor : People, holder : SUBSET Grants[Owner], target : People, role : Roles,
             status : {"ACTIVE", "SUSPENDED", "REVOKED"}, invite : Nat, seen : Member, epoch : Nat,
             closing : SUBSET Nat]

NoMember == [status |-> "NONE", role |-> Owner]
NoJob == [op |-> "NONE", at |-> "idle", actor |-> Founder, holder |-> {}, target |-> Founder,
          role |-> Owner, status |-> "ACTIVE", invite |-> 0, seen |-> NoMember, epoch |-> 0, closing |-> {}]

Goto(r, step) == job' = [job EXCEPT ![r].at = step]
Done(r) == job' = [job EXCEPT ![r] = NoJob]
KeepsTeam == UNCHANGED <<members, invites, epoch, sessions>>
Active(p) == members[p].status = "ACTIVE"
Holds(p) == IF Active(p) THEN Grants[members[p].role] ELSE {}
\* A row not marked revoked lets somebody in when it has their present epoch.
Live(s) == s.epoch = epoch[s.user]

---------------------------------------------------------------------------
(* Faulty forms of definitions below, against which the properties are     *)
(* checked; the specification does not use them.                           *)

FaultAnyRole(r)           == TRUE
FaultKeepOlder(a)         == {}
FaultConsumeAny(r)        == TRUE
FaultNoEpoch(r)           == epoch

---------------------------------------------------------------------------
(* What a request of an administrator starts with: assertPermission. *)

Begin(a, actor, new) ==
    /\ job[a].at = "idle"
    /\ Manage \in Holds(actor)
    /\ job' = [job EXCEPT ![a] = [new EXCEPT !.actor = actor, !.holder = Holds(actor)]]
    /\ KeepsTeam

\* findAssignableRole: nobody hands out more than they held when they started.
MayAssign(r) == Grants[job[r].role] \subseteq job[r].holder

CheckRole(a) ==
    /\ job[a].at = "assigning"
    /\ IF MayAssign(a)
         THEN Goto(a, IF job[a].op = "INVITE" THEN "checking" ELSE "counting")
         ELSE Done(a)
    /\ KeepsTeam

---------------------------------------------------------------------------
(* Invitations: inviteMember, revokeInvitation. *)

\* The bounded invitations have room for what the running requests may issue.
HasRoom == Len(invites) + Cardinality({a \in Admins : job[a].op = "INVITE"}) < MaxInvitations

InviteMember(a, actor, p, role) ==
    /\ HasRoom
    /\ Begin(a, actor, [NoJob EXCEPT !.op = "INVITE", !.at = "assigning",
                                     !.target = p, !.role = role])

MayBeInvited(p) == members[p].status \in {"NONE", "REVOKED"}

CheckNotMember(a) ==
    /\ job[a].at = "checking"
    /\ IF MayBeInvited(job[a].target) THEN Goto(a, "issuing") ELSE Done(a)
    /\ KeepsTeam

\* Inviting again supersedes what is outstanding for the address.  The rows it
\* closes stay locked until the commit; one another transaction is adding is
\* not seen.
Outstanding(a) == {i \in 1 .. Len(invites) : invites[i].open /\ invites[i].email = job[a].target}
Unlocked(i) == \A a \in Admins : i \notin job[a].closing

SupersedeOlder(a) ==
    /\ job[a].at = "issuing"
    /\ \A i \in Outstanding(a) : Unlocked(i)
    /\ job' = [job EXCEPT ![a].at = "committing", ![a].closing = Outstanding(a)]
    /\ KeepsTeam

IssueInvitation(a) ==
    /\ job[a].at = "committing"
    /\ invites' = Append([i \in 1 .. Len(invites) |->
                            IF i \in job[a].closing THEN [invites[i] EXCEPT !.open = FALSE]
                                                    ELSE invites[i]],
                         [email |-> job[a].target, role |-> job[a].role, open |-> TRUE,
                          vouched |-> job[a].holder])
    /\ Done(a)
    /\ UNCHANGED <<members, epoch, sessions>>

\* One conditional update, no earlier read.
RevokeInvitation(a, actor, i) ==
    /\ job[a].at = "idle" /\ Manage \in Holds(actor)
    /\ invites[i].open /\ Unlocked(i)
    /\ invites' = [invites EXCEPT ![i].open = FALSE]
    /\ UNCHANGED <<members, epoch, sessions, job>>

---------------------------------------------------------------------------
(* Acceptance: acceptInvitation and the session it ends in. *)

AcceptInvitation(v, i) ==
    /\ job[v].at = "idle"
    /\ invites[i].open
    /\ job' = [job EXCEPT ![v] = [NoJob EXCEPT !.op = "ACCEPT", !.at = "joining", !.invite = i,
                                               !.target = invites[i].email]]
    /\ KeepsTeam

\* The transaction consumes the token by id and unconsumed state, then writes
\* the membership whatever row was there.
StillOpen(v) == invites[job[v].invite].open

Join(v) ==
    LET i == job[v].invite IN
    /\ job[v].at = "joining" /\ Unlocked(i)
    /\ IF StillOpen(v)
         THEN /\ invites' = [invites EXCEPT ![i].open = FALSE]
              /\ members' = [members EXCEPT ![invites[i].email] =
                               [status |-> "ACTIVE", role |-> invites[i].role]]
              /\ Goto(v, "signing")
         ELSE Done(v) /\ UNCHANGED <<members, invites>>
    /\ UNCHANGED <<epoch, sessions>>

\* createSession: the epoch is read in one statement and written in the next.
ReadEpoch(v) ==
    /\ job[v].at = "signing"
    /\ job' = [job EXCEPT ![v].at = "starting", ![v].epoch = epoch[job[v].target]]
    /\ KeepsTeam

StartSession(v) ==
    /\ job[v].at = "starting"
    /\ sessions' = sessions \union {[user |-> job[v].target, epoch |-> job[v].epoch]}
    /\ Done(v)
    /\ UNCHANGED <<members, invites, epoch>>

---------------------------------------------------------------------------
(* Membership changes: changeMemberRole, setMemberStatus. *)

\* The bounded epochs have room for what the running requests may end.
MayRevoke(p) == epoch[p] + Cardinality({a \in Admins : job[a].op \in {"ROLE", "STATUS"}
                                                     /\ job[a].target = p}) < MaxEpoch

ChangeMemberRole(a, actor, p, role) ==
    /\ p # actor /\ members[p].status # "NONE" /\ MayRevoke(p)
    /\ Begin(a, actor, [NoJob EXCEPT !.op = "ROLE", !.at = "assigning", !.target = p,
                                     !.role = role, !.seen = members[p]])

SetMemberStatus(a, actor, p, status) ==
    /\ p # actor /\ members[p].status # "NONE"
    /\ status = "ACTIVE" \/ MayRevoke(p)
    /\ Begin(a, actor, [NoJob EXCEPT !.op = "STATUS", !.at = "counting", !.target = p,
                                     !.status = status, !.seen = members[p]])

\* assertNotLastOwner: the membership is the one loaded first, the count is now.
LosesOwner(r) == /\ IF job[r].op = "ROLE" THEN job[r].role # Owner ELSE job[r].status # "ACTIVE"
                 /\ job[r].seen = [status |-> "ACTIVE", role |-> Owner]
ActiveOwners == {p \in People : Active(p) /\ members[p].role = Owner}
LastOwner(r) == LosesOwner(r) /\ Cardinality(ActiveOwners) <= 1

CheckOwners(a) ==
    /\ job[a].at = "counting"
    /\ IF LastOwner(a) THEN Done(a) ELSE Goto(a, "updating")
    /\ KeepsTeam

Changed(r) == IF job[r].op = "ROLE"
                THEN [members[job[r].target] EXCEPT !.role = job[r].role]
                ELSE [members[job[r].target] EXCEPT !.status = job[r].status]

UpdateMember(a) ==
    /\ job[a].at = "updating"
    /\ members' = [members EXCEPT ![job[a].target] = Changed(a)]
    /\ IF job[a].op = "STATUS" /\ job[a].status = "ACTIVE" THEN Done(a) ELSE Goto(a, "revoking")
    /\ UNCHANGED <<invites, epoch, sessions>>

\* revokeAllSessions is two statements: the new epoch ends every session issued
\* before, and then the rows are marked, those of a sign-in in between too.
NextEpoch(r) == [epoch EXCEPT ![job[r].target] = @ + 1]

IncrementEpoch(a) ==
    /\ job[a].at = "revoking"
    /\ epoch' = NextEpoch(a)
    /\ Goto(a, "marking")
    /\ UNCHANGED <<members, invites, sessions>>

MarkRevoked(a) ==
    /\ job[a].at = "marking"
    /\ sessions' = {s \in sessions : s.user # job[a].target}
    /\ Done(a)
    /\ UNCHANGED <<members, invites, epoch>>

---------------------------------------------------------------------------
Init ==
    /\ members = [p \in People |-> IF p = Founder THEN [status |-> "ACTIVE", role |-> Owner]
                                                  ELSE NoMember]
    /\ invites = << >>
    /\ epoch = [p \in People |-> 0]
    /\ sessions = {[user |-> Founder, epoch |-> 0]}
    /\ job = [r \in Requests |-> NoJob]

AdminStart(a) ==
    \E actor \in People :
        \/ \E p \in People, role \in Roles : InviteMember(a, actor, p, role)
        \/ \E i \in 1 .. Len(invites) : RevokeInvitation(a, actor, i)
        \/ \E p \in People, role \in Roles : ChangeMemberRole(a, actor, p, role)
        \/ \E p \in People, s \in {"ACTIVE", "SUSPENDED", "REVOKED"} :
              SetMemberStatus(a, actor, p, s)
AdminStep(a) == \/ CheckRole(a) \/ CheckNotMember(a) \/ SupersedeOlder(a)
                \/ IssueInvitation(a) \/ CheckOwners(a) \/ UpdateMember(a)
                \/ IncrementEpoch(a) \/ MarkRevoked(a)
VisitorStep(v) == \/ \E i \in 1 .. Len(invites) : AcceptInvitation(v, i)
                  \/ Join(v) \/ ReadEpoch(v) \/ StartSession(v)

Next == \/ \E a \in Admins : AdminStart(a) \/ AdminStep(a)
        \/ \E v \in Visitors : VisitorStep(v)

Spec == Init /\ [][Next]_vars

---------------------------------------------------------------------------
(* Properties *)

TypeOK ==
    /\ members \in [People -> Member]
    /\ invites \in Seq(Invite)
    /\ epoch \in [People -> Nat]
    /\ sessions \subseteq Session
    /\ job \in [Requests -> Job]

\* The business always has an active Owner, without whom nobody could manage it
\* (assertNotLastOwner in changeMemberRole and setMemberStatus).
AlwaysAnOwner == ActiveOwners # {}

\* Somebody becomes a member, or moves to another role on their own, only by
\* consuming an invitation that was open until then: a superseded or withdrawn
\* link is dead, and of two parallel submissions one joins (acceptInvitation).
JoiningConsumesAnInvitation ==
    [][\A v \in Visitors, p \in People :
         job[v].at = "joining" /\ job'[v].at = "signing" /\ members'[p] # members[p]
           => \E i \in 1 .. Len(invites) :
                 /\ invites[i].open /\ ~ invites'[i].open
                 /\ invites[i].email = p /\ invites[i].role = members'[p].role
                 /\ \A j \in 1 .. Len(invites) : j > i => invites[j].email # p]_vars

RoleOf(p) == IF members[p].status = "NONE" THEN {} ELSE Grants[members[p].role]
HandsOn ==
    \A p \in People :
        LET gained == RoleOf(p)' \ RoleOf(p) IN
        gained # {} =>
          \/ \E a \in Admins : /\ job[a].at = "updating" /\ job[a].target = p
                               /\ gained \subseteq job[a].holder
          \/ \E i \in 1 .. Len(invites) : /\ invites[i].open /\ ~ invites'[i].open
                                          /\ invites[i].email = p
                                          /\ gained \subseteq invites[i].vouched

\* A permission is handed on and never made: whoever's role gains one got it
\* from a request whose actor held it, now or when the invitation was written
\* (findAssignableRole behind inviteMember and changeMemberRole).
PermissionsAreHandedOn == [][HandsOn]_vars

SessionsEnd ==
    \A a \in Admins :
        job[a].at = "revoking" /\ job'[a].at # "revoking" =>
          /\ \A s \in sessions : s.user = job[a].target => ~ Live(s)'
          /\ \A v \in Visitors :
               job[v].at = "starting" /\ job[v].target = job[a].target
                 => job[v].epoch # epoch'[job[a].target]

\* Removing somebody means now: once the epoch is incremented, before the rows
\* are marked, every session the person had is dead, the one a parallel sign-in
\* is about to write included (revokeAllSessions, createSession).
RemovalEndsSessions == [][SessionsEnd]_vars

\* An address has at most one link that works (inviteMember).
OneOpenInvitation ==
    \A i, j \in 1 .. Len(invites) :
        invites[i].open /\ invites[j].open /\ invites[i].email = invites[j].email => i = j

\* An invitation lets one person in once: one open link to an address, and one
\* membership to a link, over well-formed rows (inviteMember, acceptInvitation).
InvitationsWorkOnce == [](TypeOK /\ OneOpenInvitation) /\ JoiningConsumesAnInvitation
=============================================================================
