---------------------------- MODULE Team_proofs ----------------------------
(* Theorems about Team, for every set of people, requests and roles: the     *)
(* TLC run has one administrator's request, these have any number.           *)
EXTENDS Team, TLAPS

USE PeopleAssumption, RolesAssumption, BoundsAssumption

---------------------------------------------------------------------------
(* The inductive invariant.  What a request has read stays true enough until *)
(* the statement that relies on it; an invitation and a session keep what    *)
(* was true when they were written.                                          *)

\* A request to join follows a link that exists.
Joins(j) == j.at = "joining" => j.invite \in 1 .. Len(invites)

\* Past the role check, the actor held what the role grants.
Permitted(j) ==
    \/ j.at \in {"checking", "issuing", "committing"}
    \/ j.op = "ROLE" /\ j.at \in {"counting", "updating"}
    => Grants[j.role] \subseteq j.holder

\* Whose membership is being changed has one: nobody goes back to none.
Belongs(j) ==
    \/ j.at \in {"counting", "updating"}
    \/ j.at = "assigning" /\ j.op # "INVITE"
    => members[j.target].status # "NONE"

\* A sign-in under way carries an epoch its user has reached.
Dated(j) == j.at = "starting" => j.epoch <= epoch[j.target]

Sound(j) == Joins(j) /\ Permitted(j) /\ Belongs(j) /\ Dated(j)

Vouched == \A i \in 1 .. Len(invites) : Grants[invites[i].role] \subseteq invites[i].vouched
SessionsDated == \A s \in sessions : s.epoch <= epoch[s.user]

IInv == TypeOK /\ (\A r \in Requests : Sound(job[r])) /\ Vouched /\ SessionsDated

---------------------------------------------------------------------------
(* Steps of one request that change no table. *)

LEMMA NoJobFacts == NoJob \in Job /\ Sound(NoJob) /\ NoJob.at = "idle"
  BY DEF NoJob, NoMember, Job, Member, Roles, Sound, Joins, Permitted, Belongs, Dated

LEMMA JobStep ==
  ASSUME IInv, NEW r \in Requests, NEW j \in Job, Sound(j),
         job' = [job EXCEPT ![r] = j], KeepsTeam
  PROVE  IInv'
  <1>1. TypeOK'
    BY DEF IInv, TypeOK, KeepsTeam
  <1>2. ASSUME NEW q \in Requests PROVE Sound(job[q])'
    <2>1. job'[q] = j \/ job'[q] = job[q]
      BY DEF IInv, TypeOK
    <2>2. Sound(job[q])
      BY DEF IInv
    <2> QED
      BY <2>1, <2>2 DEF Sound, Joins, Permitted, Belongs, Dated, KeepsTeam
  <1>3. Vouched' /\ SessionsDated'
    BY DEF IInv, Vouched, SessionsDated, KeepsTeam
  <1> QED
    BY <1>1, <1>2, <1>3 DEF IInv

LEMMA GotoStep ==
  ASSUME IInv, NEW r \in Requests, NEW step,
         [job[r] EXCEPT !.at = step] \in Job, Sound([job[r] EXCEPT !.at = step]),
         Goto(r, step), KeepsTeam
  PROVE  IInv'
  <1>1. job' = [job EXCEPT ![r] = [job[r] EXCEPT !.at = step]]
    BY DEF Goto, IInv, TypeOK
  <1> QED
    BY <1>1, JobStep

LEMMA DoneStep ==
  ASSUME IInv, NEW r \in Requests, Done(r), KeepsTeam
  PROVE  IInv'
  BY NoJobFacts, JobStep DEF Done

LEMMA BeginStep ==
  ASSUME IInv, NEW a \in Admins, NEW actor \in People, NEW new \in Job,
         new.at \in {"assigning", "counting"}, new.op # "ROLE" \/ new.at = "assigning",
         Belongs(new), Begin(a, actor, new)
  PROVE  IInv'
  <1> DEFINE j == [new EXCEPT !.actor = actor, !.holder = Holds(actor)]
  <1>1. Holds(actor) \subseteq Grants[Owner]
    BY DEF Holds, IInv, TypeOK, Member, Roles
  <1>2. j \in Job
    BY <1>1 DEF Job
  <1>3. j.at = new.at /\ j.op = new.op /\ j.target = new.target
    BY DEF Job
  <1>4. Sound(j)
    BY <1>3 DEF Sound, Joins, Permitted, Belongs, Dated
  <1> QED
    BY <1>2, <1>4, JobStep DEF Begin, Requests

---------------------------------------------------------------------------
(* The requests of administrators, one lemma per action. *)

LEMMA InviteMemberStep ==
  ASSUME IInv, NEW a \in Admins, NEW actor \in People, NEW p \in People, NEW role \in Roles,
         InviteMember(a, actor, p, role)
  PROVE  IInv'
  <1> DEFINE new == [NoJob EXCEPT !.op = "INVITE", !.at = "assigning", !.target = p, !.role = role]
  <1>1. new \in Job /\ new.at = "assigning" /\ new.op = "INVITE"
    BY NoJobFacts DEF Job, NoJob
  <1>2. Belongs(new)
    BY <1>1 DEF Belongs
  <1>3. Begin(a, actor, new)
    BY DEF InviteMember
  <1> HIDE DEF new
  <1> QED
    BY <1>1, <1>2, <1>3, BeginStep

LEMMA ChangeMemberRoleStep ==
  ASSUME IInv, NEW a \in Admins, NEW actor \in People, NEW p \in People, NEW role \in Roles,
         ChangeMemberRole(a, actor, p, role)
  PROVE  IInv'
  <1> DEFINE new == [NoJob EXCEPT !.op = "ROLE", !.at = "assigning", !.target = p,
                                  !.role = role, !.seen = members[p]]
  <1>1. members[p] \in Member /\ members[p].status # "NONE"
    BY DEF ChangeMemberRole, IInv, TypeOK
  <1>2. new \in Job /\ new.at = "assigning" /\ new.target = p
    BY <1>1, NoJobFacts DEF Job, NoJob
  <1>3. Belongs(new)
    BY <1>1, <1>2 DEF Belongs
  <1>4. Begin(a, actor, new)
    BY DEF ChangeMemberRole
  <1> HIDE DEF new
  <1> QED
    BY <1>2, <1>3, <1>4, BeginStep

LEMMA SetMemberStatusStep ==
  ASSUME IInv, NEW a \in Admins, NEW actor \in People, NEW p \in People,
         NEW status \in {"ACTIVE", "SUSPENDED", "REVOKED"},
         SetMemberStatus(a, actor, p, status)
  PROVE  IInv'
  <1> DEFINE new == [NoJob EXCEPT !.op = "STATUS", !.at = "counting", !.target = p,
                                  !.status = status, !.seen = members[p]]
  <1>1. members[p] \in Member /\ members[p].status # "NONE"
    BY DEF SetMemberStatus, IInv, TypeOK
  <1>2. new \in Job /\ new.at = "counting" /\ new.op = "STATUS" /\ new.target = p
    BY <1>1, NoJobFacts DEF Job, NoJob
  <1>3. Belongs(new)
    BY <1>1, <1>2 DEF Belongs
  <1>4. Begin(a, actor, new)
    BY DEF SetMemberStatus
  <1> HIDE DEF new
  <1> QED
    BY <1>2, <1>3, <1>4, BeginStep

\* Closing an invitation, by withdrawing it or by accepting it.
LEMMA CloseFacts ==
  ASSUME IInv, NEW i \in 1 .. Len(invites), invites' = [invites EXCEPT ![i].open = FALSE]
  PROVE  /\ invites' \in Seq(Invite) /\ Len(invites') = Len(invites)
         /\ \A k \in 1 .. Len(invites) : /\ invites'[k].role = invites[k].role
                                         /\ invites'[k].vouched = invites[k].vouched
  <1>1. invites \in Seq(Invite) /\ invites[i] \in Invite
    BY DEF IInv, TypeOK
  <1>2. [invites[i] EXCEPT !.open = FALSE] \in Invite
    BY <1>1 DEF Invite
  <1>3. invites' = [invites EXCEPT ![i] = [invites[i] EXCEPT !.open = FALSE]]
    BY <1>1
  <1>4. invites' \in Seq(Invite) /\ Len(invites') = Len(invites)
    BY <1>1, <1>2, <1>3
  <1>5. ASSUME NEW k \in 1 .. Len(invites)
        PROVE  invites'[k].role = invites[k].role /\ invites'[k].vouched = invites[k].vouched
    <2>1. CASE k = i
      BY <1>1, <1>3, <2>1 DEF Invite
    <2>2. CASE k # i
      BY <1>1, <1>3, <2>2
    <2> QED
      BY <2>1, <2>2
  <1> QED
    BY <1>4, <1>5

LEMMA RevokeInvitationStep ==
  ASSUME IInv, NEW a \in Admins, NEW actor \in People, NEW i \in 1 .. Len(invites),
         RevokeInvitation(a, actor, i)
  PROVE  IInv'
  <1>1. /\ invites' \in Seq(Invite) /\ Len(invites') = Len(invites)
        /\ \A k \in 1 .. Len(invites) : /\ invites'[k].role = invites[k].role
                                        /\ invites'[k].vouched = invites[k].vouched
    BY CloseFacts DEF RevokeInvitation
  <1>2. TypeOK'
    BY <1>1 DEF RevokeInvitation, IInv, TypeOK
  <1>3. \A r \in Requests : Sound(job[r])'
    BY <1>1 DEF RevokeInvitation, IInv, Sound, Joins, Permitted, Belongs, Dated
  <1>4. Vouched' /\ SessionsDated'
    BY <1>1 DEF RevokeInvitation, IInv, Vouched, SessionsDated
  <1> QED
    BY <1>2, <1>3, <1>4 DEF IInv

\* The steps that read: where one goes on, the request is still sound.
LEMMA ReadStep ==
  ASSUME IInv, NEW a \in Admins, CheckRole(a) \/ CheckNotMember(a) \/ CheckOwners(a)
  PROVE  IInv'
  <1>0. a \in Requests /\ job[a] \in Job /\ Sound(job[a])
    BY DEF Requests, IInv, TypeOK
  <1>1. CASE CheckRole(a)
    <2> DEFINE step == IF job[a].op = "INVITE" THEN "checking" ELSE "counting"
    <2>1. CASE MayAssign(a)
      <3>1. /\ [job[a] EXCEPT !.at = step] \in Job
            /\ Sound([job[a] EXCEPT !.at = step])
        BY <1>0, <1>1, <2>1
           DEF CheckRole, MayAssign, Job, Sound, Joins, Permitted, Belongs, Dated
      <3>2. Goto(a, step) /\ KeepsTeam
        BY <1>1, <2>1 DEF CheckRole
      <3> HIDE DEF step
      <3> QED
        BY <1>0, <3>1, <3>2, GotoStep
    <2>2. CASE ~ MayAssign(a)
      BY <1>0, <1>1, <2>2, DoneStep DEF CheckRole
    <2> QED
      BY <2>1, <2>2
  <1>2. CASE CheckNotMember(a)
    <2>1. /\ [job[a] EXCEPT !.at = "issuing"] \in Job
          /\ Sound([job[a] EXCEPT !.at = "issuing"])
      BY <1>0, <1>2 DEF CheckNotMember, Job, Sound, Joins, Permitted, Belongs, Dated
    <2> QED
      BY <1>0, <1>2, <2>1, GotoStep, DoneStep DEF CheckNotMember
  <1>3. CASE CheckOwners(a)
    <2>1. /\ [job[a] EXCEPT !.at = "updating"] \in Job
          /\ Sound([job[a] EXCEPT !.at = "updating"])
      BY <1>0, <1>3 DEF CheckOwners, Job, Sound, Joins, Permitted, Belongs, Dated
    <2> QED
      BY <1>0, <1>3, <2>1, GotoStep, DoneStep DEF CheckOwners
  <1> QED
    BY <1>1, <1>2, <1>3

\* The rows a replacement closes are locked, and are indices of invitations.
LEMMA SupersedeOlderStep ==
  ASSUME IInv, NEW a \in Admins, SupersedeOlder(a)
  PROVE  IInv'
  <1> DEFINE j == [job[a] EXCEPT !.at = "committing", !.closing = Outstanding(a)]
  <1>1. a \in Requests /\ job[a] \in Job /\ Sound(job[a]) /\ job[a].at = "issuing"
    BY DEF Requests, IInv, TypeOK, SupersedeOlder
  <1>2. Outstanding(a) \in SUBSET Nat
    BY DEF Outstanding, IInv, TypeOK
  <1>3. j \in Job
    BY <1>1, <1>2 DEF Job
  <1>4. Sound(j)
    BY <1>1 DEF Job, Sound, Joins, Permitted, Belongs, Dated
  <1>5. job' = [job EXCEPT ![a] = j] /\ KeepsTeam
    BY <1>1 DEF SupersedeOlder, IInv, TypeOK
  <1> HIDE DEF j
  <1> QED
    BY <1>1, <1>3, <1>4, <1>5, JobStep

LEMMA IssueInvitationStep ==
  ASSUME IInv, NEW a \in Admins, IssueInvitation(a)
  PROVE  IInv'
  <1> DEFINE older == [i \in 1 .. Len(invites) |->
                         IF i \in job[a].closing THEN [invites[i] EXCEPT !.open = FALSE]
                                                 ELSE invites[i]]
             new == [email |-> job[a].target, role |-> job[a].role, open |-> TRUE,
                     vouched |-> job[a].holder]
  <1>1. a \in Requests /\ job[a] \in Job /\ Grants[job[a].role] \subseteq job[a].holder
    BY DEF Requests, IInv, TypeOK, IssueInvitation, Sound, Permitted
  <1>2. new \in Invite /\ Grants[new.role] \subseteq new.vouched
    BY <1>1 DEF Job, Invite
  <1>3. invites \in Seq(Invite) /\ Len(invites) \in Nat
    BY DEF IInv, TypeOK
  <1>4. \A i \in 1 .. Len(invites) : /\ older[i] \in Invite
                                     /\ older[i].role = invites[i].role
                                     /\ older[i].vouched = invites[i].vouched
    <2> SUFFICES ASSUME NEW i \in 1 .. Len(invites)
                 PROVE  /\ older[i] \in Invite /\ older[i].role = invites[i].role
                        /\ older[i].vouched = invites[i].vouched
      OBVIOUS
    <2>1. invites[i] \in Invite
      BY <1>3
    <2>2. older[i] = [invites[i] EXCEPT !.open = FALSE] \/ older[i] = invites[i]
      OBVIOUS
    <2> HIDE DEF older
    <2> QED
      BY <2>1, <2>2 DEF Invite
  <1>5. older \in Seq(Invite) /\ Len(older) = Len(invites)
    BY <1>3, <1>4
  <1>6. invites' = Append(older, new) /\ Done(a) /\ UNCHANGED <<members, epoch, sessions>>
    BY DEF IssueInvitation
  <1> HIDE DEF older, new
  <1>7. /\ invites' \in Seq(Invite) /\ Len(invites') = Len(invites) + 1
        /\ invites'[Len(invites) + 1] = new
        /\ \A i \in 1 .. Len(invites) : invites'[i] = older[i]
    BY <1>2, <1>5, <1>6
  <1>8. TypeOK'
    BY <1>1, <1>6, <1>7, NoJobFacts DEF IInv, TypeOK, Done
  <1>9. ASSUME NEW r \in Requests PROVE Sound(job[r])'
    <2>1. job'[r] = NoJob \/ job'[r] = job[r]
      BY <1>6 DEF IInv, TypeOK, Done
    <2>2. Sound(job[r])
      BY DEF IInv
    <2> QED
      BY <1>3, <1>6, <1>7, <2>1, <2>2, NoJobFacts
         DEF Sound, Joins, Permitted, Belongs, Dated
  <1>10. Vouched'
    <2> SUFFICES ASSUME NEW i \in 1 .. Len(invites')
                 PROVE  Grants[invites'[i].role] \subseteq invites'[i].vouched
      BY DEF Vouched
    <2>1. CASE i = Len(invites) + 1
      BY <1>2, <1>7, <2>1
    <2>2. CASE i \in 1 .. Len(invites)
      BY <1>4, <1>7, <2>2 DEF IInv, Vouched
    <2> QED
      BY <1>3, <1>7, <2>1, <2>2
  <1>11. SessionsDated'
    BY <1>6 DEF IInv, SessionsDated
  <1> QED
    BY <1>8, <1>9, <1>10, <1>11 DEF IInv

\* A membership that changes keeps a status, and so still belongs.
LEMMA ChangedFacts ==
  ASSUME IInv, NEW a \in Admins, job[a].at = "updating"
  PROVE  /\ a \in Requests /\ job[a] \in Job /\ members[job[a].target] \in Member
         /\ Changed(a) \in Member /\ Changed(a).status # "NONE"
  <1>1. a \in Requests /\ job[a] \in Job /\ Belongs(job[a])
    BY DEF Requests, IInv, TypeOK, Sound
  <1>2. members[job[a].target] \in Member /\ members[job[a].target].status # "NONE"
    BY <1>1 DEF IInv, TypeOK, Job, Belongs
  <1> QED
    BY <1>1, <1>2 DEF Changed, Member, Job

LEMMA UpdateMemberStep ==
  ASSUME IInv, NEW a \in Admins, UpdateMember(a)
  PROVE  IInv'
  <1>1. /\ job[a].at = "updating" /\ members' = [members EXCEPT ![job[a].target] = Changed(a)]
        /\ UNCHANGED <<invites, epoch, sessions>>
        /\ Done(a) \/ Goto(a, "revoking")
    BY DEF UpdateMember
  <1>2. a \in Requests /\ job[a] \in Job /\ Changed(a) \in Member /\ Changed(a).status # "NONE"
    BY <1>1, ChangedFacts
  <1> DEFINE j == [job[a] EXCEPT !.at = "revoking"]
  <1>3. j \in Job /\ Sound(j)
    BY <1>2 DEF Job, Sound, Joins, Permitted, Belongs, Dated
  <1>4. job' = [job EXCEPT ![a] = NoJob] \/ job' = [job EXCEPT ![a] = j]
    BY <1>1 DEF Done, Goto, IInv, TypeOK
  <1> HIDE DEF j
  <1>5. TypeOK'
    <2>1. job[a].target \in People
      BY <1>2 DEF Job
    <2>2. members' \in [People -> Member]
      BY <1>1, <1>2, <2>1 DEF IInv, TypeOK
    <2>3. job' \in [Requests -> Job]
      BY <1>2, <1>3, <1>4, NoJobFacts DEF IInv, TypeOK
    <2> QED
      BY <1>1, <2>2, <2>3 DEF IInv, TypeOK
  <1>6. \A p \in People : members[p].status # "NONE" => members'[p].status # "NONE"
    BY <1>1, <1>2 DEF IInv, TypeOK
  <1>7. ASSUME NEW r \in Requests PROVE Sound(job[r])'
    <2>1. /\ job'[r] = NoJob \/ job'[r] = j \/ job'[r] = job[r]
          /\ job'[r] \in Job
      BY <1>3, <1>4, NoJobFacts DEF IInv, TypeOK
    <2>2. Sound(job'[r])
      BY <1>3, <2>1, NoJobFacts DEF IInv
    <2>3. job'[r].target \in People
      BY <2>1 DEF Job
    <2> QED
      BY <1>1, <1>6, <2>2, <2>3 DEF Sound, Joins, Permitted, Belongs, Dated
  <1>8. Vouched' /\ SessionsDated'
    BY <1>1 DEF IInv, Vouched, SessionsDated
  <1> QED
    BY <1>5, <1>7, <1>8 DEF IInv

LEMMA IncrementEpochStep ==
  ASSUME IInv, NEW a \in Admins, IncrementEpoch(a)
  PROVE  IInv'
  <1> DEFINE j == [job[a] EXCEPT !.at = "marking"]
  <1>0. a \in Requests /\ job[a] \in Job
    BY DEF Requests, IInv, TypeOK
  <1>1. /\ job[a].target \in People
        /\ epoch' = [epoch EXCEPT ![job[a].target] = epoch[job[a].target] + 1]
        /\ job' = [job EXCEPT ![a] = j] /\ UNCHANGED <<members, invites, sessions>>
    BY <1>0 DEF IInv, TypeOK, Job, IncrementEpoch, NextEpoch, Goto
  <1>2. j \in Job /\ Sound(j)
    BY <1>0 DEF Job, Sound, Joins, Permitted, Belongs, Dated
  <1> HIDE DEF j
  <1>3. TypeOK'
    BY <1>0, <1>1, <1>2 DEF IInv, TypeOK
  <1>4. \A p \in People : epoch[p] \in Nat /\ epoch'[p] \in Nat /\ epoch[p] <= epoch'[p]
    BY <1>1 DEF IInv, TypeOK
  <1>5. ASSUME NEW r \in Requests PROVE Sound(job[r])'
    <2>1. /\ job'[r] = j \/ job'[r] = job[r]
          /\ job'[r] \in Job
      BY <1>1, <1>2 DEF IInv, TypeOK
    <2>2. Sound(job'[r])
      BY <1>2, <2>1 DEF IInv
    <2>3. job'[r].target \in People /\ job'[r].epoch \in Nat
      BY <2>1 DEF Job
    <2> QED
      BY <1>1, <1>4, <2>2, <2>3 DEF Sound, Joins, Permitted, Belongs, Dated
  <1>6. SessionsDated'
    <2> SUFFICES ASSUME NEW s \in sessions PROVE s.epoch <= epoch'[s.user]
      BY <1>1 DEF SessionsDated
    <2>1. s.user \in People /\ s.epoch \in Nat /\ s.epoch <= epoch[s.user]
      BY DEF IInv, TypeOK, Session, SessionsDated
    <2> QED
      BY <1>4, <2>1
  <1>7. Vouched'
    BY <1>1 DEF IInv, Vouched
  <1> QED
    BY <1>3, <1>5, <1>6, <1>7 DEF IInv

LEMMA MarkRevokedStep ==
  ASSUME IInv, NEW a \in Admins, MarkRevoked(a)
  PROVE  IInv'
  <1>1. /\ a \in Requests /\ job' = [job EXCEPT ![a] = NoJob]
        /\ UNCHANGED <<members, invites, epoch>> /\ sessions' \subseteq sessions
    BY DEF Requests, MarkRevoked, Done
  <1>2. TypeOK'
    BY <1>1, NoJobFacts DEF IInv, TypeOK
  <1>3. ASSUME NEW r \in Requests PROVE Sound(job[r])'
    <2>1. job'[r] = NoJob \/ job'[r] = job[r]
      BY <1>1 DEF IInv, TypeOK
    <2>2. Sound(job'[r])
      BY <2>1, NoJobFacts DEF IInv
    <2> QED
      BY <1>1, <2>2 DEF Sound, Joins, Permitted, Belongs, Dated
  <1>4. Vouched' /\ SessionsDated'
    BY <1>1 DEF IInv, Vouched, SessionsDated
  <1> QED
    BY <1>2, <1>3, <1>4 DEF IInv

---------------------------------------------------------------------------
(* The requests of people following a link. *)

LEMMA AcceptInvitationStep ==
  ASSUME IInv, NEW v \in Visitors, NEW i \in 1 .. Len(invites), AcceptInvitation(v, i)
  PROVE  IInv'
  <1> DEFINE j == [NoJob EXCEPT !.op = "ACCEPT", !.at = "joining", !.invite = i,
                                !.target = invites[i].email]
  <1>1. v \in Requests /\ invites[i] \in Invite /\ i \in Nat
    BY DEF Requests, IInv, TypeOK
  <1>2. j \in Job /\ j.at = "joining" /\ j.op = "ACCEPT" /\ j.invite = i
    BY <1>1, NoJobFacts DEF Job, NoJob, Invite
  <1>3. Sound(j)
    BY <1>2 DEF Sound, Joins, Permitted, Belongs, Dated
  <1>4. job' = [job EXCEPT ![v] = j] /\ KeepsTeam
    BY DEF AcceptInvitation
  <1> HIDE DEF j
  <1> QED
    BY <1>1, <1>2, <1>3, <1>4, JobStep

LEMMA JoinStep ==
  ASSUME IInv, NEW v \in Visitors, Join(v)
  PROVE  IInv'
  <1> DEFINE i == job[v].invite
             j == [job[v] EXCEPT !.at = "signing"]
  <1>1. /\ v \in Requests /\ job[v] \in Job /\ Sound(job[v]) /\ job[v].at = "joining"
        /\ i \in 1 .. Len(invites) /\ invites[i] \in Invite
    BY DEF Requests, IInv, TypeOK, Join, Sound, Joins
  <1>2. CASE StillOpen(v)
    <2>1. /\ invites' = [invites EXCEPT ![i].open = FALSE]
          /\ members' = [members EXCEPT ![invites[i].email] =
                           [status |-> "ACTIVE", role |-> invites[i].role]]
          /\ job' = [job EXCEPT ![v] = j] /\ UNCHANGED <<epoch, sessions>>
      BY <1>1, <1>2 DEF Join, Goto, IInv, TypeOK
    <2>2. j \in Job /\ Sound(j)
      BY <1>1 DEF Job, Sound, Joins, Permitted, Belongs, Dated
    <2>3. [status |-> "ACTIVE", role |-> invites[i].role] \in Member
          /\ invites[i].email \in People
      BY <1>1 DEF Invite, Member
    <2>4. /\ invites' \in Seq(Invite) /\ Len(invites') = Len(invites)
          /\ \A k \in 1 .. Len(invites) : /\ invites'[k].role = invites[k].role
                                          /\ invites'[k].vouched = invites[k].vouched
      BY <1>1, <2>1, CloseFacts
    <2> HIDE DEF i, j
    <2>5. members' \in [People -> Member] /\ job' \in [Requests -> Job]
      BY <1>1, <2>1, <2>2, <2>3 DEF IInv, TypeOK
    <2>6. TypeOK'
      BY <2>1, <2>4, <2>5 DEF IInv, TypeOK
    <2>7. \A p \in People : members[p].status # "NONE" => members'[p].status # "NONE"
      BY <2>1, <2>3 DEF IInv, TypeOK
    <2>8. ASSUME NEW r \in Requests PROVE Sound(job[r])'
      <3>1. job'[r] \in Job /\ Sound(job'[r])
        BY <1>1, <2>1, <2>2, <2>5 DEF IInv, TypeOK
      <3>2. job'[r].target \in People
        BY <3>1 DEF Job
      <3> QED
        BY <2>1, <2>4, <2>7, <3>1, <3>2 DEF Sound, Joins, Permitted, Belongs, Dated
    <2>9. Vouched' /\ SessionsDated'
      BY <2>1, <2>4 DEF IInv, Vouched, SessionsDated
    <2> QED
      BY <2>6, <2>8, <2>9 DEF IInv
  <1>3. CASE ~ StillOpen(v)
    BY <1>1, <1>3, DoneStep DEF Join, KeepsTeam
  <1> QED
    BY <1>2, <1>3

LEMMA ReadEpochStep ==
  ASSUME IInv, NEW v \in Visitors, ReadEpoch(v)
  PROVE  IInv'
  <1> DEFINE j == [job[v] EXCEPT !.at = "starting", !.epoch = epoch[job[v].target]]
  <1>1. v \in Requests /\ job[v] \in Job /\ job[v].target \in People
    BY DEF Requests, IInv, TypeOK, Job
  <1>2. epoch[job[v].target] \in Nat
    BY <1>1 DEF IInv, TypeOK
  <1>3. j \in Job /\ j.at = "starting" /\ j.target = job[v].target
        /\ j.epoch = epoch[j.target]
    BY <1>1, <1>2 DEF Job
  <1>4. job' = [job EXCEPT ![v] = j] /\ KeepsTeam
    BY <1>1 DEF ReadEpoch, IInv, TypeOK
  <1> HIDE DEF j
  <1>5. Sound(j)
    BY <1>1, <1>2, <1>3 DEF Sound, Joins, Permitted, Belongs, Dated
  <1> QED
    BY <1>1, <1>3, <1>4, <1>5, JobStep

LEMMA StartSessionStep ==
  ASSUME IInv, NEW v \in Visitors, StartSession(v)
  PROVE  IInv'
  <1> DEFINE s == [user |-> job[v].target, epoch |-> job[v].epoch]
  <1>1. /\ v \in Requests /\ job[v] \in Job /\ Sound(job[v]) /\ job[v].at = "starting"
        /\ sessions' = sessions \union {s} /\ job' = [job EXCEPT ![v] = NoJob]
        /\ UNCHANGED <<members, invites, epoch>>
    BY DEF Requests, IInv, TypeOK, StartSession, Done
  <1>2. s \in Session /\ s.epoch <= epoch[s.user]
    BY <1>1 DEF Job, Session, Sound, Dated
  <1> HIDE DEF s
  <1>3. TypeOK'
    BY <1>1, <1>2, NoJobFacts DEF IInv, TypeOK
  <1>4. ASSUME NEW r \in Requests PROVE Sound(job[r])'
    <2>1. job'[r] = NoJob \/ job'[r] = job[r]
      BY <1>1 DEF IInv, TypeOK
    <2> QED
      BY <1>1, <2>1, NoJobFacts DEF IInv, Sound, Joins, Permitted, Belongs, Dated
  <1>5. Vouched' /\ SessionsDated'
    BY <1>1, <1>2 DEF IInv, Vouched, SessionsDated
  <1> QED
    BY <1>3, <1>4, <1>5 DEF IInv

---------------------------------------------------------------------------
(* The invariant holds, and what the steps do. *)

LEMMA Initially == Init => IInv
  <1> SUFFICES ASSUME Init PROVE IInv
    OBVIOUS
  <1>1. [status |-> "ACTIVE", role |-> Owner] \in Member /\ NoMember \in Member
    BY DEF Member, NoMember, Roles
  <1>2. TypeOK
    BY <1>1, NoJobFacts DEF Init, TypeOK, Session
  <1>3. \A r \in Requests : Sound(job[r])
    BY NoJobFacts DEF Init
  <1>4. Vouched /\ SessionsDated
    BY DEF Init, Vouched, SessionsDated
  <1> QED
    BY <1>2, <1>3, <1>4 DEF IInv

LEMMA Inductive == IInv /\ [Next]_vars => IInv'
  <1> SUFFICES ASSUME IInv, [Next]_vars PROVE IInv'
    OBVIOUS
  <1>1. ASSUME NEW a \in Admins, AdminStart(a) PROVE IInv'
    BY <1>1, InviteMemberStep, RevokeInvitationStep, ChangeMemberRoleStep, SetMemberStatusStep
       DEF AdminStart
  <1>2. ASSUME NEW a \in Admins, AdminStep(a) PROVE IInv'
    BY <1>2, ReadStep, SupersedeOlderStep, IssueInvitationStep, UpdateMemberStep,
       IncrementEpochStep, MarkRevokedStep DEF AdminStep
  <1>3. ASSUME NEW v \in Visitors, VisitorStep(v) PROVE IInv'
    BY <1>3, AcceptInvitationStep, JoinStep, ReadEpochStep, StartSessionStep DEF VisitorStep
  <1>4. CASE UNCHANGED vars
    <2>1. TypeOK'
      BY <1>4 DEF IInv, TypeOK, vars
    <2>2. \A r \in Requests : Sound(job[r])'
      BY <1>4 DEF IInv, Sound, Joins, Permitted, Belongs, Dated, vars
    <2>3. Vouched' /\ SessionsDated'
      BY <1>4 DEF IInv, Vouched, SessionsDated, vars
    <2> QED
      BY <2>1, <2>2, <2>3 DEF IInv
  <1> QED
    BY <1>1, <1>2, <1>3, <1>4 DEF Next

\* Only two statements write memberships.
LEMMA MembersWritten ==
  ASSUME [Next]_vars
  PROVE  \/ members' = members
         \/ \E a \in Admins : UpdateMember(a)
         \/ \E v \in Visitors : Join(v) /\ StillOpen(v)
  <1>1. ASSUME NEW a \in Admins, AdminStart(a) PROVE members' = members
    BY <1>1 DEF AdminStart, InviteMember, RevokeInvitation, ChangeMemberRole,
                SetMemberStatus, Begin, KeepsTeam
  <1>2. ASSUME NEW a \in Admins, AdminStep(a), ~ UpdateMember(a) PROVE members' = members
    BY <1>2 DEF AdminStep, CheckRole, CheckNotMember, SupersedeOlder, IssueInvitation,
                CheckOwners, IncrementEpoch, MarkRevoked, KeepsTeam
  <1>3. ASSUME NEW v \in Visitors, VisitorStep(v), ~ (Join(v) /\ StillOpen(v))
        PROVE  members' = members
    BY <1>3 DEF VisitorStep, AcceptInvitation, Join, ReadEpoch, StartSession, KeepsTeam
  <1>4. CASE UNCHANGED vars
    BY <1>4 DEF vars
  <1> QED
    BY <1>1, <1>2, <1>3, <1>4 DEF Next

\* A role that changes under a membership was granted by a permitted request.
LEMMA UpdateHandsOn ==
  ASSUME IInv, NEW a \in Admins, UpdateMember(a), NEW p \in People,
         RoleOf(p)' \ RoleOf(p) # {}
  PROVE  /\ job[a].at = "updating" /\ job[a].target = p
         /\ RoleOf(p)' \ RoleOf(p) \subseteq job[a].holder
  <1>1. /\ job[a].at = "updating" /\ members' = [members EXCEPT ![job[a].target] = Changed(a)]
        /\ members \in [People -> Member]
    BY DEF UpdateMember, IInv, TypeOK
  <1>2. job[a].target = p
    BY <1>1 DEF RoleOf
  <1>3. members'[p] = Changed(a)
    BY <1>1, <1>2
  <1>4. /\ a \in Requests /\ members[p] \in Member /\ members[p].status # "NONE"
        /\ Changed(a).status # "NONE"
    BY <1>1, <1>2, ChangedFacts DEF IInv, Sound, Belongs
  <1>5. RoleOf(p)' = Grants[Changed(a).role] /\ RoleOf(p) = Grants[members[p].role]
    BY <1>3, <1>4 DEF RoleOf
  <1>6. CASE job[a].op = "ROLE"
    <2>1. Changed(a).role = job[a].role
      BY <1>2, <1>4, <1>6 DEF Changed, Member
    <2>2. Grants[job[a].role] \subseteq job[a].holder
      BY <1>1, <1>4, <1>6 DEF IInv, Sound, Permitted
    <2> QED
      BY <1>1, <1>2, <1>5, <2>1, <2>2
  <1>7. CASE job[a].op # "ROLE"
    <2>1. Changed(a).role = members[p].role
      BY <1>2, <1>4, <1>7 DEF Changed, Member
    <2> QED
      BY <1>5, <2>1
  <1> QED
    BY <1>6, <1>7

\* Whoever joins gets what the actor held who wrote the invitation.
LEMMA JoinHandsOn ==
  ASSUME IInv, NEW v \in Visitors, Join(v), StillOpen(v), NEW p \in People,
         RoleOf(p)' \ RoleOf(p) # {}
  PROVE  \E i \in 1 .. Len(invites) : /\ invites[i].open /\ ~ invites'[i].open
                                      /\ invites[i].email = p
                                      /\ RoleOf(p)' \ RoleOf(p) \subseteq invites[i].vouched
  <1> DEFINE i == job[v].invite
  <1>1. /\ i \in 1 .. Len(invites) /\ invites \in Seq(Invite) /\ invites[i] \in Invite
        /\ invites[i].open /\ members \in [People -> Member]
    BY DEF Requests, IInv, TypeOK, Join, Sound, Joins, StillOpen
  <1>2. /\ invites' = [invites EXCEPT ![i].open = FALSE]
        /\ members' = [members EXCEPT ![invites[i].email] =
                         [status |-> "ACTIVE", role |-> invites[i].role]]
    BY DEF Join
  <1> HIDE DEF i
  <1>3. invites[i].email = p
    BY <1>1, <1>2 DEF RoleOf
  <1>4. members'[p] = [status |-> "ACTIVE", role |-> invites[i].role]
    BY <1>1, <1>2, <1>3
  <1>5. RoleOf(p)' = Grants[invites[i].role]
    BY <1>4 DEF RoleOf
  <1>6. Grants[invites[i].role] \subseteq invites[i].vouched
    BY <1>1 DEF IInv, Vouched
  <1>7. invites'[i] = [invites[i] EXCEPT !.open = FALSE]
    <2>1. invites' = [invites EXCEPT ![i].open = FALSE]
      BY <1>2
    <2>2. invites \in [1 .. Len(invites) -> Invite]
      BY <1>1
    <2> QED
      BY <1>1, <2>1, <2>2
  <1>8. ~ invites'[i].open
    BY <1>1, <1>7 DEF Invite
  <1> QED
    BY <1>1, <1>3, <1>5, <1>6, <1>8

\* Of the requests that revoke sessions, only incrementing the epoch moves one on.
LEMMA RevokingEnds ==
  ASSUME IInv, [Next]_vars, NEW a \in Admins, job[a].at = "revoking", job'[a].at # "revoking"
  PROVE  IncrementEpoch(a)
  <1>0. job \in [Requests -> Job] /\ a \in Requests /\ a \notin Visitors
    BY DEF IInv, TypeOK, Requests
  <1>1. ASSUME NEW b \in Admins, AdminStart(b) PROVE FALSE
    BY <1>0, <1>1 DEF AdminStart, InviteMember, RevokeInvitation, ChangeMemberRole,
                      SetMemberStatus, Begin
  <1>2. ASSUME NEW b \in Admins, AdminStep(b), b # a PROVE FALSE
    BY <1>0, <1>2 DEF AdminStep, CheckRole, CheckNotMember, SupersedeOlder, IssueInvitation,
                      CheckOwners, UpdateMember, IncrementEpoch, MarkRevoked, Goto, Done
  <1>3. ASSUME AdminStep(a), ~ IncrementEpoch(a) PROVE FALSE
    BY <1>3 DEF AdminStep, CheckRole, CheckNotMember, SupersedeOlder, IssueInvitation,
                CheckOwners, UpdateMember, MarkRevoked
  <1>4. ASSUME NEW v \in Visitors, VisitorStep(v) PROVE FALSE
    BY <1>0, <1>4 DEF VisitorStep, AcceptInvitation, Join, ReadEpoch, StartSession, Goto, Done
  <1>5. CASE UNCHANGED vars
    BY <1>5 DEF vars
  <1> QED
    BY <1>1, <1>2, <1>3, <1>4, <1>5 DEF Next

LEMMA EpochPassesAll ==
  ASSUME IInv, NEW a \in Admins, IncrementEpoch(a)
  PROVE  /\ \A s \in sessions : s.user = job[a].target => ~ Live(s)'
         /\ \A v \in Visitors :
              job[v].at = "starting" /\ job[v].target = job[a].target
                => job[v].epoch # epoch'[job[a].target]
  <1>1. job[a].target \in People /\ epoch \in [People -> Nat]
    BY DEF IInv, TypeOK, Requests, Job
  <1>2. /\ epoch'[job[a].target] = epoch[job[a].target] + 1
        /\ epoch[job[a].target] \in Nat
    BY <1>1 DEF IncrementEpoch, NextEpoch
  <1>3. ASSUME NEW s \in sessions, s.user = job[a].target PROVE ~ Live(s)'
    <2>1. s.epoch \in Nat /\ s.epoch <= epoch[job[a].target]
      BY <1>3 DEF IInv, TypeOK, Session, SessionsDated
    <2> QED
      BY <1>2, <1>3, <2>1 DEF Live
  <1>4. ASSUME NEW v \in Visitors, job[v].at = "starting", job[v].target = job[a].target
        PROVE  job[v].epoch # epoch'[job[a].target]
    <2>1. job[v].epoch \in Nat /\ job[v].epoch <= epoch[job[a].target]
      BY <1>4 DEF IInv, TypeOK, Requests, Job, Sound, Dated
    <2> QED
      BY <1>2, <2>1
  <1> QED
    BY <1>3, <1>4

---------------------------------------------------------------------------
(* Invitations, with one administrator's request at a time.                  *)

\* Of the invitations to one address only the newest can be open, ...
NewestOpens ==
    \A i, j \in 1 .. Len(invites) : i < j /\ invites[i].email = invites[j].email => ~ invites[i].open
\* ... as whoever is about to write another has all open ones to close.
Superseding(j) ==
    j.at = "committing" =>
      \A i \in 1 .. Len(invites) : invites[i].open /\ invites[i].email = j.target => i \in j.closing
InviteInv == IInv /\ NewestOpens /\ \A a \in Admins : Superseding(job[a])

\* An invitation is added by its own statement; otherwise one is closed, or none.
InvitesClosed ==
    /\ Len(invites') = Len(invites)
    /\ \A i \in 1 .. Len(invites) : /\ invites'[i].email = invites[i].email
                                    /\ invites'[i].open => invites[i].open

LEMMA ClosingOne ==
  ASSUME IInv, NEW i \in 1 .. Len(invites), invites' = [invites EXCEPT ![i].open = FALSE]
  PROVE  InvitesClosed /\ ~ invites'[i].open
  <1>1. invites \in Seq(Invite) /\ invites[i] \in Invite
    BY DEF IInv, TypeOK
  <1>2. invites' = [invites EXCEPT ![i] = [invites[i] EXCEPT !.open = FALSE]]
    BY <1>1
  <1>3. /\ [invites[i] EXCEPT !.open = FALSE].email = invites[i].email
        /\ ~ [invites[i] EXCEPT !.open = FALSE].open
    BY <1>1 DEF Invite
  <1>4. Len(invites') = Len(invites)
    BY <1>1, <1>2
  <1>5. \A k \in 1 .. Len(invites) :
           invites'[k] = IF k = i THEN [invites[i] EXCEPT !.open = FALSE] ELSE invites[k]
    BY <1>1, <1>2
  <1> QED
    BY <1>3, <1>4, <1>5 DEF InvitesClosed

LEMMA InvitesWritten ==
  ASSUME IInv, [Next]_vars
  PROVE  InvitesClosed \/ \E a \in Admins : IssueInvitation(a)
  <1>0. invites' = invites => InvitesClosed
    BY DEF InvitesClosed
  <1>1. ASSUME NEW a \in Admins, AdminStart(a) PROVE InvitesClosed
    BY <1>0, <1>1, ClosingOne DEF AdminStart, InviteMember, RevokeInvitation, ChangeMemberRole,
                                 SetMemberStatus, Begin, KeepsTeam
  <1>2. ASSUME NEW a \in Admins, AdminStep(a), ~ IssueInvitation(a) PROVE InvitesClosed
    BY <1>0, <1>2 DEF AdminStep, CheckRole, CheckNotMember, SupersedeOlder, UpdateMember,
                      CheckOwners, IncrementEpoch, MarkRevoked, KeepsTeam
  <1>3. ASSUME NEW v \in Visitors, Join(v) PROVE InvitesClosed
    <2>1. job[v].invite \in 1 .. Len(invites)
      BY <1>3 DEF Requests, IInv, Join, Sound, Joins
    <2> QED
      BY <1>0, <1>3, <2>1, ClosingOne DEF Join
  <1>4. ASSUME NEW v \in Visitors, VisitorStep(v), ~ Join(v) PROVE InvitesClosed
    BY <1>0, <1>4 DEF VisitorStep, AcceptInvitation, ReadEpoch, StartSession, KeepsTeam
  <1>5. CASE UNCHANGED vars
    BY <1>0, <1>5 DEF vars
  <1> QED
    BY <1>1, <1>2, <1>3, <1>4, <1>5 DEF Next

\* Of all requests only its own statements change what one is doing.
LEMMA OthersWait ==
  ASSUME IInv, [Next]_vars, NEW r \in Requests, job'[r] # job[r]
  PROVE  \/ r \in Admins /\ (AdminStart(r) \/ AdminStep(r))
         \/ r \in Visitors /\ VisitorStep(r)
  <1>0. job \in [Requests -> Job]
    BY DEF IInv, TypeOK
  <1>1. ASSUME NEW b \in Admins, AdminStart(b), b # r PROVE FALSE
    BY <1>0, <1>1 DEF AdminStart, InviteMember, RevokeInvitation, ChangeMemberRole,
                      SetMemberStatus, Begin
  <1>2. ASSUME NEW b \in Admins, AdminStep(b), b # r PROVE FALSE
    BY <1>0, <1>2 DEF AdminStep, CheckRole, CheckNotMember, SupersedeOlder, IssueInvitation,
                      CheckOwners, UpdateMember, IncrementEpoch, MarkRevoked, Goto, Done
  <1>3. ASSUME NEW v \in Visitors, VisitorStep(v), v # r PROVE FALSE
    BY <1>0, <1>3 DEF VisitorStep, AcceptInvitation, Join, ReadEpoch, StartSession, Goto, Done
  <1> QED
    BY <1>1, <1>2, <1>3 DEF Next, vars

LEMMA SupersedingBegins ==
  ASSUME IInv, [Next]_vars, NEW a \in Admins, job'[a].at = "committing"
  PROVE  (job'[a] = job[a] /\ ~ IssueInvitation(a)) \/ SupersedeOlder(a)
  <1>0. job \in [Requests -> Job] /\ a \in Requests /\ a \notin Visitors
        /\ NoJob.at = "idle" /\ NoJob \in Job
    BY NoJobFacts DEF IInv, TypeOK, Requests
  <1>1. ASSUME IssueInvitation(a) PROVE FALSE
    BY <1>0, <1>1 DEF IssueInvitation, Done
  <1>2. CASE job'[a] = job[a]
    BY <1>1, <1>2
  <1>3. ASSUME AdminStart(a), job'[a] # job[a] PROVE FALSE
    <2>1. PICK actor \in People, new \in Job :
             /\ new.at \in {"assigning", "counting"}
             /\ job' = [job EXCEPT ![a] = [new EXCEPT !.actor = actor, !.holder = Holds(actor)]]
      <3>1. PICK actor \in People :
               \/ \E p \in People, role \in Roles : InviteMember(a, actor, p, role)
               \/ \E i \in 1 .. Len(invites) : RevokeInvitation(a, actor, i)
               \/ \E p \in People, role \in Roles : ChangeMemberRole(a, actor, p, role)
               \/ \E p \in People, s \in {"ACTIVE", "SUSPENDED", "REVOKED"} :
                     SetMemberStatus(a, actor, p, s)
        BY <1>3 DEF AdminStart
      <3>2. ASSUME NEW i \in 1 .. Len(invites), RevokeInvitation(a, actor, i) PROVE FALSE
        BY <1>3, <3>2 DEF RevokeInvitation
      <3>3. ASSUME NEW p \in People, NEW role \in Roles, InviteMember(a, actor, p, role)
            PROVE  \E new \in Job :
                      /\ new.at = "assigning"
                      /\ job' = [job EXCEPT ![a] = [new EXCEPT !.actor = actor, !.holder = Holds(actor)]]
        <4> DEFINE new == [NoJob EXCEPT !.op = "INVITE", !.at = "assigning", !.target = p, !.role = role]
        <4>1. new \in Job /\ new.at = "assigning"
          BY NoJobFacts DEF Job, NoJob
        <4>2. Begin(a, actor, new)
          BY <3>3 DEF InviteMember
        <4> HIDE DEF new
        <4> QED
          BY <4>1, <4>2 DEF Begin
      <3>4. ASSUME NEW p \in People, NEW role \in Roles, ChangeMemberRole(a, actor, p, role)
            PROVE  \E new \in Job :
                      /\ new.at = "assigning"
                      /\ job' = [job EXCEPT ![a] = [new EXCEPT !.actor = actor, !.holder = Holds(actor)]]
        <4> DEFINE new == [NoJob EXCEPT !.op = "ROLE", !.at = "assigning", !.target = p,
                                        !.role = role, !.seen = members[p]]
        <4>0. members[p] \in Member
          BY DEF IInv, TypeOK
        <4>1. new \in Job /\ new.at = "assigning"
          BY <4>0, NoJobFacts DEF Job, NoJob
        <4>2. Begin(a, actor, new)
          BY <3>4 DEF ChangeMemberRole
        <4> HIDE DEF new
        <4> QED
          BY <4>1, <4>2 DEF Begin
      <3>5. ASSUME NEW p \in People, NEW s \in {"ACTIVE", "SUSPENDED", "REVOKED"},
                   SetMemberStatus(a, actor, p, s)
            PROVE  \E new \in Job :
                      /\ new.at = "counting"
                      /\ job' = [job EXCEPT ![a] = [new EXCEPT !.actor = actor, !.holder = Holds(actor)]]
        <4> DEFINE new == [NoJob EXCEPT !.op = "STATUS", !.at = "counting", !.target = p,
                                        !.status = s, !.seen = members[p]]
        <4>0. members[p] \in Member
          BY DEF IInv, TypeOK
        <4>1. new \in Job /\ new.at = "counting"
          BY <4>0, NoJobFacts DEF Job, NoJob
        <4>2. Begin(a, actor, new)
          BY <3>5 DEF SetMemberStatus
        <4> HIDE DEF new
        <4> QED
          BY <4>1, <4>2 DEF Begin
      <3> QED
        BY <3>1, <3>2, <3>3, <3>4, <3>5
    <2>2. job'[a].at = new.at
      BY <1>0, <2>1 DEF Job
    <2> QED
      BY <2>1, <2>2
  <1>4. ASSUME AdminStep(a), ~ SupersedeOlder(a), ~ IssueInvitation(a), job'[a] # job[a]
        PROVE  FALSE
    <2>1. job'[a] = NoJob \/ \E step \in {"checking", "counting", "issuing", "updating", "revoking", "marking"} :
                                job'[a] = [job[a] EXCEPT !.at = step]
      <3>1. CASE CheckRole(a)
        BY <1>0, <3>1 DEF CheckRole, Goto, Done
      <3>2. CASE CheckNotMember(a) \/ CheckOwners(a)
        BY <1>0, <3>2 DEF CheckNotMember, CheckOwners, Goto, Done
      <3>3. CASE UpdateMember(a)
        BY <1>0, <3>3 DEF UpdateMember, Goto, Done
      <3>4. CASE IncrementEpoch(a) \/ MarkRevoked(a)
        BY <1>0, <3>4 DEF IncrementEpoch, MarkRevoked, Goto, Done
      <3> QED
        BY <1>4, <3>1, <3>2, <3>3, <3>4 DEF AdminStep
    <2> QED
      BY <1>0, <2>1 DEF Job
  <1> QED
    BY <1>0, <1>1, <1>2, <1>3, <1>4, OthersWait

LEMMA IssueFacts ==
  ASSUME IInv, NEW a \in Admins, IssueInvitation(a)
  PROVE  /\ Len(invites) \in Nat /\ Len(invites') = Len(invites) + 1
         /\ invites'[Len(invites) + 1].email = job[a].target
         /\ \A i \in 1 .. Len(invites) :
               /\ invites'[i].email = invites[i].email
               /\ invites'[i].open => invites[i].open /\ i \notin job[a].closing
  <1> DEFINE older == [i \in 1 .. Len(invites) |->
                         IF i \in job[a].closing THEN [invites[i] EXCEPT !.open = FALSE]
                                                 ELSE invites[i]]
             new == [email |-> job[a].target, role |-> job[a].role, open |-> TRUE,
                     vouched |-> job[a].holder]
  <1>1. invites \in Seq(Invite) /\ Len(invites) \in Nat /\ job[a] \in Job
    BY DEF IInv, TypeOK, Requests
  <1>2. ASSUME NEW i \in 1 .. Len(invites)
        PROVE  /\ older[i] \in Invite /\ older[i].email = invites[i].email
               /\ older[i].open => invites[i].open /\ i \notin job[a].closing
    <2>1. invites[i] \in Invite
      BY <1>1
    <2>2. CASE i \in job[a].closing
      BY <2>1, <2>2 DEF Invite
    <2>3. CASE i \notin job[a].closing
      BY <2>1, <2>3
    <2> QED
      BY <2>2, <2>3
  <1>3. invites' = Append(older, new) /\ new.email = job[a].target
    BY DEF IssueInvitation
  <1>4. older \in Seq(Invite) /\ Len(older) = Len(invites)
    BY <1>1, <1>2
  <1> HIDE DEF older, new
  <1> QED
    BY <1>1, <1>2, <1>3, <1>4

LEMMA InviteInductive ==
  ASSUME \A a, b \in Admins : a = b, InviteInv, [Next]_vars
  PROVE  InviteInv'
  <1>0. IInv /\ IInv' /\ Len(invites) \in Nat
    BY Inductive DEF InviteInv, IInv, TypeOK
  <1>1. CASE InvitesClosed
    <2>1. NewestOpens'
      BY <1>1 DEF InvitesClosed, InviteInv, NewestOpens
    <2>2. ASSUME NEW a \in Admins, job'[a].at = "committing", NEW i \in 1 .. Len(invites),
                 invites'[i].open, invites'[i].email = job'[a].target
          PROVE  i \in job'[a].closing
      <3>1. invites[i].open /\ invites[i].email = job'[a].target
        BY <1>1, <2>2 DEF InvitesClosed
      <3>2. CASE job'[a] = job[a]
        BY <2>2, <3>1, <3>2 DEF InviteInv, Superseding
      <3>3. CASE SupersedeOlder(a)
        <4>1. job[a] \in Job /\ job \in [Requests -> Job] /\ a \in Requests
          BY <1>0 DEF IInv, TypeOK, Requests
        <4>2. job'[a].closing = Outstanding(a) /\ job'[a].target = job[a].target
          BY <3>3, <4>1 DEF SupersedeOlder, Job
        <4> QED
          BY <3>1, <4>2 DEF Outstanding
      <3> QED
        BY <1>0, <2>2, <3>2, <3>3, SupersedingBegins
    <2>3. \A a \in Admins : Superseding(job[a])'
      BY <1>1, <2>2 DEF Superseding, InvitesClosed
    <2> QED
      BY <1>0, <2>1, <2>3 DEF InviteInv
  <1>2. ASSUME NEW a \in Admins, IssueInvitation(a) PROVE InviteInv'
    <2>1. /\ Len(invites') = Len(invites) + 1
          /\ invites'[Len(invites) + 1].email = job[a].target
          /\ \A i \in 1 .. Len(invites) :
                /\ invites'[i].email = invites[i].email
                /\ invites'[i].open => invites[i].open /\ i \notin job[a].closing
      BY <1>0, <1>2, IssueFacts
    <2>2. \A i \in 1 .. Len(invites) :
             invites[i].open /\ invites[i].email = job[a].target => i \in job[a].closing
      BY <1>2 DEF IssueInvitation, InviteInv, Superseding
    <2>3. NewestOpens'
      <3> SUFFICES ASSUME NEW i \in 1 .. Len(invites'), NEW j \in 1 .. Len(invites'), i < j,
                          invites'[i].email = invites'[j].email, invites'[i].open
                   PROVE  FALSE
        BY DEF NewestOpens
      <3>1. i \in 1 .. Len(invites) /\ (j \in 1 .. Len(invites) \/ j = Len(invites) + 1)
        <4>1. Len(invites) \in Nat
          BY <1>0 DEF InviteInv, IInv, TypeOK
        <4>2. Len(invites') = Len(invites) + 1
          BY <2>1
        <4> QED
          BY <4>1, <4>2
      <3> QED
        BY <2>1, <2>2, <3>1 DEF InviteInv, NewestOpens
    <2>4. \A b \in Admins : job'[b].at # "committing"
      <3>1. ASSUME NEW b \in Admins, job'[b].at = "committing" PROVE FALSE
        <4>1. b = a /\ job[a].at = "committing"
          BY <1>2 DEF IssueInvitation
        <4>2. SupersedeOlder(a)
          BY <1>0, <1>2, <3>1, <4>1, SupersedingBegins
        <4> QED
          BY <4>1, <4>2 DEF SupersedeOlder
      <3> QED
        BY <3>1
    <2> QED
      BY <1>0, <2>3, <2>4 DEF InviteInv, Superseding
  <1> QED
    BY <1>0, <1>1, <1>2, InvitesWritten

\* Whoever joins uses up the newest link to their address.
LEMMA JoinConsumes ==
  ASSUME InviteInv, [Next]_vars, NEW v \in Visitors, NEW p \in People,
         job[v].at = "joining", job'[v].at = "signing", members'[p] # members[p]
  PROVE  \E i \in 1 .. Len(invites) :
            /\ invites[i].open /\ ~ invites'[i].open
            /\ invites[i].email = p /\ invites[i].role = members'[p].role
            /\ \A j \in 1 .. Len(invites) : j > i => invites[j].email # p
  <1>0. IInv /\ job \in [Requests -> Job] /\ v \in Requests /\ v \notin Admins
        /\ members \in [People -> Member]
    BY DEF InviteInv, IInv, TypeOK, Requests
  <1>1. VisitorStep(v)
    BY <1>0, OthersWait
  <1>2. ASSUME NEW a \in Admins, UpdateMember(a) PROVE FALSE
    BY <1>0, <1>2 DEF UpdateMember, Done, Goto
  <1>3. PICK w \in Visitors : Join(w) /\ StillOpen(w)
    BY <1>2, MembersWritten
  <1>4. w = v
    BY <1>0, <1>3 DEF Join, Goto
  <1> DEFINE i == job[v].invite
  <1>5. /\ i \in 1 .. Len(invites) /\ invites[i].open
        /\ invites' = [invites EXCEPT ![i].open = FALSE]
        /\ members' = [members EXCEPT ![invites[i].email] =
                         [status |-> "ACTIVE", role |-> invites[i].role]]
    BY <1>0, <1>3, <1>4 DEF Join, StillOpen, IInv, Sound, Joins
  <1> HIDE DEF i
  <1>6. invites[i].email = p /\ members'[p].role = invites[i].role
    BY <1>0, <1>5
  <1>7. ~ invites'[i].open
    BY <1>0, <1>5, ClosingOne
  <1>8. \A j \in 1 .. Len(invites) : j > i => invites[j].email # p
    BY <1>5, <1>6 DEF InviteInv, NewestOpens
  <1> QED
    BY <1>5, <1>6, <1>7, <1>8

---------------------------------------------------------------------------
(* The theorems. *)

\* The tables and the requests of a reachable state are well formed; no request
\* follows a link, or changes a membership, that is not there.
THEOREM TypeCorrect == Spec => []TypeOK
  BY Initially, Inductive, PTL DEF Spec, IInv

\* However many administrators work at once, and whatever they are demoted to
\* meanwhile, no permission comes from nowhere (findAssignableRole).
THEOREM PermissionsComeFromHolders == Spec => PermissionsAreHandedOn
  <1>1. IInv /\ [Next]_vars => [HandsOn]_vars
    <2> SUFFICES ASSUME IInv, [Next]_vars, NEW p \in People, RoleOf(p)' \ RoleOf(p) # {}
                 PROVE  \/ \E a \in Admins : /\ job[a].at = "updating" /\ job[a].target = p
                                             /\ RoleOf(p)' \ RoleOf(p) \subseteq job[a].holder
                        \/ \E i \in 1 .. Len(invites) :
                              /\ invites[i].open /\ ~ invites'[i].open
                              /\ invites[i].email = p
                              /\ RoleOf(p)' \ RoleOf(p) \subseteq invites[i].vouched
      BY DEF HandsOn
    <2>1. CASE members' = members
      BY <2>1 DEF RoleOf
    <2> QED
      BY <2>1, MembersWritten, UpdateHandsOn, JoinHandsOn
  <1> QED
    BY <1>1, Initially, Inductive, PTL DEF Spec, PermissionsAreHandedOn

\* However many sign-ins run beside it, a request that takes somebody's access
\* leaves no session of theirs alive (revokeAllSessions, createSession).
THEOREM RemovedAreSignedOut == Spec => RemovalEndsSessions
  <1>1. IInv /\ [Next]_vars => [SessionsEnd]_vars
    <2> SUFFICES ASSUME IInv, [Next]_vars, NEW a \in Admins,
                        job[a].at = "revoking", job'[a].at # "revoking"
                 PROVE  /\ \A s \in sessions : s.user = job[a].target => ~ Live(s)'
                        /\ \A v \in Visitors :
                             job[v].at = "starting" /\ job[v].target = job[a].target
                               => job[v].epoch # epoch'[job[a].target]
      BY DEF SessionsEnd
    <2> QED
      BY RevokingEnds, EpochPassesAll
  <1> QED
    BY <1>1, Initially, Inductive, PTL DEF Spec, RemovalEndsSessions

\* With one administrator's request at a time, an address has one link that
\* works, and whoever becomes a member has used up that link, the newest, however
\* many follow it at once (inviteMember, acceptInvitation).
THEOREM OneLinkOneMember ==
  ASSUME \A a, b \in Admins : a = b
  PROVE  Spec => InvitationsWorkOnce
  <1>1. Init => InviteInv
    <2>1. Init => Len(invites) = 0 /\ \A a \in Admins : job[a] = NoJob
      BY DEF Init, Requests
    <2> QED
      BY <2>1, Initially, NoJobFacts DEF InviteInv, NewestOpens, Superseding
  <1>2. InviteInv /\ [Next]_vars => InviteInv'
    BY InviteInductive
  <1>3. InviteInv => TypeOK /\ OneOpenInvitation
    <2>1. InviteInv => TypeOK /\ Len(invites) \in Nat
      BY DEF InviteInv, IInv, TypeOK
    <2> QED
      BY <2>1 DEF InviteInv, NewestOpens, OneOpenInvitation
  <1>4. InviteInv /\ [Next]_vars =>
          [\A v \in Visitors, p \in People :
             job[v].at = "joining" /\ job'[v].at = "signing" /\ members'[p] # members[p]
               => \E i \in 1 .. Len(invites) :
                     /\ invites[i].open /\ ~ invites'[i].open
                     /\ invites[i].email = p /\ invites[i].role = members'[p].role
                     /\ \A j \in 1 .. Len(invites) : j > i => invites[j].email # p]_vars
    BY JoinConsumes
  <1> QED
    BY <1>1, <1>2, <1>3, <1>4, PTL DEF Spec, InvitationsWorkOnce, JoiningConsumesAnInvitation
=============================================================================
