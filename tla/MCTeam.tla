------------------------------ MODULE MCTeam ------------------------------
(* Small instances of Team for TLC. *)
EXTENDS Team

\* An Owner, a manager who may manage users but holds less, and a clerk.
SmallGrants == [r \in {"OWNER", "MANAGER", "STAFF"} |->
                  CASE r = "OWNER"   -> {"users.manage", "company.manage"}
                    [] r = "MANAGER" -> {"users.manage"}
                    [] OTHER         -> {}]
=============================================================================
