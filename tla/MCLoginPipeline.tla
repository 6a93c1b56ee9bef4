-------------------------- MODULE MCLoginPipeline --------------------------
(***************************************************************************)
(* LoginPipeline for TLC: one user or two, with the accounts and settings  *)
(* that a project can have: an email address where one must be verified.   *)
(***************************************************************************)
EXTENDS LoginPipeline, TLC

CONSTANTS u1, u2

(* Browsers may be trusted, and codes are required of some logins. *)
MainSettings ==
    {s \in AllSettings :
        /\ s.users = {u1} /\ s.codeTrust /\ s.mfaTrust
        /\ <<s.code, s.phone>> \in {<<"password", "required">>,
                                    <<"always", "optional">>}
        /\ s.email # "link"}

(* The process of an email code is the session's, not the login's. No code *)
(* verifies a phone number: who does so may get the process of the login   *)
(* before (see README.md).                                                 *)
ByCodeSettings ==
    {s \in AllSettings :
        /\ s.users = {u1}
        /\ s.email = "code" /\ s.code = "password" /\ s.phone = "off"
        /\ ~s.codeTrust /\ s.mfaTrust}

AloneOrShared ==
    MainSettings \cup {[s EXCEPT !.users = User] : s \in ByCodeSettings}

NewAccount ==
    [exists |-> FALSE, active |-> TRUE, mfa |-> FALSE, email |-> "none",
     phone |-> "none"]

(* Accounts with an address to verify or one that is verified, with and    *)
(* without an authenticator, and one that is yet to be made.               *)
WithEmail ==
    {a \in AllAccounts :
        /\ a.exists /\ a.active
        /\ <<a.email, a.phone>> \in {<<"unverified", "unverified">>,
                                     <<"verified", "none">>}} \cup {NewAccount}
=============================================================================
