----------------------------- MODULE MCAuthGate -----------------------------
(* A person and a service, two groups, one that is not configured, and a     *)
(* handler of every kind.                                                    *)
EXTENDS AuthGate

CONSTANTS ann, svc, staff, admins

Over(group) == [op |-> "has", group |-> group]

MCRule ==
  [staff |-> Over(staff), admins |-> Over(admins), unset |-> Over(Unconfigured),
   both |-> [op |-> "and", left |-> "staff", right |-> "admins"],
   either |-> [op |-> "or", left |-> "both", right |-> "unset"],
   any |-> [op |-> "or", left |-> "staff", right |-> "admins"],
   outsiders |-> [op |-> "not", left |-> "any"]]

MCRoute ==
  {<<"MaybeAuthenticated">>, <<"Authenticated">>, <<"ServiceAccount", "any">>,
   <<"staff", "admins">>, <<"either">>, <<"MaybeAuthenticated", "outsiders">>, <<"any">>}

=============================================================================
