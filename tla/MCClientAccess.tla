---------------------------- MODULE MCClientAccess ----------------------------
(* A host with two accounts, two policies and a user in one group.           *)
EXTENDS ClientAccess, TLC

Row(status, account, tier) ==
    [status |-> status, user |-> account, name |-> <<"w", "1">>, tags |-> ("tier" :> tier)]

Healthy == {Row("healthy", "root", "a"), Row("healthy", "ops", "b")}
Rows == Healthy \cup {Row("revoked", "root", "a")}

\* By group and wildcard for one account, by claim and tag for the other until it expires.
Team == [principal |-> [form |-> "bare", value |-> "team"],
         selector |-> [form |-> "glob", pattern |-> <<"w", "*">>],
         users |-> {"root"}, expires |-> Never]
Tier == [principal |-> [form |-> "pair", claim |-> "dept", value |-> "infra"],
         selector |-> [form |-> "tag", key |-> "tier", value |-> "a"],
         users |-> {"root", "ops"}, expires |-> 3]
Both == {Team, Tier}

Member == [groups |-> {"team"}, custom |-> ("dept" :> {"infra"})]
=============================================================================
