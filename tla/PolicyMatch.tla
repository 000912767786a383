------------------------------ MODULE PolicyMatch ------------------------------
(***************************************************************************)
(* The policy engine of internal/core: which policies allow which caller   *)
(* on which host, and the wildcard matcher of its host selectors.          *)
(*                                                                         *)
(* A string that is only compared is a value; the text of a selector       *)
(* pattern and of a host name is a sequence of letters.  A principal and a *)
(* selector are records of what the code parses them into:                 *)
(*   [form |-> "bare", value]            the principal has no "="          *)
(*   [form |-> "pair", claim, value]     claim=value, spaces trimmed       *)
(*   [form |-> "tag", key, value]        tag:key=value, spaces trimmed     *)
(*   [form |-> "glob", pattern]          anything else                     *)
(* "" is the empty string; tag: without "=" is a tag with an empty key.    *)
(***************************************************************************)
EXTENDS Integers, SequencesExt

Star == "*"
Never == -1   \* policies.expires_at is NULL

-----------------------------------------------------------------------------
(* wildcardMatches                                                         *)

\* strings.Split(pattern, "*")
Split(pattern) ==
    FoldLeft(LAMBDA parts, ch : IF ch = Star THEN Append(parts, <<>>)
                                ELSE [parts EXCEPT ![Len(parts)] = Append(@, ch)],
             << <<>> >>, pattern)

\* strings.Index: the leftmost occurrence, or -1.
Index(s, part) ==
    LET at == {i \in 0 .. Len(s) - Len(part) : SubSeq(s, i + 1, i + Len(part)) = part}
    IN  IF at = {} THEN -1 ELSE Min(at)

\* One turn of the loop over the parts: what is left of the value, or ok = FALSE.
ConsumeAnywhere(pattern, parts, left, i) ==   \* mutant: the first part is not anchored
    LET part == parts[i]
        idx  == Index(left.rest, part)
    IN  IF ~left.ok \/ part = <<>> THEN left
        ELSE [ok |-> idx >= 0, rest |-> SubSeq(left.rest, idx + Len(part) + 1, Len(left.rest))]

Consume(pattern, parts, left, i) ==
    LET part == parts[i]
        idx  == Index(left.rest, part)
    IN  IF ~left.ok \/ part = <<>> THEN left
        ELSE IF i = 1 /\ Head(pattern) # Star
             THEN [ok |-> IsPrefix(part, left.rest),
                   rest |-> SubSeq(left.rest, Len(part) + 1, Len(left.rest))]
             ELSE [ok |-> idx >= 0,
                   rest |-> SubSeq(left.rest, idx + Len(part) + 1, Len(left.rest))]

wildcardMatches(pattern, value) ==
    LET parts == Split(pattern)
        end   == FoldLeft(LAMBDA left, i : Consume(pattern, parts, left, i),
                          [ok |-> TRUE, rest |-> value], [i \in DOMAIN parts |-> i])
    IN  \/ pattern = <<Star>>
        \/ /\ \A i \in DOMAIN pattern : pattern[i] # Star
           /\ pattern = value
        \/ /\ \E i \in DOMAIN pattern : pattern[i] = Star
           /\ end.ok
           /\ Last(pattern) = Star \/ IsSuffix(Last(parts), value)

\* What a wildcard means, by prefixes: the first i of the pattern produce the first j of
\* the value.  A reference, not code.
Glob(pattern, value) ==
    LET match[i \in 0 .. Len(pattern), j \in 0 .. Len(value)] ==
            IF i = 0 THEN j = 0
            ELSE IF pattern[i] = Star
                 THEN match[i - 1, j] \/ (j > 0 /\ match[i, j - 1])
                 ELSE j > 0 /\ pattern[i] = value[j] /\ match[i - 1, j - 1]
    IN  match[Len(pattern), Len(value)]

GlobAgrees(letters, maxPattern, maxName) ==
    \A pattern \in BoundedSeq(letters \cup {Star}, maxPattern), value \in BoundedSeq(letters, maxName) :
        wildcardMatches(pattern, value) = Glob(pattern, value)

-----------------------------------------------------------------------------
(* Policies                                                                *)

hostSelectorMatches(selector, host) ==
    IF selector.form = "tag"
    THEN /\ selector.key # "" /\ selector.value # ""
         /\ selector.key \in DOMAIN host.tags /\ host.tags[selector.key] = selector.value
    ELSE wildcardMatches(selector.pattern, host.name)

policyPrincipalMatches(claims, principal) ==
    CASE principal.form = "bare" -> principal.value \in claims.groups
      [] principal.form = "pair" ->
            /\ principal.claim # "" /\ principal.value # ""
            /\ IF principal.claim = "groups"
               THEN principal.value \in claims.groups
               ELSE /\ principal.claim \in DOMAIN claims.custom
                    /\ principal.value \in claims.custom[principal.claim]

PolicyAllows(claims, host, policy, now) ==
    /\ policyPrincipalMatches(claims, policy.principal)
    /\ hostSelectorMatches(policy.selector, host)
    /\ policy.expires = Never \/ policy.expires > now

PolicyAllowsSSHUser(claims, host, policy, user, now) ==
    PolicyAllows(claims, host, policy, now) /\ user \in policy.users
=============================================================================
