-------------------------- MODULE MCAuthentication --------------------------
(***************************************************************************)
(* A small instance of Authentication for TLC: two organisations under     *)
(* com and two under co.uk; the sender's domain and the one it includes    *)
(* have every pair of the records below.                                   *)
(***************************************************************************)
EXTENDS Authentication

A == <<"a", "com">>
M == <<"m", "a", "com">>
B == <<"b", "co", "uk">>
C == <<"c", "co", "uk">>

MCTwoPartTLDs == {<<"co", "uk">>}

Mech(kind, q) == [kind |-> kind, q |-> q]
IP4(q, match) == [kind |-> "ip4", q |-> q, match |-> match]
Include(q, d) == [kind |-> "include", q |-> q, domain |-> d]

SenderRecords ==
  {<<Include("", B), Mech("all", q)>> : q \in {"", "-"}} \cup
  {<<IP4("-", match), Include("", B), Mech("mx", "+")>> : match \in BOOLEAN} \cup
  {<<Mech("a", ""), Include("+", B), [kind |-> "ip6", q |-> "-", match |-> TRUE]>>,
   <<Mech("a", "-"), Include("", B), Include("", C)>>,
   <<Include("", A), Mech("all", "-")>>}

IncludedRecords ==
  {<<Mech("mx", ""), Mech("all", "-")>>, <<IP4("", TRUE)>>,
   <<[kind |-> "ip6", q |-> "", match |-> TRUE], Mech("all", "~")>>,
   <<Include("", C), Mech("all", "-")>>, <<Mech("all", "?")>>}

Txt(rec, host) == [txt |-> "spf", rec |-> rec, host |-> host]
NoSPF(txt) == [txt |-> txt, rec |-> <<>>, host |-> {}]

MCZones ==
  {[d \in {A, B, C} |->
      CASE d = A -> Txt(rec, host) [] d = B -> inc [] d = C -> last] :
    rec \in SenderRecords,
    host \in {{}, {"a", "mx"}},
    inc \in {Txt(r, {"mx"}) : r \in IncludedRecords}
            \cup {NoSPF("other"), NoSPF("absent")},
    last \in {Txt(<<Mech("all", "+")>>, {}), Txt(<<Mech("all", "-")>>, {})}}

Valid(d) == [domain |-> d, err |-> ""]
MCSignatures ==
  {<<>>, <<Valid(M)>>, <<[domain |-> A, err |-> "DNS"], Valid(C)>>,
   <<[domain |-> M, err |-> "key not found"], [domain |-> A, err |-> "hash"]>>}

Policy(p, s, k) == [policy |-> p, aspf |-> s, adkim |-> k]
MCPolicies ==
  {Policy("none", "relaxed", "relaxed"), Policy("reject", "strict", "relaxed"),
   Policy("reject", "relaxed", "strict"), Policy("quarantine", "relaxed", "strict")}

Server(s, k, d, e) == [spf |-> s, dkim |-> k, dmarc |-> d, enforcement |-> e]
MCConfigs ==
  {Server(TRUE, TRUE, TRUE, "strict"), Server(TRUE, FALSE, TRUE, "relaxed"),
   Server(FALSE, TRUE, FALSE, "none")}

MCMailFroms == {<<>>, <<A>>, <<B>>, <<B, A>>}

\* No @, one address, several addresses, and a quoted @ in one address.
Header(address, ats) == [address |-> address, ats |-> ats]
MCFroms ==
  {Header(FALSE, <<>>), Header(TRUE, <<A>>), Header(FALSE, <<B, M>>),
   Header(TRUE, <<B>>), Header(TRUE, <<B, A>>)}
=============================================================================
