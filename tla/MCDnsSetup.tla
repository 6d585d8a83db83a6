----------------------------- MODULE MCDnsSetup -----------------------------
(***************************************************************************)
(* A small instance of DnsSetup for TLC.  The mail host is mail.eu.base:   *)
(* it has a name in the zone of its last two labels and one in the zone    *)
(* sub (eu.base) below; the domain shop is not the host's.                 *)
(***************************************************************************)
EXTENDS DnsSetup, TLC

Symmetry == Permutations(Runners)

R(id, type, name, data) == [id |-> id, rec |-> Rec(type, name, data)]

MCLabel == ("base" :> "mail.eu") @@ ("sub" :> "mail")

\* A zone with a record of this host under some name.
Own(label) == {R(1, "A", label, "ip"), R(5, "NS", "@", "ns1")}

\* A zone with a legacy record of this host, a record of another host and
\* records that share type and name.
Shop == {R(2, "A", "www", "ip"), R(3, "A", "api", "other"),
         R(4, "TXT", "@", "verification"), R(7, "TXT", "@", "elsewhere")}

MCZones ==
  {("base" :> {}) @@ ("sub" :> Own("www")) @@ ("shop" :> {}),
   ("base" :> Own("mail.eu")) @@ ("sub" :> {}) @@ ("shop" :> Shop)}

MCHosts == {<<"note", "local", "oldself">>, <<"bare", "other">>, <<"other">>}
=============================================================================
