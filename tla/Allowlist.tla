----------------------------- MODULE Allowlist -----------------------------
(***************************************************************************)
(* app/runtime/proxy.py: how the entries of EGRESS_ALLOWLIST become the    *)
(* domains of squid.conf.  A name is the sequence of its labels, and an    *)
(* entry is a name in one of the forms that an operator may write: "host"  *)
(* ("pypi.org"), "dot" (".pypi.org"), "star" ("*.pypi.org"), or "blank"    *)
(* (nothing between two commas).                                           *)
(***************************************************************************)
EXTENDS Naturals, Sequences, SequencesExt

\* squid's dstdomain: ".pypi.org" matches pypi.org and all that is under it.
Covers(domain, host) == IsSuffix(domain, host)

Matches(domains, host) == \E d \in domains : Covers(d, host)

\* EgressProxy.allowlist: the setting, split at the commas.
Entries(setting) ==
    {setting[i] : i \in {j \in DOMAIN setting : setting[j].form # "blank"}}

\* _normalize_domain: each form becomes squid's.
Normalize(entry) == entry.name

\* Mutant: sort(reverse=True).
ShortestLast(domains) ==
    CHOOSE s \in SetToSeqs(domains) :
        \A i, j \in DOMAIN s : i < j => Len(s[i]) >= Len(s[j])

\* sorted(set(...), key=len): those of one length come in any order.
ShortestFirst(domains) ==
    CHOOSE s \in SetToSeqs(domains) :
        \A i, j \in DOMAIN s : i < j => Len(s[i]) <= Len(s[j])

CoveredBy(kept, d) == \E parent \in kept : Covers(parent, d) /\ d # parent

\* _dedup_subdomains.
Dedup(domains) ==
    FoldLeft(LAMBDA kept, d : IF CoveredBy(kept, d) THEN kept ELSE kept \cup {d},
             {}, ShortestFirst(domains))

\* A name that no host has.
NeverAllowed == <<"never-allowed", "invalid">>

\* render_squid_conf: the domains of the ACL.
Render(entries) ==
    LET domains == Dedup({Normalize(e) : e \in entries})
    IN  IF domains = {} THEN {NeverAllowed} ELSE domains
=============================================================================
