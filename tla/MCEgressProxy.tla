--------------------------- MODULE MCEgressProxy ---------------------------
(***************************************************************************)
(* A small instance of EgressProxy for TLC: settings whose entries repeat  *)
(* and cover one another in every form, in both orders, and an empty one.  *)
(***************************************************************************)
EXTENDS EgressProxy

Entry(form, name) == [form |-> form, name |-> name]
Blank == Entry("blank", <<>>)

pypi == <<"pypi", "org">>
hosted == <<"hosted", "org">>
files == <<"files", "hosted", "org">>

SmallLabels == {"a", "files", "hosted", "org", "pypi"}

SmallSettings ==
    {<<Entry("host", pypi), Entry("dot", files), Entry("star", hosted)>>,
     <<Entry("host", files), Blank, Entry("dot", pypi), Entry("host", pypi)>>,
     <<Blank>>}

SmallHosts ==
    {pypi, hosted, files, <<"a">> \o pypi, <<"a">> \o hosted, <<"a">> \o files, <<"org">>}

AllHazards == {"fault", "crash", "redeploy", "stop"}
=============================================================================
