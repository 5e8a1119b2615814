-------------------------- MODULE MCArtifactCache --------------------------
EXTENDS ArtifactCache

MCFiles == <<"cfg", "tok">>
MCCalls == {"fetch", "verify", "load", "mirror", "export", "import"}

Host(kind, closed) == [source |-> kind, closed |-> closed]
Start(host, file, marker, source, archive) ==
  [conf |-> host, file |-> file, marker |-> marker, mirror |-> source, archive |-> archive]
TokAlone(bytes) == [Nothing EXCEPT !["tok"] = bytes]

\* Nothing cached beside a whole archive; a damaged and incomplete directory
\* beside a torn one; a local source that lacks a member; hosts that may not
\* fetch, beside an archive of another family or with a complete cache.
MCStarts ==
  {Start(Host("net", FALSE), Nothing, FALSE, Nothing, "whole"),
   Start(Host("local", FALSE), TokAlone("bad"), FALSE, AllGood, "torn"),
   Start(Host("local", FALSE), TokAlone("good"), FALSE, TokAlone("good"), "torn"),
   Start(Host("net", TRUE), Nothing, FALSE, Nothing, "foreign"),
   Start(Host("net", TRUE), AllGood, TRUE, Nothing, "absent")}
=============================================================================
