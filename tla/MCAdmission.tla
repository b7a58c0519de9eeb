----------------------------- MODULE MCAdmission -----------------------------
(* A small instance of Admission for TLC: names of 0, 4, 5 and 6 bytes where  *)
(* 5 are allowed, one of 5 with U+FFFD in it and one with an unpaired        *)
(* surrogate, which is encoded like that; peer ids of two bits, every        *)
(* environment to start with and a few to deploy later.                      *)
EXTENDS Admission

MCTexts == {"", "home", "limit", "longer", "replaced"}
MCNames == MCTexts \cup {"unpaired"}
MCEncoded == [n \in MCNames |-> IF n = "unpaired" THEN "replaced" ELSE n]
MCDecoded == [t \in MCTexts |-> t]
MCBytes == [t \in MCTexts |-> CASE t = "" -> 0 [] t = "home" -> 4 [] t = "longer" -> 6
                                [] t \in {"limit", "replaced"} -> 5]

Entry(n, s) == [network_name |-> n, network_secret |-> s]
Env(k, n, f, h) == [keys |-> k, networks |-> n, frame |-> f, hostname |-> h]

\* Every way to configure up to two rooms, and every other variable at and
\* around its limits.
Entries  == {Entry(n, s) : n \in MCNames \cup {NotText}, s \in Secrets \cup {NotText}}
                \cup {NotAnObject}
Networks == {NotAnArray} \cup UNION {[1 .. k -> Entries] : k \in 0 .. 2}
ManyEnvs == {Env("pair1", n, MinFrame, "valid") : n \in Networks}
    \cup {Env(k, <<Entry("home", "s1")>>, f, h) :
              k \in {"missing", "undecodable", "zero", "mismatched", "pair1"},
              f \in {0, MinFrame - 1, MinFrame, MaxFrame, MaxFrame + 1, NotANumber},
              h \in {"valid", "empty", "long"}}

\* Environments to deploy in turn: a room withdrawn, a secret changed, keys
\* changed, keys that do not match and a configuration that is not read.
FewEnvs ==
    {Env("pair1", <<Entry("home", "s1"), Entry("limit", "s2")>>, MinFrame, "valid"),
     Env("pair1", <<Entry("home", "s2")>>, MaxFrame, "valid"),
     Env("pair2", <<Entry("home", "s1")>>, MinFrame, "valid"),
     Env("mismatched", <<Entry("home", "s1")>>, MinFrame, "valid"),
     Env("missing", <<Entry("home", "s1")>>, MinFrame, "valid")}

AllEnvs == ManyEnvs \cup FewEnvs
=============================================================================
