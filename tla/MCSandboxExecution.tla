------------------------- MODULE MCSandboxExecution -------------------------
EXTENDS SandboxExecution, TLC

MCRegistered == <<"daytona", "computesdk">>
MCNames == [daytona |-> <<"api_key">>, computesdk |-> <<"api_key", "token_id", "token_secret">>]
MCUpstreams == {{"api_key"}, {"token_id"}}
MCSingles == {<<"repo", "api_key">>, <<"org", "api_key">>}

\* Once a job was handed over it no longer looks at secrets, and nothing looks
\* at the bridge but jobs for it: the other steps commute and are not taken. A
\* job for the second provider reads a name first that requests for its other
\* upstream do not store: the request steps go after that.
HandedOver == job.pc \notin {"idle", "repo", "org", "bootstrap", "dispatch"}
Apart ==
  /\ HandedOver => UNCHANGED reqs
  /\ (job.provider = Bridge /\ job.pc \in {"repo", "org", "bootstrap"} /\ job.creds = <<>>) =>
       UNCHANGED reqs
  /\ (bridge' # bridge \/ health' # health) =>
       job.pc \in (IF job.provider = None THEN {"dispatch", "probe", "post"} ELSE {"probe", "post"})

\* ... and what they left behind, unchanged since, was looked at before.
Seen == <<IF HandedOver THEN <<>> ELSE <<secrets, reqs>>, job, sandbox, bridge, health,
          faults, moves>>

\* Requests for names that have to do with each other, a token's with an optional
\* secret, but for disconnects of a provider that has them; a job for the first
\* provider that has them, or for none. Beside a job for the second provider
\* connects store both names, nobody disconnects and it misses no repository:
\* beside the first's they do, and it does.
Related ==
  \E u \in {{"api_key"}, {"token_id", "token_secret"}} :
    /\ \A q \in Requests : LET names == {k[2] : k \in reqs[q].keys} IN
         names \subseteq u \/ (reqs[q].kind = "disconnect" /\ u \subseteq names)
    /\ job.provider \in {None, SelectSeq(Registered, LAMBDA p : u \subseteq Range(Names[p]))[1]}
    /\ job.provider = Bridge => /\ \A q \in Requests : reqs[q].keys \in {{}, OrgKeys(u)}
                                /\ job.strays # {} => \A q \in Requests : reqs[q].pc = "idle"

Symmetry == Permutations(Requests)
=============================================================================
