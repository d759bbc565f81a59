----------------------------- MODULE MCDeployment ------------------------------
EXTENDS Deployment

CONSTANTS n1, n2, seed1, seed2, home, moved

MCNetworks == {n1, n2}
MCMnemonics == {seed1, seed2}
MCDomains == {home, moved}
MCStarts == {{}}

Env(chains, second, domain, file) ==
    [chains |-> chains, url |-> [n \in MCNetworks |-> "wss"],
     mnemonic |-> [n \in MCNetworks |-> IF n = n1 THEN seed1 ELSE second],
     domain |-> domain, privateKey |-> TRUE, peerFile |-> file, bootstrap |-> FALSE]

(* Both networks; the same mnemonic twice; one network, another domain and no
   peer id. *)
MCEnvironments ==
    {Env({n1, n2}, seed2, home, TRUE), Env({n1, n2}, seed1, home, TRUE),
     Env({n1}, "unset", moved, FALSE)}

Stored(fee, curse) ==
    [exists |-> TRUE, domain |-> home,
     terms |-> [f \in Terms |-> CASE f = "fee" -> fee [] f = "curse" -> curse [] OTHER -> 9]]

Acc(profile, allowance) ==
    [profile |-> profile, bond |-> 2, wallet |-> 3, allowance |-> allowance, rewards |-> 1]

(* On n2 nothing yet, or what a registration has left that ended after its
   approval. *)
MCAccounts ==
    {[n \in MCNetworks |-> IF n = n1 THEN Acc(Stored(1, 4), 1) ELSE Acc(NoProfile, a)] :
        a \in {0, 9}}
MCOtherProfiles == {Stored(2, 5)}

Opt(fee, rewrap, maxRes, curse) ==
    [f \in Terms |-> CASE f = "fee" -> fee [] f = "rewrap" -> rewrap
                       [] f = "maxRes" -> maxRes [] OTHER -> curse]

Req(name, net, terms, amount, domain) ==
    [name |-> name, net |-> net, terms |-> terms, amount |-> amount, domain |-> domain]

NoTerms == Opt(-1, -1, -1, -1)

MCRequests ==
    {Req("register", n2, Opt(5, 7, 8, 1), 2, FALSE),
     Req("register", n2, Opt(5, 7, -1, 1), 2, FALSE),
     Req("guided", n2, NoTerms, -1, FALSE),
     Req("update", n1, Opt(5, 0, -1, -1), -1, FALSE),
     Req("update", n1, Opt(5, -1, -1, 0), 1, TRUE),
     Req("update", n2, Opt(-1, -1, 1, 0), 2, FALSE),
     Req("deposit", n1, NoTerms, 2, FALSE),
     Req("deposit", n1, NoTerms, 0, FALSE),
     Req("withdrawAll", n1, NoTerms, -1, FALSE),
     Req("claim", n1, NoTerms, -1, FALSE)}

MCAnswers ==
    {[maxRes |-> 12, rewrap |-> [unit |-> "default", n |-> 0], fee |-> 5, curse |-> 1],
     [maxRes |-> 3, rewrap |-> [unit |-> "days", n |-> 3], fee |-> 5, curse |-> 1]}
MCBonds == {0, 2}
MCBlockTimes == {10}

=============================================================================
