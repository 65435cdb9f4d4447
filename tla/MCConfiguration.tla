---------------------------- MODULE MCConfiguration ----------------------------
(***************************************************************************)
(* Instances of Configuration for TLC: a table of 4 threads and counts     *)
(* below 10 that stand for uint32_t; ports are real, with one that does    *)
(* not fit 16 bits.                                                        *)
(***************************************************************************)
EXTENDS Configuration

At(host, port) == [host |-> host, form |-> "number", port |-> port]
HostOnly(host) == [host |-> host, form |-> "none"]
NoPort(host) == [host |-> host, form |-> "bad"]

MCCommandLines ==
  { << >>,
    [wallet |-> "w1"],
    [wallet |-> NoWallet, bind |-> "b1"],
    [wallet |-> "w1", pools |-> <<At("h1", 70000), HostOnly("h2")>>],
    [pools |-> <<NoPort("h1")>>],
    [threads |-> 4], [threads |-> 5], [threads |-> -1],
    [api |-> 0], [api |-> 5000, worker |-> "n1"], [api |-> 70000] }

MCContents ==
  { << >>,
    [wallet |-> "w2", threads |-> 3],
    [wallet |-> "w1", pools |-> <<At("h1", 3333), NoPort("h2")>>],
    [wallet |-> "w2", pools |-> <<At("h2", 3333), HostOnly("h1")>>, enabled |-> FALSE,
     display |-> 20] }

LargeContents == MCContents \union {[wallet |-> "w2", threads |-> 5]}

MCAnswers ==
  { [wallet |-> "w3"],
    [wallet |-> "w3", pool |-> At("h1", 3956), worker |-> "n2", threads |-> 4],
    [wallet |-> "w3", pool |-> NoPort("h2"), threads |-> 6],
    [wallet |-> "w3", pool |-> HostOnly("h2"), threads |-> 11] }

MCWallets == {"w1", "w2", "w3"}
MCHosts == {"h1", "h2", "pool.verus.io"}
MCNames == {"bloxminer", "x", "127.0.0.1", "host", "n1", "n2", "b1"}
===============================================================================
