------------------------------- MODULE MCHost -------------------------------
(***************************************************************************)
(* One run for the parts of the host, which share no state in this model:   *)
(* `part` says which of them moves in a behaviour, the others stay in one   *)
(* of their initial states.                                                 *)
(***************************************************************************)
EXTENDS HostTx, HostRecording, HostLedger, HostRent, AssetContract, HostFrames,
        HostCollections, TLC

VARIABLE part
Parts == {"tx", "recording", "ledger", "rent", "asset", "vm", "prng", "collections"}

-----------------------------------------------------------------------------
(* Transactions: two entries of one account with one nonce and a second     *)
(* tree; a custom account next to a signed creation; the source account and *)
(* an expired entry; an entry that one of two signers signed twice; a       *)
(* custom account that deploys a contract and signs for its constructor.    *)
SignedEntry(addr, tree, source, nonce, sigs, live) ==
    [addr |-> addr, tree |-> tree, source |-> source, nonce |-> nonce, sigs |-> sigs, live |-> live]
MCThresholds == "a" :> [master |-> 2, weight |-> 1, med |-> 3]
MCSigners == "a" :> <<[key |-> 1, weight |-> 9]>>
Sig(k) == [key |-> k, valid |-> TRUE]
Both == <<Sig(1), Sig(2)>>
CallsC2 == (Root :> <<"call", "c1">>) @@ (<<1>> :> <<"call", "c2">>)
OnlyC2 == Root :> <<"call", "c2">>
Creates == (Root :> <<"call", "c1">>) @@ (<<1>> :> <<"create", "n">>)
DirectlyCreates == (Root :> <<"create", "n">>) @@ (<<1>> :> <<"call", "n">>)
MCEntrySets ==
    { << SignedEntry("a", CallsC2, FALSE, 1, Both, TRUE), SignedEntry("a", OnlyC2, FALSE, 1, Both, TRUE) >>,
      << SignedEntry("w", CallsC2, FALSE, 1, <<>>, TRUE), SignedEntry("a", Creates, FALSE, 2, Both, TRUE) >>,
      << SignedEntry("a", CallsC2, TRUE, 0, <<>>, TRUE), SignedEntry("w", OnlyC2, FALSE, 1, <<>>, FALSE) >>,
      << SignedEntry("a", OnlyC2, FALSE, 1, <<Sig(1), Sig(1)>>, TRUE) >>,
      << SignedEntry("w", DirectlyCreates, FALSE, 1, <<>>, TRUE) >> }
MCInvokerAuths == {<<OnlyC2>>, <<DirectlyCreates, OnlyC2>>}

(* The ledger: two contracts that share code, one still to be created, one  *)
(* persistent and one temporary key, and footprints that allow everything,  *)
(* too little, or read where the contract writes.                           *)
Entry(v, live) == <<[val |-> v, live |-> live]>>
Persistent == <<"c1", "p">>
Temp == <<"c1", "t">>
MCDataKeys == {Persistent, Temp}
MCTemporary == {Temp}
MCSnapshot ==
    (InstKey("c1") :> Entry(<<"w1", <<>> >>, 12)) @@ (InstKey("c2") :> Entry(<<"w1", <<"x">> >>, 11))
        @@ (InstKey("n") :> <<>>) @@ (CodeKey("w1") :> Entry(<<"old">>, 14)) @@ (CodeKey("w2") :> <<>>)
        @@ (Persistent :> Entry(<<"x">>, 12)) @@ (Temp :> <<>>)
Writable(keys, written) == [k \in keys |-> IF k \in written THEN "RW" ELSE "RO"]
MCDeclared ==
    LET all == DOMAIN MCSnapshot
        one == {InstKey("c1"), CodeKey("w1")} IN
    { Writable(all, all),
      Writable(all, {Persistent, InstKey("c2")}),
      Writable(all \ {CodeKey("w2"), Temp}, all),
      Writable(one \cup {Persistent}, {Persistent}),
      Writable(one \cup {Temp}, {Temp}),
      Writable(one \cup {InstKey("c2")}, {InstKey("c2")}) }
MCTtlArgs == {<<2, 3>>, <<5, 20>>, <<3, 2>>}

(* The asset contract and the VMs.                                          *)
MCPairs == {<<"a", "k">>}
MCOffers == {<<0, 0>>, <<1, 0>>, <<0, 1>>}
MCBalanceTtl == <<2, 3>>
MCInstanceTtl == <<1, 2>>
MCCost == [invoke |-> <<1, 0>>, dispatch |-> <<1, 0>>, alloc |-> <<1, 1>>,
           visit |-> <<1, 0>>, log |-> <<2, 0>>]

MCFeeConfig == [insn |-> 2, readEntry |-> 3, readKb |-> 1, historyKb |-> 1, eventKb |-> 3, txKb |-> 2]
ASSUME FeesAssumption == SplittingCostsMore({0, 1, 2, 5})

(* Values: the number 1 and the symbol <<1>> small and as objects, a larger  *)
(* number, a longer symbol, and vectors and maps that hold either form.     *)
W(ty, obj, body) == [ty |-> ty, obj |-> obj, body |-> body]
MCShape ==
    ("void" :> W("Void", FALSE, <<>>)) @@ ("u1" :> W("U64", FALSE, <<1>>)) @@ ("U1" :> W("U64", TRUE, <<1>>))
        @@ ("U9" :> W("U64", TRUE, <<9>>)) @@ ("B" :> W("Bytes", TRUE, <<1>>))
        @@ ("a" :> W("Symbol", FALSE, <<1>>)) @@ ("A" :> W("Symbol", TRUE, <<1>>))
        @@ ("AB" :> W("Symbol", TRUE, <<1, 2>>))
        @@ ("V" :> W("Vec", TRUE, <<"u1", "A">>)) @@ ("VV" :> W("Vec", TRUE, <<"U1", "a", "void">>))
        @@ ("M" :> W("Map", TRUE, << <<"A", "u1">> >>)) @@ ("MM" :> W("Map", TRUE, << <<"a", "U9">> >>))
MCRank ==
    ("void" :> 1) @@ ("u1" :> 2) @@ ("U1" :> 2) @@ ("U9" :> 3) @@ ("B" :> 4) @@ ("a" :> 5) @@ ("A" :> 5)
        @@ ("AB" :> 6) @@ ("V" :> 7) @@ ("VV" :> 8) @@ ("M" :> 9) @@ ("MM" :> 10)
MCScValOrder ==
    << "Bool", "Void", "Error", "U32", "I32", "U64", "I64", "TimePoint", "Duration", "U128", "I128",
       "U256", "I256", "Bytes", "String", "Symbol", "Vec", "Map", "Address" >>
MCTexts == {<<1>>, <<1, 2>>}

-----------------------------------------------------------------------------
MCInit ==
    /\ part \in Parts
    /\ TxInit /\ RecInit /\ LedgerInit /\ RentInit /\ AssetInit /\ VmInit
    /\ part # "tx" => entries = CHOOSE e \in EntrySets : TRUE
    /\ part # "recording" => ~rootOnly
    /\ part # "ledger" => declared = CHOOSE d \in Declared : TRUE
    /\ part # "asset" => asset = "native" /\ flags = {}
    /\ part # "vm" => \A i \in DOMAIN objects : objects[i].tag = CHOOSE t \in Tags : TRUE
    /\ PrngInit /\ CollInit
    /\ part # "collections" => kind = "Bytes"
MCNext ==
    /\ UNCHANGED part
    /\ \/ part = "tx" /\ TxNext /\ UNCHANGED <<rvars, gvars, fvars, avars, vvars, prngvars, cvars>>
       \/ part = "recording" /\ RecNext /\ UNCHANGED <<txvars, gvars, fvars, avars, vvars, prngvars, cvars>>
       \/ part = "ledger" /\ LedgerNext /\ UNCHANGED <<txvars, rvars, fvars, avars, vvars, prngvars, cvars>>
       \/ part = "rent" /\ RentNext /\ UNCHANGED <<txvars, rvars, gvars, avars, vvars, prngvars, cvars>>
       \/ part = "asset" /\ AssetNext /\ UNCHANGED <<txvars, rvars, gvars, fvars, vvars, prngvars, cvars>>
       \/ part = "vm" /\ VmNext /\ UNCHANGED <<txvars, rvars, gvars, fvars, avars, prngvars, cvars>>
       \/ part = "prng" /\ PrngNext /\ UNCHANGED <<txvars, rvars, gvars, fvars, avars, vvars, cvars>>
       \/ part = "collections" /\ CollNext /\ UNCHANGED <<txvars, rvars, gvars, fvars, avars, vvars, prngvars>>
MCSpec == MCInit /\ [][MCNext]_<<part, txvars, rvars, gvars, fvars, avars, vvars, prngvars, cvars>>
=============================================================================
