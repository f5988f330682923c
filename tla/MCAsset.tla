------------------------------ MODULE MCAsset ------------------------------
\* The asset contract alone, with the holders and limits of the run of the host.
EXTENDS AssetContract
MCPairs == {<<"a", "k">>}
MCOffers == {<<0, 0>>}
MCBalanceTtl == <<2, 3>>
MCInstanceTtl == <<1, 2>>
=============================================================================
