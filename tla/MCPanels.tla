----------------------------- MODULE MCPanels -----------------------------
(* Instances of Panels for TLC. *)
EXTENDS Panels, TLC

OneSlot     == [u \in Users |-> 1]
MenuInputs  == {Show(Settings), Show(Input("rate"))}
MenuTexts   == {"number"}
SomeStarts  == {Legacy, Settings, Input("orders"), Bank("wallet")}
OneStart    == {Input("orders")}
BankStart   == {Bank("wallet")}
PayInputs   == {Pay("v")}

SomeCommands == {Show(Settings), Set("rate", "v"), Pay("v")}
Interchangeable == Permutations(Workers)
=============================================================================
