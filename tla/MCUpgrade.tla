------------------------------ MODULE MCUpgrade ------------------------------
(* One ledger table with one trigger, and three migrations over it, for TLC. *)
EXTENDS UpgradeProperties

CONSTANTS serve1, cli, entries, noUpdate, sound

Creates == [adds |-> {entries, noUpdate}, drops |-> {}]
Plain == [adds |-> {}, drops |-> {}]
Rebuild == [adds |-> {entries, noUpdate}, drops |-> {entries}]
ForgetfulRebuild == [adds |-> {entries}, drops |-> {entries}]
DropTable == [adds |-> {}, drops |-> {entries}]
Corrupt == [adds |-> {}, drops |-> {sound}]

MCTableOf == [t \in {noUpdate} |-> entries]
MCChanges ==
  <<{Creates}, {Plain, Rebuild, ForgetfulRebuild, DropTable}, {Plain, ForgetfulRebuild, DropTable, Corrupt}>>
BadThird == <<{Creates}, {Plain}, {ForgetfulRebuild}>>

Fresh == [version |-> 0, parts |-> {sound}, rows |-> 0]
AtOne == [version |-> 1, parts |-> {sound, entries, noUpdate}, rows |-> 0]
Degraded == [AtOne EXCEPT !.parts = @ \ {noUpdate}]
MCArrived == {Fresh, AtOne, Degraded}
Intact == {AtOne}

OneProc == {serve1}
TwoProcs == {serve1, cli}
MCBinaries == {1, 3}
OneBinary == {3}
MCTables == {entries}
MCTriggers == {noUpdate}
=============================================================================
