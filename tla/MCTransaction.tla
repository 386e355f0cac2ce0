--------------------------- MODULE MCTransaction ---------------------------
(***************************************************************************)
(* Small instances of Transaction for TLC.                                 *)
(***************************************************************************)
EXTENDS TransactionProperties

MCContent == {"mine", "low", "lower", "quota", "tight"}

ClassOf(slice, system, user) ==
  [slice |-> slice, system |-> system, user |-> user]

\* One class; two classes that share the slice of the first profile, and a
\* system drop-in equal to the first profile's.
MCProfile ==
  [ desk |-> [ system |-> "low", user |-> "low",
               classes |-> <<ClassOf("browsers.slice", "quota", "quota")>> ],
    lab  |-> [ system |-> "low", user |-> "lower",
               classes |-> << ClassOf("browsers.slice", "tight", "tight"),
                              ClassOf("browsers.slice", "low", "quota") >> ] ]

Command(profile, no_classes) == [profile |-> profile, no_classes |-> no_classes]
AllRequests ==
  {Command("desk", FALSE), Command("desk", TRUE), Command("lab", FALSE)}
OneEach == {Command("desk", FALSE), Command("lab", FALSE)}
DropInsOnly == {Command("desk", TRUE), Command("lab", TRUE)}

NoFiles == [path \in Path |-> Absent]
\* An administrator's own user.slice drop-in and class slice.
OwnFiles ==
  [ NoFiles EXCEPT ![<<"system", "user.slice.d">>] = "mine",
                   ![<<"system", "browsers.slice">>] = "mine" ]
EitherFiles == {NoFiles, OwnFiles}
OnlyOwnFiles == {OwnFiles}

AllCalls == Call
Writes == {"write", "restore"}
\* A write that fails leaves the target torn; a copy into a backup does so only
\* when the process is killed.
WholeBackups == {"write", "restore", "manifest", "state", "reset"}
TornBackups == {"snapshot"}
=============================================================================
