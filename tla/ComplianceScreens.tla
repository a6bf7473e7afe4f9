--------------------------- MODULE ComplianceScreens ------------------------
(***************************************************************************)
(* The pages of the ISMS, Admin's: the documents (DocumentLibrary.tsx) and *)
(* the statements of applicability (ControlLibrary.tsx).                   *)
(***************************************************************************)
EXTENDS ScreenSteps

Admin == {"Admin"}

DocumentStatuses == {"DRAFT", "ISSUED", "SUPERSEDED", "WITHDRAWN"}
SoaStatuses      == {"DRAFT", "ISSUED", "SUPERSEDED"}
-----------------------------------------------------------------------------
(***************************************************************************)
(* What compliance.service lets through; codes, files and missing controls *)
(* decide as well.                                                         *)
(***************************************************************************)
createDocumentRoute   == Hiding(Admin, Route(Admin, {<<Absent, "DRAFT">>}))
addFileRoute          == Hiding(Admin, Route(Admin, Stay({"DRAFT", "ISSUED"})))
removeFileRoute       == Hiding(Admin, Route(Admin, Stay({"DRAFT"})))
issueDocumentRoute    == Hiding(Admin, Route(Admin, {<<"DRAFT", "ISSUED">>}))
withdrawDocumentRoute == Route(Admin, From(DocumentStatuses \ {"WITHDRAWN"}, "WITHDRAWN"))

createSoaVersionRoute == Hiding(Admin, Route(Admin, {<<Absent, "DRAFT">>}))
upsertSoaEntryRoute   == Route(Admin, Stay({"DRAFT"}))
issueSoaVersionRoute  == Hiding(Admin, Route(Admin, {<<"DRAFT", "ISSUED">>}))
-----------------------------------------------------------------------------
(***************************************************************************)
(* DocumentLibrary: the drawer opens on the row, and is fetched after each *)
(* write.                                                                  *)
(***************************************************************************)
loadDocuments == Lists

refreshSelected == <<Fetch, loadDocuments>>

upload     == <<Edit(addFileRoute, {})>> \o refreshSelected
removeFile == <<Edit(removeFileRoute, {})>> \o refreshSelected
issue      == <<Move(issueDocumentRoute, {})>> \o refreshSelected
withdraw   == <<Move(withdrawDocumentRoute, {})>> \o refreshSelected

submitDocument == <<Move(createDocumentRoute, {"shut"}), loadDocuments>>
DocumentModal  == Form(Admin, {<<Absent, "DRAFT">>}, submitDocument)

DocumentDetail == [
  upload     |-> Button(Admin, Stay({"DRAFT"}), upload),
  removeFile |-> Button(Admin, Stay({"DRAFT"}), removeFile),
  issue      |-> Button(Admin, {<<"DRAFT", "ISSUED">>}, issue),
  withdraw   |-> Button(Admin, {<<"ISSUED", "WITHDRAWN">>}, withdraw)]

DocumentLibrary == Screen(Admin, DocumentStatuses, <<>>, "copied",
  [submitDocument |-> DocumentModal, upload |-> DocumentDetail.upload,
   removeFile |-> DocumentDetail.removeFile, issue |-> DocumentDetail.issue,
   withdraw |-> DocumentDetail.withdraw])
-----------------------------------------------------------------------------
(***************************************************************************)
(* ControlLibrary: the version in work is fetched below the table that     *)
(* lists the versions, and fetched again, errors caught, after a write.    *)
(***************************************************************************)
loadVersions == Lists
openVersion  == <<Peek>>

saveEntry    == <<Edit(upsertSoaEntryRoute, {"shut"}), Peek, loadVersions>>
issueVersion == <<Move(issueSoaVersionRoute, {}), Peek, loadVersions>>

submitVersion   == <<Move(createSoaVersionRoute, {"shut"}), loadVersions, Peek>>
SoaVersionModal == Form(Admin, {<<Absent, "DRAFT">>}, submitVersion)

\* The entry in edit stays open, its code with it, when another version is opened.
SoaEditor == [
  saveEntry    |-> Sheet(Admin, Stay({"DRAFT"}), saveEntry),
  issueVersion |-> Button(Admin, {<<"DRAFT", "ISSUED">>}, issueVersion)]

ControlLibrary == Screen(Admin, SoaStatuses, openVersion, "beside",
  [submitVersion |-> SoaVersionModal, saveEntry |-> SoaEditor.saveEntry,
   issueVersion |-> SoaEditor.issueVersion])
=============================================================================
