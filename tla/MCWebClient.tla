---------------------------- MODULE MCWebClient -----------------------------
(* The screens of the web client, one at a time, at work on two records. *)
EXTENDS ScreenWork, TLC

Incident   == INSTANCE IncidentScreen
Risk       == INSTANCE RiskScreens
Disposal   == INSTANCE DisposalScreen
Renewal    == INSTANCE RenewalScreen
Discovery  == INSTANCE DiscoveryScreen
Compliance == INSTANCE ComplianceScreens
Inventory  == INSTANCE InventoryScreen
Netmon     == INSTANCE NetmonScreens
Asset      == INSTANCE AssetScreens
Settings   == INSTANCE AdminScreens

AllScreens ==
  [incidents   |-> Incident!IncidentManagement,
   assessments |-> Risk!AssessmentRegister,
   risks       |-> Risk!RiskManagement,
   disposals   |-> Disposal!DisposalManagement,
   renewals    |-> Renewal!RenewalManagement,
   policies    |-> Renewal!Configuration,
   inbox       |-> Discovery!DiscoveryCenter,
   tokens      |-> Discovery!EnrollmentTokens,
   documents   |-> Compliance!DocumentLibrary,
   soa         |-> Compliance!ControlLibrary,
   counts      |-> Inventory!InventoryManagement,
   subnets     |-> Netmon!NetworkSubnets,
   devices     |-> Netmon!NetworkDevices,
   alerts      |-> Netmon!NetworkAlerts,
   register    |-> Asset!AssetBook,
   desk        |-> Asset!OperationsDashboard,
   intake      |-> Asset!BarcodeCenter,
   categories  |-> Settings!CategoryManager,
   catalog     |-> Settings!CatalogSettings,
   directory   |-> Settings!DirectorySyncConfiguration,
   people      |-> Settings!PeopleManagement,
   users       |-> Settings!UserManagement,
   suppliers   |-> Settings!SupplierManagement]

AllUnmirrored ==
  ({"risks"} \X Risk!Offered) \cup ({"renewals"} \X Renewal!Offered)
    \cup ({"register"} \X Asset!Offered) \cup ({"intake"} \X Asset!Intake)

AllUnguarded ==
  ({"subnets"} \X Netmon!UnguardedForms) \cup ({"register"} \X Asset!UnguardedForms)
    \cup ({"categories"} \X Settings!UnguardedEditor)
    \cup ({"suppliers"} \X Settings!UnguardedSuppliers)

\* The values of the constants.
MCScreens    == AllScreens
MCUnmirrored == AllUnmirrored
MCUnguarded  == AllUnguarded

Symmetric == Permutations(Ids) \cup Permutations(Hands)
=============================================================================
