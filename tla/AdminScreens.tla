---------------------------- MODULE AdminScreens ----------------------------
(***************************************************************************)
(* The pages of administration (App.tsx): categories, departments and      *)
(* sites, the directory, people, accounts, and suppliers.                  *)
(***************************************************************************)
EXTENDS ScreenSteps

Admin == {"Admin"}

Uses     == {"ACTIVE", "INACTIVE"}
Accounts == Uses \cup {"SYNCED"}   \* kept here, or by the directory
-----------------------------------------------------------------------------
(***************************************************************************)
(* CategoryManager over useAssetCategoryCatalog: an answer is published    *)
(* into the catalogue at once, then the register is loaded again.  The     *)
(* editor is disabled while anything saves, the rows never, and the first  *)
(* handler to end lifts the flag for all.                                  *)
(***************************************************************************)
createCategoryRoute == Hiding(Admin, Route(Admin, {<<Absent, "ACTIVE">>}))
updateCategoryRoute == Hiding(Admin, Route(Admin, Uses \X Uses))
removeCategoryRoute == Hiding(Admin, Route(Admin, From(Uses, Gone)))

create == Move(createCategoryRoute, {"patch"})
update == Edit(updateCategoryRoute, {"patch"})
switch == Move(updateCategoryRoute, {"patch"})
remove == Move(removeCategoryRoute, {"patch"})

onCatalogChanged(then) == Call("reload", NoRoute, then)

submitNew == <<create, onCatalogChanged({"shut"})>>
submit    == <<update, onCatalogChanged({"shut"})>>

CategoryManager == Register(Admin, Uses,
  [submitNew |-> OpenForm(Admin, {<<Absent, "ACTIVE">>}, submitNew),
   submit    |-> OpenForm(Admin, Stay(Uses), submit),
   toggle    |-> OnRow(Admin, {<<"ACTIVE", "INACTIVE">>, <<"INACTIVE", "ACTIVE">>},
                       <<switch, onCatalogChanged({})>>),
   remove    |-> OnRow(Admin, From(Uses, Gone), <<remove, onCatalogChanged({"reset"})>>)])

UnguardedEditor == {"submitNew"}
-----------------------------------------------------------------------------
(***************************************************************************)
(* CatalogSettings.  Both forms close as they are sent; what is removed    *)
(* stays on record and leaves the lists.                                   *)
(***************************************************************************)
refreshServerData == Reload({})

createDepartmentRoute == Hiding(Admin, Route(Admin, {<<Absent, "ACTIVE">>}))
updateDepartmentRoute == Hiding(Admin, Route(Admin, Stay({"ACTIVE"})))
removeDepartmentRoute == Hiding(Admin, Route(Admin, {<<"ACTIVE", Gone>>}))

saveDepartment(write) == <<write, refreshServerData>>
removeDepartment      == <<Move(removeDepartmentRoute, {}), refreshServerData>>

submitDepartment(moves, write) == Blind(OpenForm(Admin, moves, saveDepartment(write)))

CatalogSettings == Register(Admin, {"ACTIVE"},
  [add    |-> submitDepartment({<<Absent, "ACTIVE">>}, Move(createDepartmentRoute, {})),
   save   |-> submitDepartment(Stay({"ACTIVE"}), Edit(updateDepartmentRoute, {})),
   remove |-> OnRow(Admin, {<<"ACTIVE", Gone>>}, removeDepartment)])
-----------------------------------------------------------------------------
(***************************************************************************)
(* DirectorySyncConfiguration: whatever is asked of a provider, what the   *)
(* form holds is saved first.                                              *)
(***************************************************************************)
configureRoute == Hiding(Admin, Route(Admin, Stay({"SET"})))
testRoute      == Hiding(Admin, Route(Admin, Stay({"SET"})))
syncRoute      == Hiding(Admin, Route(Admin, Stay({"SET"})))

loadDirectory == Lists
saveProvider  == <<Edit(configureRoute, {"patch"})>>

working(run) == Busy("working", OnRow(Admin, Stay({"SET"}), run))

DirectorySyncConfiguration == Register(Admin, {"SET"},
  [submitProvider |-> working(saveProvider),
   test |-> working(saveProvider \o <<Edit(testRoute, {}), loadDirectory>>),
   sync |-> working(saveProvider \o <<Edit(syncRoute, {}), loadDirectory>>)])
-----------------------------------------------------------------------------
(***************************************************************************)
(* PeopleManagement and UserManagement: a form that closes before the list *)
(* is loaded, and the buttons of the rows kept here.                       *)
(***************************************************************************)
createPersonRoute == Hiding(Operators, Route(Operators, {<<Absent, "ACTIVE">>}))
updatePersonRoute == Hiding(Operators, Route(Operators, Uses \X Uses))
removePersonRoute == Hiding(Admin, Route(Admin, From(Accounts, Gone)))

loadPeople       == Lists
addPerson        == <<Move(createPersonRoute, {"shut"}), loadPeople>>
editPerson       == <<Edit(updatePersonRoute, {"shut"}), loadPeople>>
deactivatePerson == <<Move(updatePersonRoute, {}), loadPeople>>
removePerson     == <<Move(removePersonRoute, {}), loadPeople>>

PeopleManagement == Register(Admin, Accounts,
  [addPerson        |-> Busy("working", OpenForm(Admin, {<<Absent, "ACTIVE">>}, addPerson)),
   editPerson       |-> Busy("working", OpenForm(Admin, Stay(Uses), editPerson)),
   deactivatePerson |-> OnRow(Admin, {<<"ACTIVE", "INACTIVE">>}, deactivatePerson),
   removePerson     |-> OnRow(Admin, From(Uses, Gone), removePerson)])

createUserRoute == Hiding(Admin, Route(Admin, {<<Absent, "ACTIVE">>}))
updateUserRoute == Hiding(Admin, Route(Admin, Uses \X Uses))
resetRoute      == Route(Admin, Stay(Uses))

loadUsers      == Lists
addUser        == <<Move(createUserRoute, {"shut"}), loadUsers>>
deactivateUser == <<Move(updateUserRoute, {}), loadUsers>>
resetPassword  == <<Edit(resetRoute, {}), loadUsers>>

UserManagement == Register(Admin, Accounts,
  [addUser        |-> Busy("working", OpenForm(Admin, {<<Absent, "ACTIVE">>}, addUser)),
   deactivateUser |-> OnRow(Admin, {<<"ACTIVE", "INACTIVE">>}, deactivateUser),
   resetPassword  |-> OnRow(Admin, Stay(Uses), resetPassword)])
-----------------------------------------------------------------------------
(***************************************************************************)
(* SupplierManagement.  No flag keeps its forms from being sent twice.     *)
(* The bin only takes the row away; the page then has the supplier         *)
(* deleted.                                                                *)
(***************************************************************************)
createVendorRoute == Hiding(Operators, Route(Operators, {<<Absent, "LISTED">>}))
updateVendorRoute == Hiding(Operators, Route(Operators, Stay({"LISTED"})))

reloadVendors == Reload({"shut"})
addVendor     == <<Move(createVendorRoute, {}), reloadVendors>>
saveVendor    == <<Edit(updateVendorRoute, {}), reloadVendors>>

SupplierFormModal(moves, run) == OpenForm(Operators, moves, run)
SupplierEvaluationModal       == OpenForm(Operators, Stay({"LISTED"}), saveVendor)

SupplierManagement == Sweeping(Register(Operators, {"LISTED"},
  [addVendor  |-> SupplierFormModal({<<Absent, "LISTED">>}, addVendor),
   saveVendor |-> SupplierFormModal(Stay({"LISTED"}), saveVendor),
   evaluate   |-> SupplierEvaluationModal,
   bin        |-> OnRow(Operators, {<<"LISTED", Gone>>}, <<Local({"drop"})>>)]))

UnguardedSuppliers == {"addVendor"}
=============================================================================
