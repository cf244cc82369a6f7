----------------------------- MODULE TableRules -----------------------------
(***************************************************************************)
(* What the layers of the server say of each table of master data: what    *)
(* its service looks up, which requests its routes serve (each calls the   *)
(* service and commits), which of its forms carry the key, and which rows  *)
(* its unique index compares.  Nothing but the four together says what a   *)
(* key is worth.                                                           *)
(***************************************************************************)

Root  == FALSE
Child == TRUE

(***************************************************************************)
(* Services: whether create looks for the active parent, and among which   *)
(* rows create and update look for the key.  A create that revives takes a *)
(* deleted row with the key instead of a new one.                          *)
(***************************************************************************)
LookUp(under, create, update) == [under |-> under, create |-> create, update |-> update]

\* The physical model.
SiteService           == LookUp(Root, "active", "all")
AreaService           == LookUp(Child, "active", "all")
LineService           == LookUp(Child, "active", "all")
WorkCellService       == LookUp(Child, "active", "all")
EquipmentService      == LookUp(Child, "active", "all")
SetupService          == LookUp(Child, "active", "unchecked")
ClassService          == LookUp(Root, "active", "all")
PropertyService       == LookUp(Child, "unchecked", "unchecked")
\* Products and routes.
ProductService        == LookUp(Root, "active", "all")
BomService            == LookUp(Child, "unchecked", "unchecked")
BomItemService        == LookUp(Child, "unchecked", "unchecked")
StepService           == LookUp(Child, "unchecked", "unchecked")
ParameterService      == LookUp(Child, "unchecked", "unchecked")
DispositionService    == LookUp(Root, "active", "unchecked")
RouteProductService   == LookUp(Child, "revives", "absent")
RouteMaterialService  == LookUp(Child, "revives", "absent")
StepEquipmentService  == LookUp(Root, "unchecked", "unchecked")
StepMaterialService   == LookUp(Root, "unchecked", "unchecked")
\* Work schedules.
ScheduleService       == LookUp(Root, "active", "unchecked")
ShiftService          == LookUp(Child, "unchecked", "unchecked")
BreakService          == LookUp(Child, "unchecked", "absent")
RotationService       == LookUp(Child, "unchecked", "unchecked")
SegmentService        == LookUp(Child, "unchecked", "absent")
TeamService           == LookUp(Child, "unchecked", "unchecked")
MemberService         == LookUp(Child, "unchecked", "absent")
ExceptionService      == LookUp(Child, "unchecked", "absent")
PeriodService         == LookUp(Child, "unchecked", "unchecked")
\* The other tables.
MaterialService       == LookUp(Root, "all", "all")
UnitService           == LookUp(Root, "revives", "all")
LocationService       == LookUp(Root, "active", "all")
DataDefinitionService == LookUp(Root, "active", "active")
ReasonService         == LookUp(Root, "unchecked", "unchecked")
AlertRuleService      == LookUp(Child, "unchecked", "unchecked")

(***************************************************************************)
(* Routes: the requests that change rows.  The pairs of a route, breaks,   *)
(* segments, members and exceptions cannot be changed, only replaced.      *)
(***************************************************************************)
Maintained      == {"create", "update", "delete"}
AddedAndRemoved == {"create", "delete"}

\* The physical model.
SiteRoutes            == Maintained
AreaRoutes            == Maintained
LineRoutes            == Maintained
WorkCellRoutes        == Maintained
EquipmentRoutes       == Maintained
SetupRoutes           == Maintained
ClassRoutes           == Maintained
PropertyRoutes        == Maintained
\* Products and routes.
ProductRoutes         == Maintained
BomRoutes             == Maintained
BomItemRoutes         == Maintained
StepRoutes            == Maintained
ParameterRoutes       == Maintained
DispositionRoutes     == Maintained
RouteProductRoutes    == AddedAndRemoved
RouteMaterialRoutes   == AddedAndRemoved
StepEquipmentRoutes   == Maintained
StepMaterialRoutes    == Maintained
\* Work schedules.
ScheduleRoutes        == Maintained
ShiftRoutes           == Maintained
BreakRoutes           == AddedAndRemoved
RotationRoutes        == Maintained
SegmentRoutes         == AddedAndRemoved
TeamRoutes            == Maintained
MemberRoutes          == AddedAndRemoved
ExceptionRoutes       == AddedAndRemoved
PeriodRoutes          == Maintained
\* The other tables.
MaterialRoutes        == Maintained
UnitRoutes            == Maintained
LocationRoutes        == Maintained
DataDefinitionRoutes  == Maintained
ReasonRoutes          == Maintained
AlertRuleRoutes       == Maintained

(***************************************************************************)
(* Forms: which of them carry the key.                                     *)
(***************************************************************************)
OnBoth   == {"create", "update"}
OnCreate == {"create"}

\* The physical model.
SiteForms             == OnBoth
AreaForms             == OnBoth
LineForms             == OnBoth
WorkCellForms         == OnBoth
EquipmentForms        == OnBoth
SetupForms            == OnCreate
ClassForms            == OnBoth
PropertyForms         == OnBoth
\* Products and routes.
ProductForms          == OnBoth
BomForms              == OnBoth
BomItemForms          == OnBoth
StepForms             == OnBoth
ParameterForms        == OnBoth
DispositionForms      == OnCreate
RouteProductForms     == OnCreate
RouteMaterialForms    == OnCreate
StepEquipmentForms    == OnCreate
StepMaterialForms     == OnCreate
\* Work schedules.
ScheduleForms         == OnBoth
ShiftForms            == OnBoth
BreakForms            == OnCreate
RotationForms         == OnBoth
SegmentForms          == OnCreate
TeamForms             == OnBoth
MemberForms           == OnCreate
ExceptionForms        == OnCreate
PeriodForms           == OnBoth
\* The other tables.
MaterialForms         == OnBoth
UnitForms             == OnBoth
LocationForms         == OnBoth
DataDefinitionForms   == OnBoth
ReasonForms           == OnCreate
AlertRuleForms        == OnBoth

(***************************************************************************)
(* Tables: the rows the unique index of the key covers.                    *)
(***************************************************************************)

\* The physical model.
SiteIndex             == "active"
AreaIndex             == "active"
LineIndex             == "active"
WorkCellIndex         == "active"
EquipmentIndex        == "active"
SetupIndex            == "all"
ClassIndex            == "active"
PropertyIndex         == "all"
\* Products and routes.
ProductIndex          == "no"
BomIndex              == "no"
BomItemIndex          == "no"
StepIndex             == "no"
ParameterIndex        == "no"
DispositionIndex      == "active"
RouteProductIndex     == "no"
RouteMaterialIndex    == "no"
StepEquipmentIndex    == "all"
StepMaterialIndex     == "all"
\* Work schedules.
ScheduleIndex         == "no"
ShiftIndex            == "no"
BreakIndex            == "no"
RotationIndex         == "no"
SegmentIndex          == "no"
TeamIndex             == "no"
MemberIndex           == "no"
ExceptionIndex        == "no"
PeriodIndex           == "no"
\* The other tables.
MaterialIndex         == "all"
UnitIndex             == "all"
LocationIndex         == "active"
DataDefinitionIndex   == "active"
ReasonIndex           == "all"
AlertRuleIndex        == "no"

(***************************************************************************)
(* The rules of a table: its key can be changed where a request serves it  *)
(* and the form carries it.                                                *)
(***************************************************************************)
Rules(service, routes, forms, index) ==
    [under  |-> service.under,
     create |-> service.create,
     update |-> IF "update" \in routes \cap forms THEN service.update ELSE "absent",
     index  |-> index]

Tables ==
    {Rules(SiteService, SiteRoutes, SiteForms, SiteIndex),
     Rules(AreaService, AreaRoutes, AreaForms, AreaIndex),
     Rules(LineService, LineRoutes, LineForms, LineIndex),
     Rules(WorkCellService, WorkCellRoutes, WorkCellForms, WorkCellIndex),
     Rules(EquipmentService, EquipmentRoutes, EquipmentForms, EquipmentIndex),
     Rules(SetupService, SetupRoutes, SetupForms, SetupIndex),
     Rules(ClassService, ClassRoutes, ClassForms, ClassIndex),
     Rules(PropertyService, PropertyRoutes, PropertyForms, PropertyIndex),
     Rules(ProductService, ProductRoutes, ProductForms, ProductIndex),
     Rules(BomService, BomRoutes, BomForms, BomIndex),
     Rules(BomItemService, BomItemRoutes, BomItemForms, BomItemIndex),
     Rules(StepService, StepRoutes, StepForms, StepIndex),
     Rules(ParameterService, ParameterRoutes, ParameterForms, ParameterIndex),
     Rules(DispositionService, DispositionRoutes, DispositionForms, DispositionIndex),
     Rules(RouteProductService, RouteProductRoutes, RouteProductForms, RouteProductIndex),
     Rules(RouteMaterialService, RouteMaterialRoutes, RouteMaterialForms, RouteMaterialIndex),
     Rules(StepEquipmentService, StepEquipmentRoutes, StepEquipmentForms, StepEquipmentIndex),
     Rules(StepMaterialService, StepMaterialRoutes, StepMaterialForms, StepMaterialIndex),
     Rules(ScheduleService, ScheduleRoutes, ScheduleForms, ScheduleIndex),
     Rules(ShiftService, ShiftRoutes, ShiftForms, ShiftIndex),
     Rules(BreakService, BreakRoutes, BreakForms, BreakIndex),
     Rules(RotationService, RotationRoutes, RotationForms, RotationIndex),
     Rules(SegmentService, SegmentRoutes, SegmentForms, SegmentIndex),
     Rules(TeamService, TeamRoutes, TeamForms, TeamIndex),
     Rules(MemberService, MemberRoutes, MemberForms, MemberIndex),
     Rules(ExceptionService, ExceptionRoutes, ExceptionForms, ExceptionIndex),
     Rules(PeriodService, PeriodRoutes, PeriodForms, PeriodIndex),
     Rules(MaterialService, MaterialRoutes, MaterialForms, MaterialIndex),
     Rules(UnitService, UnitRoutes, UnitForms, UnitIndex),
     Rules(LocationService, LocationRoutes, LocationForms, LocationIndex),
     Rules(DataDefinitionService, DataDefinitionRoutes, DataDefinitionForms, DataDefinitionIndex),
     Rules(ReasonService, ReasonRoutes, ReasonForms, ReasonIndex),
     Rules(AlertRuleService, AlertRuleRoutes, AlertRuleForms, AlertRuleIndex)}
=============================================================================
