SPECIFICATION Spec
CONSTANT none = none
INVARIANTS OrderIsKept LapIsExact CarsArrive LockOpensForCode GraphIsColoured
PROPERTIES UnitsAreSlaves UnitsKeepAnswering BtnFollows ProxyDelivers CpuDoesAsInterpreter FatekEnds OutObeys
CHECK_DEADLOCK FALSE
