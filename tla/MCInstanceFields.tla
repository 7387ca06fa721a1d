-------------------------- MODULE MCInstanceFields --------------------------
(* Every query whose objects have no associations.  "23" is a chassis type  *)
(* and no unit, "Volts" a unit and no chassis type.                         *)
EXTENDS InstanceFields

MCQueryNames == {"Server", "Chassis", "Baseboard", "Sensors", "Version", "Relation"}
=============================================================================
