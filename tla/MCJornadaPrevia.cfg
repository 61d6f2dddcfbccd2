SPECIFICATION SpecClases
CONSTANTS
  HorasDelDia = 4
  DiasSemana = 2
  MaxFecha = 1
  Tramos <- TramosMC
  MaxTramos = 3
  Reservas = {r1,r2}
  Usuarios = {u1,u2}
  Bloques = {b1,b2}
  MaxCambiosJ = 4
  Nadie = Nadie
PROPERTY SoloSeCancelaLoMostrado
CHECK_DEADLOCK FALSE
