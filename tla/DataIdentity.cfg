SPECIFICATION Spec
CONSTANTS
  HostDirs = {d1, d2}
  Inner = Inner
  MaxId = 6
  MaxHurt <- AnyHurt
INVARIANTS NoFalseAlarm LossIsNoticed
PROPERTY DataIsTheAuthority
