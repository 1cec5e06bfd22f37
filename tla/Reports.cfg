SPECIFICATION Spec
CONSTANTS
  Calendar <- SmallCalendar
  Week = 2
  Window <- SecondHour
  Interval = 2
  e1 = e1
  e2 = e2
  Editors <- TwoEditors
  FirstEdit = 5
  Schedules <- TwoSchedules
  MaxUpsets = 2
SYMMETRY Alike
INVARIANT Consistent
INVARIANT OncePerSlot
INVARIANT NextAgrees
