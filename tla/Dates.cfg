\* Every day until the year 2517.
SPECIFICATION DatesSpec
CONSTANT MaxDay = 200000
INVARIANTS LogDateIsRight ParseIsExact
