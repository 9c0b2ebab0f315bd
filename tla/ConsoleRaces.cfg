SPECIFICATION Spec
CONSTANTS
  None = None  MaxNet = 2  MaxTimer = 1
  root = root  boss = boss  auditor = auditor  nobody = nobody
  a1 = a1  a2 = a2  l1 = l1  c1 = c1  d1 = d1
  User = {root, boss, auditor, nobody}
  Admin = {root}
  PermOf <- MCPermOf
  Account = {a1, a2}
  Demo = {d1}
  PageOf <- MCPageOf
  Term <- MCTerm
  License = {l1}
  Item = {c1}
  TypeOf <- MCTypeOf
INVARIANTS TypeOK TableIsAsked PanelIsAsked
  OnlyClosingFormsLeaveCalls DocumentHiddenWithoutFocus SimulationAnnounced
PROPERTIES LinksLead DeactivatedForGood
