SPECIFICATION PanelSpec
CONSTANTS
  p1 = p1
  p2 = p2
  p3 = p3
  p4 = p4
  p5 = p5
  Inverters = {p1, p2}
  Cases <- LostRowCases
  MaxPower = 40
  Powers = {0, 1, 40}
  DeadPercent = 5
  RefPercent = 75
  MinReference = 20
  ListsSeen <- FewLists
PROPERTY StoppedIsReported
