\* Two processes, one tab, one change, one trouble of any kind.
SPECIFICATION LiveSpec
CONSTANTS
  p1 = p1
  p2 = p2
  t1 = t1
  Null = Null
  Processes = {p1, p2}
  First = {p1}
  Tabs = {t1}
  MaxVersion = 1
  Troubles = {"crash", "restart", "listen", "send", "clog", "stuff", "break", "reader"}
  MaxTrouble = 1
INVARIANTS NothingForgotten
PROPERTIES NudgesSuffice PollCatchesUp
