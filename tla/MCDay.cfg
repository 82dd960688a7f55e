CONSTANTS
  None = None
  borshch = borshch
  soup = soup
  salad = salad
  ann = ann
  bob = bob
  school = school
  garden = garden
  ill = ill
  w1 = w1
  w2 = w2
  mood = mood
  Children = {ann}
  Days = {0, 1}
  Dishes = {borshch, soup, salad}
  Courses = {"first", "salad"}
  CourseOf <- MCCourseOf
  Orders = {1, 2}
  Notices = {1, 2}
  Txs = {t1, t2}
  Wishes <- MCWishes
  Plates <- MCPlates
  Cuts = {0, 1}
  MaxRows = 2
  MaxNow = 1
  Groups = {school, garden}
  Kind <- MCKind
  Institution <- MCInstitution
  LastDay = 2
  Weekend = {1}
  Reasons = {ill}
  CalendarRows <- MCCalendar
  NoticeRows <- MCNotices
  Marks = {1, 2, 3}
  Savers = {w1, w2}
  Managers = {w1}
  Sets = {1}
  Questions = {mood}
  Answers = {1, 2, 3}
  Types = {"text", "yes_no"}
  Values <- MCValues
SYMMETRY Symmetry
CHECK_DEADLOCK FALSE
SPECIFICATION MCSpec
INVARIANTS
  NothingTwice
  OrdersAreServed
  ApprovalClearsOrders
  ViewsAgree
  AnswersKeepTheirQuestions
PROPERTIES
  FillSparesPublished
  MarkedStaysMarked
  AnsweredWhileAsked
